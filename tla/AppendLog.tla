------------------------------ MODULE AppendLog ------------------------------
(***************************************************************************)
(* The append-only JSON-lines log under both halves of delivery: the queue *)
(* (channel/queue.jsonl, FileSessionQueueStore, read whole every time) and *)
(* the send ledger (channel/sends.jsonl, FileSendLedger, read from where   *)
(* the last read stopped). A line is two pieces and a newline, which is    *)
(* enough for a write to stop before, inside and just after a record. One  *)
(* append runs at a time: the queue's under the session's queue lock, the  *)
(* ledger's in its own transaction chain.                                  *)
(***************************************************************************)
EXTENDS Naturals, Sequences, FiniteSets

CONSTANTS
  Record,     (* the lines that may be appended, each at most once            *)
  NoRecord,
  MaxTorn     (* bound: how often an append is cut short                      *)

ASSUME LogConstants == IsFiniteSet(Record) /\ NoRecord \notin Record /\ MaxTorn \in Nat

VARIABLES
  file,       (* the bytes on disk, as pieces of lines                        *)
  appending,  (* the record being appended                                    *)
  left,       (* what of its line is not written yet                          *)
  begun,      (* the records whose append has begun                           *)
  acked,      (* the records whose append resolved                            *)
  torn,       (* ghost: appends that left part of a line behind               *)
  offset,     (* the ledger's cache: the pieces parsed, just past a newline   *)
  kept        (* and the records they held                                    *)

logVars   == << file, appending, left, begun, acked, torn >>
cacheVars == << offset, kept >>
vars == << logVars, cacheVars >>

Newline == [piece |-> "newline", of |-> NoRecord]
Piece(p, r) == [piece |-> p, of |-> r]
Line(r) == << Piece("head", r), Piece("tail", r), Newline >>

(* A line parses when it is one record's two pieces and nothing else; any
   other line is skipped, and so is nothing but that line. *)
StartsLine(f, i) == i = 1 \/ f[i - 1] = Newline
EndsLine(f, i) == i = Len(f) \/ f[i + 1] = Newline

(* Mutant: reading stops at the first line that does not parse. *)
Readable_StopsAtBadLine(f) ==
  {r \in Record : \E i \in 1 .. Len(f) - 1 :
     /\ f[i] = Piece("head", r) /\ f[i + 1] = Piece("tail", r)
     /\ StartsLine(f, i) /\ EndsLine(f, i + 1)
     /\ \A j \in 1 .. i - 1 : f[j] = Newline =>
          \E q \in Record : /\ j >= 3 /\ StartsLine(f, j - 2)
                            /\ f[j - 2] = Piece("head", q) /\ f[j - 1] = Piece("tail", q)}

Readable(f) ==
  {r \in Record : \E i \in 1 .. Len(f) - 1 :
     /\ f[i] = Piece("head", r) /\ f[i + 1] = Piece("tail", r)
     /\ StartsLine(f, i) /\ EndsLine(f, i + 1)}

(* Just past the last newline of f. *)
LastLineEnd(f) ==
  LET ends == {i \in 1 .. Len(f) : f[i] = Newline}
  IN  IF ends = {} THEN 0 ELSE CHOOSE i \in ends : \A j \in ends : j <= i

Rest(f, k) == SubSeq(f, k + 1, Len(f))

-----------------------------------------------------------------------------
(* append(): open, write the line, flush, answer.                            *)

Begin(r) ==
  /\ appending = NoRecord /\ r \notin begun
  /\ appending' = r /\ left' = Line(r) /\ begun' = begun \cup {r}
  /\ UNCHANGED << file, acked, torn, cacheVars >>

(* The host takes as much of a write as it likes. *)
Write ==
  /\ left # << >>
  /\ \E k \in 1 .. Len(left) :
       file' = file \o SubSeq(left, 1, k) /\ left' = Rest(left, k)
  /\ UNCHANGED << appending, begun, acked, torn, cacheVars >>

(* Mutant: the answer does not wait for the whole line. *)
Resolve_Early ==
  /\ appending # NoRecord
  /\ acked' = acked \cup {appending} /\ appending' = NoRecord /\ left' = << >>
  /\ UNCHANGED << file, begun, torn, cacheVars >>

Resolve ==
  /\ appending # NoRecord /\ left = << >>
  /\ acked' = acked \cup {appending} /\ appending' = NoRecord
  /\ UNCHANGED << file, left, begun, torn, cacheVars >>

(* What an append cut short leaves: the part of its line that was written. *)
CutShort ==
  /\ appending' = NoRecord /\ left' = << >>
  /\ torn' = IF left # << >> /\ Len(left) < 3 THEN torn + 1 ELSE torn
  /\ UNCHANGED << file, begun, acked >>

(* The write throws (a full disk, an I/O error); the daemon goes on. *)
Fail ==
  /\ appending # NoRecord /\ torn < MaxTorn
  /\ CutShort
  /\ UNCHANGED cacheVars

(* The daemon dies and a new one starts, with nothing read yet. *)
Restart ==
  /\ torn < MaxTorn
  /\ CutShort
  /\ offset' = 0 /\ kept' = {}

-----------------------------------------------------------------------------
(* caughtUp(): the bytes appended since the last read are parsed; those of   *)
(* complete lines are kept, a complete last line without its newline is      *)
(* answered and not kept. The queue's read is Readable(file).                *)

(* Mutant: the offset moves past the last line though it is not complete. *)
ReadLedger_PastTail ==
  LET unread == Rest(file, offset) IN
  /\ kept' = kept \cup Readable(unread)
  /\ offset' = Len(file)
  /\ UNCHANGED logVars

ReadLedger ==
  LET unread == Rest(file, offset)
      end == LastLineEnd(unread)
  IN
  /\ kept' = kept \cup Readable(SubSeq(unread, 1, end))
  /\ offset' = offset + end
  /\ UNCHANGED logVars

(* Another session's ledger took its place among those kept read. *)
Evict ==
  /\ offset' = 0 /\ kept' = {}
  /\ UNCHANGED logVars

-----------------------------------------------------------------------------
Init ==
  /\ file = << >> /\ appending = NoRecord /\ left = << >>
  /\ begun = {} /\ acked = {} /\ torn = 0
  /\ offset = 0 /\ kept = {}

Next ==
  \/ \E r \in Record : Begin(r)
  \/ Write \/ Resolve \/ Fail \/ Restart \/ ReadLedger \/ Evict

Spec == Init /\ [][Next]_vars

-----------------------------------------------------------------------------
(* What the cache now answers. *)
Answer == kept \cup Readable(Rest(file, offset))

(* However the log grew, was cut short and was read before, the incremental
   read answers exactly what reading the whole file would. *)
CacheAgrees == Answer = Readable(file)

(* An append cut short costs at most one acknowledged record: the one whose
   line its remains run into. Every other acknowledged line is still read. *)
LossBounded == Cardinality(acked \ Readable(file)) <= torn

(* A record that was answered and reads goes on reading: whatever is torn,
   appended after it or restarted, the loss falls on a later record. *)
ReadStays == [][acked \cap Readable(file) \subseteq Readable(file')]_vars
=============================================================================
