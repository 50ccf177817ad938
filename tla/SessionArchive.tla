--------------------------- MODULE SessionArchive ---------------------------
(***************************************************************************)
(* Which sessions are live (docs/session-archive.md): the registry file of *)
(* the archived ones, the registry in memory, the rows of the live index,  *)
(* and every operation that moves a session across. An operation takes, in *)
(* this order, the gate of a lineage's root, the lanes of sessions'        *)
(* documents and a turn at the registry, and reads documents in between.   *)
(* Gates and lanes are KeyedSerialExecutors and are modelled by what those *)
(* promise (SerialLanes): a call holds its keys once it is first in line   *)
(* for each, and an exclusive call names them all.                         *)
(*                                                                         *)
(* A lineage is read in one step, and so is a roster. A document written   *)
(* is readable, its write succeeds, and a session says who its lead is.    *)
(***************************************************************************)
EXTENDS Naturals, Sequences, FiniteSets

CONSTANTS
  Session, NoSession,
  Writer, Archiver,   (* the operations at work: several, and the one pass     *)
  Requests,           (* what a writer may be asked for: a kind of operation, a *)
                      (* session and what its document becomes                 *)
  FirstParent,        (* the lead each session starts with                     *)
  FirstBorn,          (* the sessions there are to begin with                  *)
  MaxMoves,           (* how often a lineage may move under a waiter: 3        *)
  MaxAsks, MaxFaults, MaxCrashes  (* bounds: requests, failed writes, restarts  *)

ASSUME ArchiveConstants ==
  /\ IsFiniteSet(Session) /\ NoSession \notin Session
  /\ Archiver \notin Writer
  /\ Requests \subseteq
       [kind : {"state"}, id : Session, to : {"same", "running", "recent"}] \cup
       [kind : {"config"}, id : Session, to : Session \cup {NoSession}] \cup
       [kind : {"child"}, id : Session \ FirstBorn, to : Session] \cup
       [kind : {"pin"}, id : Session, to : {NoSession}] \cup
       [kind : {"sweep", "survey"}, id : {NoSession}, to : {NoSession}]
  /\ FirstParent \in [Session -> Session \cup {NoSession}]
  /\ FirstBorn \subseteq Session
  /\ \A s \in Session : FirstParent[s] # NoSession => s \in FirstBorn /\ FirstParent[s] \in FirstBorn
  /\ MaxMoves \in Nat /\ MaxAsks \in Nat /\ MaxFaults \in Nat /\ MaxCrashes \in Nat

VARIABLES
  parent, status, born,   (* the sessions' documents                          *)
  kept,                   (* pinned, on an open card, or with an agenda item  *)
  file,                   (* state/archived-sessions.json                     *)
  archived,               (* the same, as published in memory                 *)
  index,                  (* the rows of the live index                       *)
  gates, lanes, turns,    (* who waits for a root, a session, the registry    *)
  op,                     (* what each operation is doing                     *)
  pass,                   (* what the archive pass has read                   *)
  orphaned,               (* ghost: live, unlisted by the pass that took its lead *)
  asks, faults, crashes   (* ghosts: how many there were                      *)

docVars  == << parent, status, born, kept >>
homeVars == << file, archived, index >>
lockVars == << gates, lanes, turns >>
countVars == << asks, faults, crashes >>
vars == << docVars, homeVars, lockVars, op, pass, orphaned, countVars >>

Proc == Writer \cup {Archiver}
Statuses == {"running", "recent", "ended"}   (* recent: ended, and too young *)

Idle == [kind |-> "none", at |-> "idle", id |-> NoSession, to |-> NoSession, root |-> NoSession,
         prev |-> NoSession, moves |-> 0, who |-> NoSession, chain |-> {}, after |-> "idle"]
NoPass == [ids |-> << >>, roots |-> << >>, fresh |-> FALSE, keeps |-> {}, listed |-> {},
           leaving |-> {}, left |-> {}]

(* The named session and every lead above it. *)
Above(s) == IF parent[s] = NoSession THEN {} ELSE {parent[s]}
Lineages(s) == {C \in SUBSET Session : s \in C /\ \A m \in C : Above(m) \subseteq C}
Ancestors(s) == {a \in Session : \A C \in Lineages(s) : a \in C}

(* Above all of a lineage: its last lead, or the loop it ends in, which
   settles on one of its members. *)
Top(s) == {r \in Ancestors(s) : \A a \in Ancestors(s) : r \in Ancestors(a)}
RootOf(s) == CHOOSE r \in Top(s) : TRUE

Live == born \ archived
Quiet == \A p \in Proc : op[p].at = "idle"

Init ==
  /\ parent = FirstParent /\ born = FirstBorn /\ kept = {}
  /\ status \in [Session -> {"ended", "running"}]
  /\ file = {} /\ archived = {} /\ index = born
  /\ gates = [s \in Session |-> << >>] /\ lanes = gates /\ turns = << >>
  /\ op = [p \in Proc |-> Idle] /\ pass = NoPass
  /\ orphaned = {} /\ asks = 0 /\ faults = 0 /\ crashes = 0

-----------------------------------------------------------------------------
(* Lines. *)

(* A call stands in a line once. *)
Without(line, p) ==
  LET places == {i \in DOMAIN line : line[i] = p}
      i == CHOOSE n \in places : TRUE
  IN  IF places = {} THEN line ELSE SubSeq(line, 1, i - 1) \o SubSeq(line, i + 1, Len(line))

Join(lines, p, keys) == [s \in Session |-> IF s \in keys THEN Append(lines[s], p) ELSE lines[s]]
Leave(lines, p) == [s \in Session |-> Without(lines[s], p)]
First(lines, p, keys) == \A s \in keys : lines[s] # << >> /\ Head(lines[s]) = p
TurnOf(p) == turns # << >> /\ Head(turns) = p

At(p, at) == op[p].at = at
GoesTo(p, at) == op' = [op EXCEPT ![p].at = at]

(* A request reaches an idle writer. *)
Begins(p, r, at) ==
  /\ At(p, "idle") /\ p \in Writer
  /\ asks < MaxAsks /\ asks' = asks + 1
  /\ op' = [op EXCEPT ![p] = [Idle EXCEPT !.kind = r.kind, !.at = at, !.id = r.id, !.to = r.to]]

(* Mutant: a turn that ends without restoring anything is kept. *)
Ends_KeepsTurn(p) ==
  /\ op' = [op EXCEPT ![p] = Idle]
  /\ gates' = Leave(gates, p) /\ lanes' = Leave(lanes, p) /\ turns' = turns
  /\ pass' = IF p = Archiver THEN NoPass ELSE pass

(* The operation is over, or has thrown: every finally block runs. *)
Ends(p) ==
  /\ op' = [op EXCEPT ![p] = Idle]
  /\ gates' = Leave(gates, p) /\ lanes' = Leave(lanes, p) /\ turns' = Without(turns, p)
  /\ pass' = IF p = Archiver THEN NoPass ELSE pass

-----------------------------------------------------------------------------
(* retainSession: restores a session and its leads to the live set. It takes
   no lane: its caller may hold some. *)

(* Mutant: a commit under way does not hear of it. *)
Retain_Unheard(p, s, after) ==
  /\ op' = [op EXCEPT ![p].at = "chain", ![p].who = s, ![p].after = after]
  /\ UNCHANGED pass

(* The change is counted before anything is awaited. *)
Retain(p, s, after) ==
  /\ op' = [op EXCEPT ![p].at = "chain", ![p].who = s, ![p].after = after]
  /\ pass' = [pass EXCEPT !.fresh = FALSE]

(* Mutant: the walk goes one past the root. *)
ChainOf_Past(s) == Ancestors(s) \cup {parent[m] : m \in Ancestors(s)}
ChainOf(s) == Ancestors(s)

ReadChain(p) ==
  /\ At(p, "chain")
  /\ op' = [op EXCEPT ![p].at = "turn", ![p].chain = ChainOf(op[p].who)]
  /\ turns' = Append(turns, p)
  /\ UNCHANGED << docVars, homeVars, gates, lanes, pass, orphaned, countVars >>

Restored(p) == {s \in op[p].chain : s \in archived \/ s \notin index}

(* The turn is over and the caller goes on, still holding what it holds. *)
Resume(p) ==
  IF op[p].after = "idle" THEN Ends(p)
  ELSE /\ op' = [op EXCEPT ![p].at = op[p].after, ![p].after = "idle", ![p].who = NoSession,
                           ![p].chain = {}]
       /\ turns' = Tail(turns)
       /\ UNCHANGED << gates, lanes, pass >>

(* Rows first, the registry after them. *)
RestoreRows(p) ==
  /\ At(p, "turn") /\ TurnOf(p)
  /\ IF Restored(p) = {}
     THEN Resume(p) /\ UNCHANGED index
     ELSE GoesTo(p, "write") /\ index' = index \cup Restored(p) /\ UNCHANGED << lockVars, pass >>
  /\ UNCHANGED << docVars, file, archived, orphaned, countVars >>

WriteRegistry(p) ==
  /\ At(p, "write")
  /\ file' = archived \ op[p].chain
  /\ GoesTo(p, "publish")
  /\ UNCHANGED << docVars, archived, index, lockVars, pass, orphaned, countVars >>

Publish(p) ==
  /\ At(p, "publish")
  /\ archived' = archived \ op[p].chain
  /\ orphaned' = {s \in orphaned : parent[s] \notin op[p].chain}
  /\ Resume(p)
  /\ UNCHANGED << docVars, file, index, countVars >>

(* The atomic write throws, before its rename or after it. *)
RegistryFails(p) ==
  /\ faults < MaxFaults /\ faults' = faults + 1
  /\ At(p, "write")
  /\ file' \in {file, archived \ op[p].chain}
  /\ Ends(p)
  /\ UNCHANGED << docVars, archived, index, orphaned, asks, crashes >>

-----------------------------------------------------------------------------
(* Writes. A state write or an append takes the session's lane; a config
   write takes the gate of its root around it. *)

AskState(p) ==
  /\ \E r \in Requests :
       /\ r.kind = "state" /\ r.id \in born
       /\ r.to = "recent" => status[r.id] = "running"
       /\ Begins(p, r, "lane")
       /\ lanes' = Join(lanes, p, {r.id})
  /\ UNCHANGED << docVars, homeVars, gates, turns, pass, orphaned, faults, crashes >>

(* A session that exists gets another lead. *)
AskConfig(p) ==
  /\ \E r \in Requests :
       /\ r.kind = "config" /\ r.id \in born
       /\ r.to # NoSession => r.to \in born /\ r.id \notin Ancestors(r.to)
       /\ Begins(p, r, "root")
  /\ UNCHANGED << docVars, homeVars, lockVars, pass, orphaned, faults, crashes >>

(* publishChild retains the lead first, then writes the child's config. *)
AskChild(p) ==
  /\ At(p, "idle") /\ p \in Writer
  /\ asks < MaxAsks /\ asks' = asks + 1
  /\ \E r \in Requests :
       /\ r.kind = "child" /\ r.id \notin born /\ r.to \in born
       /\ \A q \in Writer : op[q].id # r.id
       /\ op' = [op EXCEPT ![p] = [Idle EXCEPT !.kind = "child", !.at = "chain", !.id = r.id,
                                               !.to = r.to, !.who = r.to, !.after = "root"]]
  /\ pass' = [pass EXCEPT !.fresh = FALSE]
  /\ UNCHANGED << docVars, homeVars, lockVars, orphaned, faults, crashes >>

ReadRoot(p) ==
  /\ At(p, "root") /\ p \in Writer
  /\ LET r == RootOf(op[p].id)
     IN  /\ op' = [op EXCEPT ![p].at = "gate", ![p].root = r]
         /\ gates' = Join(gates, p, {r})
  /\ UNCHANGED << docVars, homeVars, lanes, turns, pass, orphaned, countVars >>

SameRoot(p) == RootOf(op[p].id) = op[p].root

EnterGate(p) ==
  /\ At(p, "gate") /\ p \in Writer /\ First(gates, p, {op[p].root})
  /\ \/ /\ SameRoot(p)
        /\ op' = [op EXCEPT ![p].at = "lane", ![p].prev = parent[op[p].id]]
        /\ lanes' = Join(lanes, p, {op[p].id})
        /\ UNCHANGED << gates, turns, pass >>
     \/ /\ ~SameRoot(p) /\ op[p].moves < MaxMoves
        /\ op' = [op EXCEPT ![p].at = "root", ![p].root = NoSession, ![p].moves = @ + 1]
        /\ gates' = Leave(gates, p)
        /\ UNCHANGED << lanes, turns, pass >>
     \/ ~SameRoot(p) /\ op[p].moves >= MaxMoves /\ Ends(p)
  /\ UNCHANGED << docVars, homeVars, orphaned, countVars >>

Revives(s) == s \in archived

(* reviveIfArchived, the first thing under the lane. *)
EnterLane(p) ==
  /\ At(p, "lane") /\ p \in Writer
  /\ First(lanes, p, {op[p].id})
  /\ IF Revives(op[p].id) THEN Retain(p, op[p].id, "doc") ELSE GoesTo(p, "doc") /\ UNCHANGED pass
  /\ UNCHANGED << docVars, homeVars, lockVars, orphaned, countVars >>

WriteDoc(p) ==
  /\ At(p, "doc")
  /\ LET s == op[p].id
     IN  \/ /\ op[p].kind = "state"
            /\ status' = IF op[p].to = "same" THEN status ELSE [status EXCEPT ![s] = op[p].to]
            /\ UNCHANGED << parent, born >>
         \/ /\ op[p].kind \in {"config", "child"}
            /\ parent' = [parent EXCEPT ![s] = op[p].to]
            /\ born' = born \cup {s}
            /\ status' = IF op[p].kind = "child" THEN [status EXCEPT ![s] = "running"] ELSE status
  /\ GoesTo(p, "row")
  /\ UNCHANGED << kept, homeVars, lockVars, pass, orphaned, countVars >>

(* syncSessionUnlocked, and the lane is given up. *)
SyncRow(p) ==
  /\ At(p, "row")
  /\ index' = index \cup {op[p].id}
  /\ IF op[p].kind = "state" THEN Ends(p)
     ELSE GoesTo(p, "proof") /\ lanes' = Leave(lanes, p) /\ UNCHANGED << gates, turns, pass >>
  /\ UNCHANGED << docVars, file, archived, orphaned, countVars >>

(* Mutant: whoever the session's lead is, nothing is owed to it. *)
OwesLead_Never(p) == FALSE

(* Still under the gate: does the lead have to be retained? *)
OwesLead(p) ==
  LET to == parent[op[p].id]
  IN  to # NoSession /\ (to # op[p].prev \/ Ancestors(to) \cap archived # {})

ProveParent(p) ==
  /\ At(p, "proof")
  /\ IF OwesLead(p)
     THEN /\ gates' = Leave(gates, p)
          /\ Retain(p, parent[op[p].id], "idle")
          /\ UNCHANGED << lanes, turns >>
     ELSE Ends(p)
  /\ UNCHANGED << docVars, homeVars, orphaned, countVars >>

-----------------------------------------------------------------------------
(* What keeps a session, and passes over all of them. *)

(* A pin, a card or an agenda item is stored, and its publisher retains the
   session afterwards. *)
Pin(p) ==
  /\ \E r \in Requests :
       /\ r.kind = "pin" /\ r.id \in born \ kept
       /\ kept' = kept \cup {r.id}
       /\ Begins(p, r, "pinned")
  /\ UNCHANGED << parent, status, born, homeVars, lockVars, pass, orphaned, faults, crashes >>

RetainPinned(p) ==
  /\ At(p, "pinned")
  /\ Retain(p, op[p].id, "idle")
  /\ UNCHANGED << docVars, homeVars, lockVars, orphaned, countVars >>

Unpin(s) ==
  /\ s \in kept /\ \A p \in Proc : op[p].kind = "pin" => op[p].id # s
  /\ kept' = kept \ {s}
  /\ UNCHANGED << parent, status, born, homeVars, lockVars, op, pass, orphaned, countVars >>

(* rebuildIndex and reconcile (a sweep) and the fleet's backlog proof (a
   survey) run alone among the lanes; a sweep takes a turn as well. *)
AskExclusive(p) ==
  /\ \E r \in Requests : r.kind \in {"sweep", "survey"} /\ Begins(p, r, "all")
  /\ lanes' = Join(lanes, p, Session)
  /\ UNCHANGED << docVars, homeVars, gates, turns, pass, orphaned, faults, crashes >>

EnterAll(p) ==
  /\ At(p, "all") /\ First(lanes, p, Session)
  /\ IF op[p].kind = "sweep"
     THEN GoesTo(p, "sweep") /\ turns' = Append(turns, p)
     ELSE op' = [op EXCEPT ![p].at = "survey", ![p].chain = Live] /\ UNCHANGED turns
  /\ UNCHANGED << docVars, homeVars, gates, lanes, pass, orphaned, countVars >>

(* Mutant: a sweep walks the directories of archived sessions too. *)
SweepRows_All == born
SweepRows == Live

Sweep(p) ==
  /\ At(p, "sweep") /\ TurnOf(p)
  /\ index' = SweepRows
  /\ Ends(p)
  /\ UNCHANGED << docVars, file, archived, orphaned, countVars >>

(* The proof throws when a row has no directory in its survey. *)
SurveyThrows(p) == At(p, "survey") /\ ~(index \subseteq op[p].chain)

Survey(p) ==
  /\ At(p, "survey")
  /\ index' = IF SurveyThrows(p) THEN index ELSE index \cup op[p].chain
  /\ Ends(p)
  /\ UNCHANGED << docVars, file, archived, orphaned, countVars >>

-----------------------------------------------------------------------------
(* The archive pass. *)

ChildrenIn(s, roster) == {c \in roster \ {s} : parent[c] = s}

(* What a session's own documents, and what keeps it, say. *)
MayLeave(s, keeps) == status[s] = "ended" /\ s \notin keeps

(* s and the live sessions under it, down live children only. *)
Under(s) ==
  {m \in index : \A C \in SUBSET index :
     s \in C /\ (\A x \in C : ChildrenIn(x, index) \subseteq C) => m \in C}

(* Eligible, and every live child too. *)
Archivable(s) == \A m \in Under(s) : MayLeave(m, kept)

(* Children before their lead, cut off anywhere by the pass limit. *)
ChildrenFirst(ids) ==
  /\ \A i, j \in DOMAIN ids : i # j => ids[i] # ids[j]
  /\ \A j \in DOMAIN ids : \A c \in ChildrenIn(ids[j], index) : \E i \in 1 .. j - 1 : ids[i] = c

Members(ids) == {ids[i] : i \in DOMAIN ids}

(* sessions, kept and decideArchive: which to try. The pass reads all of it
   again before anything comes of it. *)
Decide ==
  /\ At(Archiver, "idle")
  /\ \E n \in 1 .. Cardinality(Session) : \E ids \in [1 .. n -> {s \in index : Archivable(s)}] :
       /\ ChildrenFirst(ids)
       /\ pass' = [NoPass EXCEPT !.ids = ids]
  /\ op' = [op EXCEPT ![Archiver] = [Idle EXCEPT !.kind = "pass", !.at = "root"]]
  /\ UNCHANGED << docVars, homeVars, lockVars, orphaned, countVars >>

RootsOf(ids) == [i \in DOMAIN ids |-> RootOf(ids[i])]

ReadRoots ==
  /\ At(Archiver, "root")
  /\ pass' = [pass EXCEPT !.roots = RootsOf(pass.ids)]
  /\ gates' = Join(gates, Archiver, Members(RootsOf(pass.ids)))
  /\ GoesTo(Archiver, "gate")
  /\ UNCHANGED << docVars, homeVars, lanes, turns, orphaned, countVars >>

EnterGates ==
  /\ At(Archiver, "gate")
  /\ First(gates, Archiver, Members(pass.roots))
  /\ LET same == RootsOf(pass.ids) = pass.roots
         moves == op[Archiver].moves
     IN  \/ /\ same
            /\ lanes' = Join(lanes, Archiver, Members(pass.ids))
            /\ GoesTo(Archiver, "lane")
            /\ UNCHANGED << gates, turns, pass >>
         \/ /\ ~same /\ moves < MaxMoves
            /\ op' = [op EXCEPT ![Archiver].at = "root", ![Archiver].moves = @ + 1]
            /\ gates' = Leave(gates, Archiver)
            /\ pass' = [pass EXCEPT !.roots = << >>]
            /\ UNCHANGED << lanes, turns >>
         \/ ~same /\ moves >= MaxMoves /\ Ends(Archiver)
  /\ UNCHANGED << docVars, homeVars, orphaned, countVars >>

(* From here on a retention shows. *)
EnterLanes ==
  /\ At(Archiver, "lane")
  /\ First(lanes, Archiver, Members(pass.ids))
  /\ pass' = [pass EXCEPT !.fresh = TRUE]
  /\ GoesTo(Archiver, "keeps")
  /\ UNCHANGED << docVars, homeVars, lockVars, orphaned, countVars >>

ReadKeeps ==
  /\ At(Archiver, "keeps")
  /\ pass' = [pass EXCEPT !.keeps = kept \cap Members(pass.ids)]
  /\ GoesTo(Archiver, "list")
  /\ UNCHANGED << docVars, homeVars, lockVars, orphaned, countVars >>

ListLive ==
  /\ At(Archiver, "list")
  /\ pass' = [pass EXCEPT !.listed = index]
  /\ GoesTo(Archiver, "verify")
  /\ UNCHANGED << docVars, homeVars, lockVars, orphaned, countVars >>

(* childrenStaying: a listed session names it as its lead and is not leaving. *)
StaysFor(s, leaving) == ChildrenIn(s, pass.listed) \ leaving # {}

(* Mutant: a session is taken as it was decided, not as it is. *)
StillMay_AsDecided(s) == s \notin pass.keeps
StillMay(s) == s \in index \ archived /\ MayLeave(s, pass.keeps)

(* The roster is read and each session verified, in the order they came. *)
Leaving(out) ==
  \A i \in DOMAIN pass.ids :
    pass.ids[i] \in out <=>
      StillMay(pass.ids[i]) /\ ~StaysFor(pass.ids[i], out \cap {pass.ids[j] : j \in 1 .. i - 1})

Verify ==
  /\ At(Archiver, "verify")
  /\ \E out \in SUBSET Members(pass.ids) :
       /\ Leaving(out)
       /\ IF out = {} THEN Ends(Archiver)
          ELSE /\ pass' = [pass EXCEPT !.leaving = out]
               /\ turns' = Append(turns, Archiver)
               /\ GoesTo(Archiver, "commit")
               /\ UNCHANGED << gates, lanes >>
  /\ UNCHANGED << docVars, homeVars, orphaned, countVars >>

Valid == pass.fresh

Commit ==
  /\ At(Archiver, "commit") /\ TurnOf(Archiver)
  /\ IF Valid
     THEN /\ file' = archived \cup pass.leaving
          /\ GoesTo(Archiver, "committed")
          /\ UNCHANGED << lockVars, pass >>
     ELSE Ends(Archiver) /\ UNCHANGED file
  /\ UNCHANGED << docVars, archived, index, orphaned, countVars >>

(* A retention meanwhile takes the write back; otherwise it is published, and
   lanes, gates and turn are let go. *)
PublishPass ==
  /\ At(Archiver, "committed")
  /\ IF Valid
     THEN /\ archived' = archived \cup pass.leaving
          /\ index' = index \ pass.leaving
          /\ orphaned' = (orphaned \ pass.leaving) \cup
               {c \in Live \ (pass.leaving \cup pass.listed) : parent[c] \in pass.leaving}
          /\ gates' = Leave(gates, Archiver) /\ lanes' = Leave(lanes, Archiver)
          /\ turns' = Tail(turns)
          /\ pass' = [NoPass EXCEPT !.left = pass.leaving]
          /\ op' = [op EXCEPT ![Archiver] = [Idle EXCEPT !.kind = "pass", !.at = "late"]]
          /\ UNCHANGED file
     ELSE /\ file' = archived
          /\ Ends(Archiver)
          /\ UNCHANGED << archived, index, orphaned >>
  /\ UNCHANGED << docVars, countVars >>

(* A write that throws may have renamed its file already; so may the one that
   puts the old registry back. *)
CommitFails ==
  /\ faults < MaxFaults /\ faults' = faults + 1
  /\ \/ /\ At(Archiver, "commit") /\ TurnOf(Archiver) /\ Valid
        /\ file' \in {file, archived \cup pass.leaving}
     \/ /\ At(Archiver, "committed") /\ ~Valid
        /\ file' \in {file, archived}
  /\ Ends(Archiver)
  /\ UNCHANGED << docVars, archived, index, orphaned, asks, crashes >>

(* The keep signals once more, of the sessions that left: those kept by now,
   and their leads among them, are retained one after the other. *)
Late ==
  /\ At(Archiver, "late")
  /\ LET late == {s \in pass.left : \E m \in kept \cap pass.left : s \in Ancestors(m)}
     IN  IF late = {} THEN Ends(Archiver)
         ELSE pass' = [pass EXCEPT !.left = late] /\ GoesTo(Archiver, "later") /\ UNCHANGED lockVars
  /\ UNCHANGED << docVars, homeVars, orphaned, countVars >>

RetainLate ==
  /\ At(Archiver, "later")
  /\ \E s \in pass.left :
       /\ op' = [op EXCEPT ![Archiver].at = "chain", ![Archiver].who = s,
                           ![Archiver].after = IF pass.left = {s} THEN "idle" ELSE "later"]
       /\ pass' = [pass EXCEPT !.left = @ \ {s}]
  /\ UNCHANGED << docVars, homeVars, lockVars, orphaned, countVars >>

-----------------------------------------------------------------------------
(* A session that ended grows old enough, which takes longer than any
   operation does. *)
Age(s) ==
  /\ Quiet /\ status[s] = "recent"
  /\ status' = [status EXCEPT ![s] = "ended"]
  /\ UNCHANGED << parent, born, kept, homeVars, lockVars, op, pass, orphaned, countVars >>

(* Mutant: the registry is not read when the home opens. *)
LoadArchive_Nothing == {}
LoadArchive == file

(* The daemon dies and starts: documents and registry file are what is left,
   loadArchive and reconcile make the rest. *)
Restart ==
  /\ crashes < MaxCrashes /\ crashes' = crashes + 1
  /\ archived' = LoadArchive /\ index' = born \ LoadArchive
  /\ gates' = [s \in Session |-> << >>] /\ lanes' = [s \in Session |-> << >>] /\ turns' = << >>
  /\ op' = [p \in Proc |-> Idle] /\ pass' = NoPass
  /\ UNCHANGED << docVars, file, orphaned, asks, faults >>

Ask(p) == AskState(p) \/ AskConfig(p) \/ AskChild(p) \/ Pin(p) \/ AskExclusive(p)

Step(p) ==
  \/ ReadChain(p) \/ RestoreRows(p) \/ WriteRegistry(p) \/ Publish(p)
  \/ ReadRoot(p) \/ EnterGate(p) \/ EnterLane(p) \/ WriteDoc(p) \/ SyncRow(p) \/ ProveParent(p)
  \/ RetainPinned(p) \/ EnterAll(p) \/ Sweep(p) \/ Survey(p)

PassStep ==
  \/ ReadRoots \/ EnterGates \/ EnterLanes \/ ReadKeeps \/ ListLive \/ Verify \/ Commit
  \/ PublishPass \/ Late \/ RetainLate

Next ==
  \/ \E p \in Writer : Ask(p)
  \/ \E p \in Proc : Step(p) \/ RegistryFails(p)
  \/ Decide \/ PassStep \/ CommitFails
  \/ \E s \in Session : Age(s) \/ Unpin(s)
  \/ Restart

Spec == Init /\ [][Next]_vars

-----------------------------------------------------------------------------
(* Every variable holds a value of its kind. *)
TypeOK ==
  /\ parent \in [Session -> Session \cup {NoSession}] /\ status \in [Session -> Statuses]
  /\ born \subseteq Session /\ kept \subseteq born
  /\ file \subseteq born /\ archived \subseteq born /\ index \subseteq born
  /\ gates \in [Session -> Seq(Proc)] /\ lanes \in [Session -> Seq(Proc)] /\ turns \in Seq(Proc)
  /\ DOMAIN op = Proc
  /\ orphaned \subseteq Session /\ asks \in 0 .. MaxAsks
  /\ faults \in 0 .. MaxFaults /\ crashes \in 0 .. MaxCrashes

(* No registry write has failed and no operation was cut off by a restart. *)
Unharmed == faults = 0 /\ crashes = 0

(* A session that runs is live, whatever archive pass was under way when it
   was resumed, and after a restart; not after a restart behind a failed
   registry write. *)
RunningIsLive ==
  faults = 0 \/ crashes = 0 => \A s \in born : status[s] = "running" => s \notin archived

(* What is pinned, on an open card or on an agenda is live as soon as whoever
   published it has retained it, and no archive pass takes it away again: a
   retention during a commit cancels the commit, one after it undoes it. *)
KeptIsLive ==
  Unharmed => \A s \in kept \cap archived :
                \E p \in Writer : op[p].kind = "pin" /\ op[p].id = s

(* A live session's lead is live once nothing is under way: new children and
   reparented ones hold theirs, although neither holds its gate or its lane.
   The one exception is a session the pass could not list, because it was
   archived itself and on its way back. *)
LeadStays == Quiet /\ Unharmed => \A s \in Live \ orphaned : parent[s] \notin archived

(* A session is in the live index or in the registry, never in both or in
   neither, once nothing is under way. *)
OneHome == Quiet /\ faults = 0 => index = Live

(* The registry file is what memory published, unless a turn is under way or
   a write of it failed: also what a cancelled commit wrote is taken back. *)
FileIsMemory ==
  faults = 0 /\ (\A p \in Proc : op[p].at \notin {"publish", "committed"}) => file = archived

(* No circle of operations waits for each other: gates, lanes and turns are
   taken in that order, and a retention takes a turn whatever its caller
   holds. *)
NobodyIsStuck == Quiet \/ ENABLED (PassStep \/ \E p \in Proc : Step(p))

=============================================================================
