---------------------------- MODULE SessionQueue ----------------------------
(***************************************************************************)
(* One session's durable message queue: what the fold of                   *)
(* channel/queue.jsonl says of every message (queue/model.ts), the three   *)
(* operations a sender has on it (queue/service.ts), and the pure decision *)
(* of what is delivered next (queue/policy.ts, queue/delivery.ts).         *)
(*                                                                         *)
(* The log itself is modelled by AppendLog; here a message's folded fields *)
(* are functions of its id, and appending an event is applying it.         *)
(* Who drives the queue, and when, is QueueDeliverer's.                    *)
(***************************************************************************)
EXTENDS Integers, FiniteSets

CONSTANTS
  Msg,           (* ids of the messages that may be sent to this session     *)
  NoMsg,         (* "not part of a combined delivery"                        *)
  SenderOf,      (* who each message is from: "human", "agent" or "daemon"   *)
  LabelOf,       (* an agent's label: "blocker", "action" or "fyi"           *)
  Interrupting,  (* the messages sent with --now                             *)
  ReplyExpected, (* the messages whose sender is parked on the answer        *)
  Coalesce,      (* delivery.coalesce: FALSE is the kill switch              *)
  ActionWindow,  (* delivery.actionWindowMs, in clock ticks                  *)
  FyiWindow,     (* delivery.fyiMaxHoldMs, in clock ticks                    *)
  BatchMax,      (* delivery.batchMax                                        *)
  Horizon,       (* the last tick of the modelled clock                      *)
  MaxRevision    (* how often one message's text may change, plus one        *)

NoTime == -1
Time == 0 .. Horizon

Senders == {"human", "agent", "daemon"}
Labels == {"blocker", "action", "fyi"}

ASSUME QueueConstants ==
  /\ IsFiniteSet(Msg) /\ NoMsg \notin Msg
  /\ SenderOf \in [Msg -> Senders]
  /\ LabelOf \in [Msg -> Labels]
  /\ Interrupting \subseteq Msg
  /\ ReplyExpected \subseteq Msg
  /\ Coalesce \in BOOLEAN
  /\ ActionWindow \in Nat \ {0}
  /\ FyiWindow \in Nat \ {0}
  /\ BatchMax \in Nat
  /\ Horizon \in Nat \ {0}
  /\ MaxRevision \in Nat \ {0}

VARIABLES
  state,        (* each message's state; "absent" before it is accepted          *)
  stateAt,      (* when it entered that state                                    *)
  deliveredAs,  (* the oldest member's id while it rides in a combined delivery  *)
  waitReason,   (* why a queued message waits, or "none"                         *)
  enqueuedAt,   (* when it was accepted                                          *)
  holdUntil,    (* when the queue stops holding it to combine it, or NoTime      *)
  position,     (* its place in acceptance order, 0 before it is accepted        *)
  revision,     (* the revision of its text                                      *)
  now           (* the wall clock, read by every operation                       *)

queueVars == << state, stateAt, deliveredAs, waitReason, enqueuedAt, holdUntil,
                position, revision >>

-----------------------------------------------------------------------------
(* model.ts: the states, and what one event may change.                      *)

MessageStates == {"absent", "queued", "typing", "delivered", "read",
                  "unconfirmed", "cancelled", "failed"}

WaitReasons == {"none", "launching", "question", "dialog", "draft",
                "unreadable", "stopped", "busy"}

(* Where a message may go next: the NEXT table. *)
NextStates ==
  [ absent      |-> {},
    queued      |-> {"typing", "cancelled", "failed"},
    typing      |-> {"queued", "delivered", "unconfirmed", "failed"},
    delivered   |-> {"read"},
    unconfirmed |-> {"delivered", "read"},
    read        |-> {},
    cancelled   |-> {},
    failed      |-> {} ]

CanMove(from, to) == to \in NextStates[from]

(* stateAt is read only of a message handed over, so it is kept only there. *)
HandedOver == {"typing", "delivered", "unconfirmed"}
Since(s) == IF s \in HandedOver THEN now ELSE 0

(* A `moved` event for every message of S. An event the fold finds illegal
   changes nothing; any move ends the wait the message had, and the batch id
   is set on the way into "typing" and dropped on the way back to "queued". *)
Move(S, to, batch) ==
  LET moved == {m \in S : CanMove(state[m], to)} IN
  /\ state' = [m \in Msg |-> IF m \in moved THEN to ELSE state[m]]
  /\ stateAt' = [m \in Msg |-> IF m \in moved THEN Since(to) ELSE stateAt[m]]
  /\ waitReason' = [m \in Msg |-> IF m \in moved THEN "none" ELSE waitReason[m]]
  /\ deliveredAs' = [m \in Msg |-> IF m \in moved /\ to = "typing" THEN batch
                                   ELSE IF m \in moved /\ to = "queued" THEN NoMsg
                                   ELSE deliveredAs[m]]
  /\ UNCHANGED << enqueuedAt, holdUntil, position, revision >>

(* A `waiting` event for every message of S: only a queued one takes it. *)
Wait(S, reason) ==
  /\ waitReason' = [m \in Msg |-> IF m \in S /\ state[m] = "queued" THEN reason
                                  ELSE waitReason[m]]
  /\ UNCHANGED << state, stateAt, deliveredAs, enqueuedAt, holdUntil, position,
                  revision >>

-----------------------------------------------------------------------------
(* service.ts: what a sender does. Each operation runs under the session's   *)
(* queue lock; QueueDeliverer says when that lock is free.                   *)

Accepted == {m \in Msg : state[m] # "absent"}

Earlier(a, b) == IF a <= b THEN a ELSE b

(* A question is a blocker whatever it was labelled. *)
StoredLabel(m) == IF m \in ReplyExpected THEN "blocker" ELSE LabelOf[m]

(* How long an accepted message is held to ride with others. Holds that would
   end after the modelled clock does end with it. *)
HoldUntil(m) ==
  IF \/ SenderOf[m] # "agent" \/ ~Coalesce
     \/ StoredLabel(m) = "blocker" \/ m \in Interrupting
  THEN NoTime
  ELSE Earlier(now + (IF StoredLabel(m) = "fyi" THEN FyiWindow ELSE ActionWindow),
               Horizon)

(* A retried request for an id already held changes nothing. *)
Enqueue(m) ==
  /\ state[m] = "absent"
  /\ state' = [state EXCEPT ![m] = "queued"]
  /\ enqueuedAt' = [enqueuedAt EXCEPT ![m] = now]
  /\ holdUntil' = [holdUntil EXCEPT ![m] = HoldUntil(m)]
  /\ position' = [position EXCEPT ![m] = Cardinality(Accepted) + 1]
  /\ revision' = [revision EXCEPT ![m] = 1]
  /\ UNCHANGED << stateAt, deliveredAs, waitReason >>

(* Mutant: an edit that does not ask whether the message still waits. *)
Edit_AnyState(m) ==
  /\ state[m] # "absent"
  /\ revision[m] < MaxRevision
  /\ revision' = [revision EXCEPT ![m] = @ + 1]
  /\ UNCHANGED << state, stateAt, deliveredAs, waitReason, enqueuedAt,
                  holdUntil, position >>

(* Only a message still waiting may be edited or taken back. *)
Edit(m) ==
  /\ state[m] = "queued"
  /\ revision[m] < MaxRevision
  /\ revision' = [revision EXCEPT ![m] = @ + 1]
  /\ UNCHANGED << state, stateAt, deliveredAs, waitReason, enqueuedAt,
                  holdUntil, position >>

Cancel(m) ==
  /\ state[m] = "queued"
  /\ Move({m}, "cancelled", NoMsg)

-----------------------------------------------------------------------------
(* policy.ts: who goes first, and whether anything goes yet. `target` is the *)
(* session as it is read just before: its mode, whether its status is one a  *)
(* message would have to revive it from, when it last ended a turn, and the  *)
(* messages that would answer the question it is parked on.                  *)

SenderRank(s) == CASE s = "human" -> 0 [] s = "agent" -> 1 [] s = "daemon" -> 2

BoardOnly(m, target) == SenderOf[m] = "daemon" /\ target.interactive

(* The messages that may be typed into this session. *)
Deliverable(target) == {m \in Msg : state[m] = "queued" /\ ~BoardOnly(m, target)}

(* Mutant: of one kind, the last to come goes first. *)
GoesBefore_LatestFirst(a, b) ==
  LET ra == SenderRank(SenderOf[a])
      rb == SenderRank(SenderOf[b])
  IN  \/ ra < rb
      \/ ra = rb /\ enqueuedAt[a] > enqueuedAt[b]
      \/ ra = rb /\ enqueuedAt[a] = enqueuedAt[b] /\ position[a] > position[b]

(* a is to go before b. *)
GoesBefore(a, b) ==
  LET ra == SenderRank(SenderOf[a])
      rb == SenderRank(SenderOf[b])
  IN  \/ ra < rb
      \/ ra = rb /\ enqueuedAt[a] < enqueuedAt[b]
      \/ ra = rb /\ enqueuedAt[a] = enqueuedAt[b] /\ position[a] < position[b]

FirstOf(S) == {m \in S : \A n \in S \ {m} : GoesBefore(m, n)}

(* The first k of S in delivery order. *)
Prefix(S, k) == {m \in S : Cardinality({n \in S : GoesBefore(n, m)}) < k}

EffectiveLabel(m, target) ==
  IF \/ ~Coalesce \/ StoredLabel(m) = "blocker" \/ m \in Interrupting
     \/ m \in ReplyExpected \/ m \in target.answeredBy
  THEN "blocker"
  ELSE StoredLabel(m)

TurnEndedSince(m, target) == target.turnEndedAt > enqueuedAt[m]

HoldOver(m) == holdUntil[m] = NoTime \/ now >= holdUntil[m]

IsDue(m, target) ==
  CASE EffectiveLabel(m, target) = "blocker" -> TRUE
    [] EffectiveLabel(m, target) = "action"  -> HoldOver(m)
    [] EffectiveLabel(m, target) = "fyi"     -> HoldOver(m) \/ TurnEndedSince(m, target)

From(target, sender) == {m \in Deliverable(target) : SenderOf[m] = sender}

AnyDue(target) == \E m \in From(target, "agent") : IsDue(m, target)

(* Only FYIs wait for a session a message would have to revive. *)
StoppedFyis(target) ==
  /\ target.stopped
  /\ \A m \in From(target, "agent") : EffectiveLabel(m, target) = "fyi"

(* The first batchMax ferret messages, or one with the kill switch off. *)
Flush(target) ==
  LET limit == IF ~Coalesce THEN 1 ELSE IF BatchMax < 1 THEN 1 ELSE BatchMax
  IN  Prefix(From(target, "agent"), limit)

(* Mutants of the plan: it forgets that one is in flight, or serves a due
   ferret before a person. *)
PlanMembers_IgnoresTyping(target) ==
  IF From(target, "human") # {} THEN FirstOf(From(target, "human"))
  ELSE IF AnyDue(target) /\ ~StoppedFyis(target) THEN Flush(target)
  ELSE FirstOf(From(target, "daemon"))

PlanMembers_DueFirst(target) ==
  IF \E m \in Msg : state[m] = "typing" THEN {}
  ELSE IF AnyDue(target) /\ ~StoppedFyis(target) THEN Flush(target)
  ELSE IF From(target, "human") # {} THEN FirstOf(From(target, "human"))
  ELSE FirstOf(From(target, "daemon"))

(* The members of the next delivery; {} when nothing goes. *)
PlanMembers(target) ==
  IF \E m \in Msg : state[m] = "typing" THEN {}
  ELSE IF From(target, "human") # {} THEN FirstOf(From(target, "human"))
  ELSE IF AnyDue(target) /\ ~StoppedFyis(target) THEN Flush(target)
  ELSE FirstOf(From(target, "daemon"))

(* Nothing goes, and something other than time is in the way. *)
HoldReason(target) ==
  IF AnyDue(target) /\ StoppedFyis(target) THEN "stopped" ELSE "none"

-----------------------------------------------------------------------------
(* delivery.ts: where the send ledger's fate brings a message handed over.   *)

Fates == {"none", "accepted", "queued", "delivered", "unaccounted",
          "timed_out", "withdrawn", "cancelled"}

(* Mutants: an open row sends its message back to the queue, one nobody can
   account for fails it, the ledger's own word becomes the message's state. *)
MovesFrom_GivesUp(s, fate) ==
  CASE s = "typing" /\ fate \in {"none", "withdrawn", "accepted"} -> "queued"
    [] s = "typing" /\ fate = "queued"                            -> "delivered"
    [] s = "typing" /\ fate = "delivered"                         -> "read"
    [] s = "typing" /\ fate \in {"timed_out", "cancelled"}        -> "failed"
    [] s = "typing" /\ fate = "unaccounted"                       -> "unconfirmed"
    [] s \in {"unconfirmed", "delivered"} /\ fate = "delivered"   -> "read"
    [] OTHER                                                      -> s

MovesFrom_NoDoubt(s, fate) ==
  CASE s = "typing" /\ fate \in {"none", "withdrawn"}                       -> "queued"
    [] s = "typing" /\ fate = "queued"                                      -> "delivered"
    [] s = "typing" /\ fate = "delivered"                                   -> "read"
    [] s = "typing" /\ fate \in {"timed_out", "cancelled", "unaccounted"}   -> "failed"
    [] s = "delivered" /\ fate = "delivered"                                -> "read"
    [] OTHER                                                                -> s

(* The state a message is brought to; both moves of typing -> delivered -> read
   are one step here, and a crash between them leaves what a landed hand-over
   leaves. *)
MovesFrom(s, fate) ==
  CASE s = "typing" /\ fate \in {"none", "withdrawn"}      -> "queued"
    [] s = "typing" /\ fate = "queued"                     -> "delivered"
    [] s = "typing" /\ fate = "delivered"                  -> "read"
    [] s = "typing" /\ fate \in {"timed_out", "cancelled"} -> "failed"
    [] s = "typing" /\ fate = "unaccounted"                -> "unconfirmed"
    [] s = "unconfirmed" /\ fate = "delivered"             -> "read"
    [] s = "unconfirmed" /\ fate = "queued"                -> "delivered"
    [] s = "delivered" /\ fate = "delivered"               -> "read"
    [] OTHER                                               -> s

(* Mutant: every message is looked up under its own id. *)
SendIdOf_Own(m) == m

(* The ledger record a message is proven by: the delivery's, when combined. *)
SendIdOf(m) == IF deliveredAs[m] = NoMsg THEN m ELSE deliveredAs[m]

(* The pane, as waitReasonOf reads it: "box" is what the session shows. *)
WaitReasonOf(box, target) ==
  CASE box \in {"launching", "question"}       -> box
    [] target.stopped                          -> "none"
    [] box = "dialog"                          -> "dialog"
    [] box = "parked"                          -> "launching"
    [] box \in {"draft", "own"}                -> "draft"
    [] OTHER                                   -> "none"

-----------------------------------------------------------------------------
QueueTypeOK ==
  /\ state \in [Msg -> MessageStates]
  /\ stateAt \in [Msg -> Time]
  /\ deliveredAs \in [Msg -> Msg \cup {NoMsg}]
  /\ waitReason \in [Msg -> WaitReasons]
  /\ enqueuedAt \in [Msg -> Time]
  /\ holdUntil \in [Msg -> Time \cup {NoTime}]
  /\ position \in [Msg -> Nat]
  /\ revision \in [Msg -> Nat]
  /\ now \in Time

QueueInit ==
  /\ state = [m \in Msg |-> "absent"]
  /\ stateAt = [m \in Msg |-> 0]
  /\ deliveredAs = [m \in Msg |-> NoMsg]
  /\ waitReason = [m \in Msg |-> "none"]
  /\ enqueuedAt = [m \in Msg |-> 0]
  /\ holdUntil = [m \in Msg |-> NoTime]
  /\ position = [m \in Msg |-> 0]
  /\ revision = [m \in Msg |-> 0]
  /\ now = 0
=============================================================================
