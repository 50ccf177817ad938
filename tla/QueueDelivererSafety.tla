------------------------ MODULE QueueDelivererSafety ------------------------
(***************************************************************************)
(* The types of the queue and its deliverer and the safety of delivery,    *)
(* for every value of the constants: an inductive invariant that ties each *)
(* message's folded state to the send ledger's rows, to what was typed,    *)
(* and to what the running look holds in memory.                           *)
(*                                                                         *)
(* Types hold throughout; the rest holds as long as the send ledger lacks  *)
(* no row that was answered (NoRowLost): the queue's lines are flushed and *)
(* never run into a torn one, the ledger's are not and may, and a message  *)
(* whose row is lost to a host crash or a torn line may be typed a second  *)
(* time.                                                                   *)
(***************************************************************************)
EXTENDS QueueDelivererProps, FiniteSetTheorems, TLAPS

-----------------------------------------------------------------------------
(* Facts about the operators the model is built from.                        *)

(* Waiting and combining choose among the messages given. *)
LEMMA FirstOfSubset ==
  ASSUME NEW S PROVE FirstOf(S) \subseteq S
BY DEF FirstOf

(* The clock only reads instants of the modelled time. *)
LEMMA TimeFacts ==
  /\ 0 \in Time /\ Horizon \in Time /\ NoTime \notin Time
  /\ \A t \in Time : t < Horizon => t + 1 \in Time
  /\ \A t \in Time : t > 0 => t - 1 \in Time
  /\ \A t \in Time, k \in Nat : Min2(t + k, Horizon) \in Time
BY QueueConstants DEF Time, NoTime, Min2

(* A hold ends at an instant of the modelled time, or there is none. *)
LEMMA HoldUntilType ==
  ASSUME NEW m \in Msg, now \in Time
  PROVE  HoldUntil(m) \in Time \cup {NoTime}
<1>1. \A k \in Nat : Earlier(now + k, Horizon) \in Time
  BY QueueConstants DEF Time, Earlier
<1> QED
  BY <1>1, QueueConstants DEF HoldUntil

(* movesFrom answers a message state whatever the ledger says. *)
LEMMA MovesFromType ==
  ASSUME NEW s \in MessageStates, NEW fate_ \in Fates
  PROVE  MovesFrom(s, fate_) \in MessageStates
BY DEF MovesFrom, MessageStates, Fates

(* The pane and the plan give reasons of the wire's list. *)
LEMMA ReasonTypes ==
  ASSUME NEW t
  PROVE  /\ \A b \in BoxStates : WaitReasonOf(b, t) \in WaitReasons
         /\ WaitReasonOf("free", t) \in WaitReasons
         /\ HoldReason(t) \in WaitReasons
BY DelivererConstants DEF WaitReasonOf, WaitReasons, HoldReason

LEMMA SinceType ==
  ASSUME NEW s, now \in Time PROVE Since(s) \in Time
BY TimeFacts DEF Since

-----------------------------------------------------------------------------
(* What the queue's own operations keep.                                     *)

(* Whatever state a `moved` event names, the fold follows only a legal move. *)
LEMMA MoveType ==
  ASSUME QueueTypeOK, now' = now, NEW S, NEW to,
         NEW batch \in Msg \cup {NoMsg}, Move(S, to, batch)
  PROVE  QueueTypeOK'
<1>1. Since(to) \in Time
  BY SinceType DEF QueueTypeOK
<1>2. "none" \in WaitReasons
  BY DEF WaitReasons
<1>3. \A s \in MessageStates : CanMove(s, to) => to \in MessageStates
  BY DEF CanMove, NextStates, MessageStates
<1> QED
  BY <1>1, <1>2, <1>3 DEF Move, QueueTypeOK

LEMMA WaitType ==
  ASSUME QueueTypeOK, now' = now, NEW S, NEW reason \in WaitReasons, Wait(S, reason)
  PROVE  QueueTypeOK'
BY DEF Wait, QueueTypeOK

LEMMA EnqueueType ==
  ASSUME QueueTypeOK, now' = now, NEW m \in Msg, Enqueue(m)
  PROVE  QueueTypeOK'
<1>1. HoldUntil(m) \in Time \cup {NoTime}
  BY HoldUntilType DEF QueueTypeOK
<1>2. Cardinality(Accepted) \in Nat
  <2>1. Accepted \subseteq Msg BY DEF Accepted
  <2> QED BY <2>1, QueueConstants, FS_Subset, FS_CardinalityType
<1>3. "queued" \in MessageStates
  BY DEF MessageStates
<1> QED
  BY <1>1, <1>2, <1>3 DEF Enqueue, QueueTypeOK

LEMMA QueueUnchanged ==
  ASSUME QueueTypeOK, UNCHANGED queueVars, now' \in Time
  PROVE  QueueTypeOK'
BY DEF QueueTypeOK, queueVars

-----------------------------------------------------------------------------
LEMMA TypeInit == Init => TypeOK
<1> SUFFICES ASSUME Init PROVE TypeOK
  OBVIOUS
<1>1. QueueTypeOK
  BY TimeFacts DEF Init, QueueInit, QueueTypeOK, MessageStates, WaitReasons
<1>2. LedgerTypeOK /\ GhostTypeOK
  BY DEF Init, LedgerTypeOK, GhostTypeOK, Fates, Nothing
<1>3. PaneTypeOK /\ WakeTypeOK
  BY TimeFacts, DelivererConstants DEF Init, PaneTypeOK, WakeTypeOK, Prompted, WaitReasons
<1>4. LookTypeOK
  BY DEF Init, LookTypeOK, Nothing, Unread, Fates, WaitReasons
<1> QED
  BY <1>1, <1>2, <1>3, <1>4 DEF TypeOK

LEMMA SenderTypes ==
  ASSUME TypeOK, NEW m \in Msg, Request(m) \/ EditText(m) \/ TakeBack(m)
  PROVE  TypeOK'
<1> USE DEF ledgerVars, paneVars, wakeVars, lookVars, ghostVars, boundVars
<1>1. QueueTypeOK
  BY DEF TypeOK
<1>2. CASE Request(m)
  <2>1. QueueTypeOK'
    BY <1>1, <1>2, EnqueueType DEF Request
  <2> QED
    BY <1>2, <2>1 DEF Request, TypeOK, LedgerTypeOK, PaneTypeOK, WakeTypeOK,
       LookTypeOK, GhostTypeOK
<1>3. CASE EditText(m)
  <2>1. QueueTypeOK'
    BY <1>1, <1>3 DEF EditText, Edit, QueueTypeOK
  <2> QED
    BY <1>3, <2>1 DEF EditText, TypeOK, LedgerTypeOK, PaneTypeOK, WakeTypeOK,
       LookTypeOK, GhostTypeOK
<1>4. CASE TakeBack(m)
  <2>1. QueueTypeOK'
    BY <1>1, <1>4, MoveType DEF TakeBack, Cancel
  <2> QED
    BY <1>4, <2>1 DEF TakeBack, TypeOK, LedgerTypeOK, PaneTypeOK, WakeTypeOK,
       LookTypeOK, GhostTypeOK
<1> QED
  BY <1>2, <1>3, <1>4

LEMMA WakeTypes ==
  ASSUME TypeOK, WakeStep PROVE TypeOK'
<1> USE DEF ledgerVars, paneVars, lookVars, ghostVars, boundVars
<1>1. QueueTypeOK /\ now' \in Time /\ UNCHANGED queueVars
  BY DEF TypeOK, WakeStep, Enqueued, Changed, TimerFires, QueueTypeOK
<1>2. QueueTypeOK'
  BY <1>1, QueueUnchanged
<1>3. WakeTypeOK'
  BY DEF TypeOK, WakeStep, Enqueued, Changed, TimerFires, WakeTypeOK
<1>4. UNCHANGED << ledgerVars, paneVars, lookVars, ghostVars, boundVars >>
  BY DEF WakeStep, Enqueued, Changed, TimerFires
<1>5. LedgerTypeOK' /\ PaneTypeOK' /\ LookTypeOK' /\ GhostTypeOK'
  BY <1>4 DEF TypeOK, LedgerTypeOK, PaneTypeOK, LookTypeOK, GhostTypeOK
<1> QED
  BY <1>2, <1>3, <1>5 DEF TypeOK

-----------------------------------------------------------------------------
(* The steps of a look. *)

LEMMA SettleTypes ==
  ASSUME TypeOK, Begin \/ ReadFate \/ (\E m \in Msg : SettleOne(m)) \/ SettleDone
  PROVE  TypeOK'
<1>0. QueueTypeOK /\ LedgerTypeOK /\ PaneTypeOK /\ WakeTypeOK /\ LookTypeOK /\ GhostTypeOK
  BY DEF TypeOK
<1>1. CASE Begin
  <2>1. QueueTypeOK' /\ LedgerTypeOK' /\ PaneTypeOK' /\ GhostTypeOK'
    BY <1>0, <1>1 DEF Begin, QueueTypeOK, LedgerTypeOK, PaneTypeOK, GhostTypeOK,
       queueVars, ledgerVars, paneVars, ghostVars, boundVars
  <2>2. WakeTypeOK'
    BY <1>0, <1>1 DEF Begin, WakeTypeOK
  <2>3. LookTypeOK'
    BY <1>0, <1>1 DEF Begin, LookTypeOK
  <2> QED
    BY <2>1, <2>2, <2>3 DEF TypeOK
<1>2. CASE ReadFate
  <2>1. QueueTypeOK' /\ LedgerTypeOK' /\ PaneTypeOK' /\ GhostTypeOK' /\ WakeTypeOK'
    BY <1>0, <1>2 DEF ReadFate, QueueTypeOK, LedgerTypeOK, PaneTypeOK, GhostTypeOK,
       WakeTypeOK, queueVars, ledgerVars, paneVars, ghostVars, boundVars, wakeVars
  <2>2. PICK m \in Oldest(todo) : seen' = [of |-> m, fate |-> fate[SendIdOf(m)]]
    BY <1>2 DEF ReadFate
  <2>3. m \in Msg
    BY <1>0, <2>2 DEF Oldest, LookTypeOK
  <2>4. SendIdOf(m) \in Msg
    BY <1>0, <2>3 DEF SendIdOf, QueueTypeOK
  <2>5. LookTypeOK'
    BY <1>0, <1>2, <2>2, <2>3, <2>4 DEF ReadFate, LookTypeOK, LedgerTypeOK
  <2> QED
    BY <2>1, <2>5 DEF TypeOK
<1>3. ASSUME NEW m \in Msg, SettleOne(m) PROVE TypeOK'
  <2>1. LedgerTypeOK' /\ PaneTypeOK' /\ GhostTypeOK' /\ WakeTypeOK'
    BY <1>0, <1>3 DEF SettleOne, LedgerTypeOK, PaneTypeOK, GhostTypeOK,
       WakeTypeOK, ledgerVars, paneVars, ghostVars, boundVars, wakeVars
  <2>2. MovesFrom(state[m], seen.fate) \in MessageStates
    BY <1>0, MovesFromType DEF QueueTypeOK, LookTypeOK
  <2>3. Since(MovesFrom(state[m], seen.fate)) \in Time
    BY <1>0, SinceType DEF QueueTypeOK
  <2>4. QueueTypeOK'
    BY <1>0, <1>3, <2>2, <2>3 DEF SettleOne, QueueTypeOK, paneVars
  <2>5. LookTypeOK'
    BY <1>0, <1>3 DEF SettleOne, LookTypeOK, Unread, Fates
  <2> QED
    BY <2>1, <2>4, <2>5 DEF TypeOK
<1>4. CASE SettleDone
  <2>1. QueueTypeOK' /\ LedgerTypeOK' /\ PaneTypeOK' /\ GhostTypeOK'
    BY <1>0, <1>4 DEF SettleDone, QueueTypeOK, LedgerTypeOK, PaneTypeOK, GhostTypeOK,
       queueVars, ledgerVars, paneVars, ghostVars, boundVars
  <2>2. WakeTypeOK'
    BY <1>0, <1>4 DEF SettleDone, WakeTypeOK, wakeVars
  <2>3. LookTypeOK'
    BY <1>0, <1>4 DEF SettleDone, LookTypeOK
  <2> QED
    BY <2>1, <2>2, <2>3 DEF TypeOK
<1> QED
  BY <1>1, <1>2, <1>3, <1>4

(* Holding keeps the types of what it writes. *)
LEMMA HoldBackType ==
  ASSUME QueueTypeOK, LookTypeOK, now' = now, NEW S, NEW reason \in WaitReasons,
         HoldBack(S, reason)
  PROVE  QueueTypeOK' /\ LookTypeOK'
<1>1. QueueTypeOK'
  BY WaitType DEF HoldBack
<1>2. LookTypeOK'
  BY DEF HoldBack, LookTypeOK, Nothing
<1> QED
  BY <1>1, <1>2

LEMMA CommitType ==
  ASSUME QueueTypeOK, LookTypeOK, WakeTypeOK, now' = now, UNCHANGED << wakeVars, tracked >>,
         NEW t \in [Msg -> Nat], NEW reason \in WaitReasons, Commit(t, reason)
  PROVE  QueueTypeOK' /\ LookTypeOK' /\ WakeTypeOK'
<1>1. PICK prompt \in BOOLEAN :
        LET why == IF reason = "none" /\ AwaitingPrompt(prompt) THEN promptless.why
                   ELSE reason
        IN /\ promptless' = IF reason = "none" /\ ~AwaitingPrompt(prompt) THEN Prompted
                            ELSE promptless
           /\ IF why # "none" THEN HoldBack(Deliverable(target), why)
              ELSE /\ Wait(Deliverable(target), "none")
                   /\ pc' = "mark" /\ todo' = MembersOf(t) /\ text' = t
                   /\ \E first \in FirstOf(MembersOf(t)) : sendId' = first
                   /\ UNCHANGED << seen, stalled, handed, more, outcome, refusedFor >>
  BY DEF Commit
<1> DEFINE why == IF reason = "none" /\ AwaitingPrompt(prompt) THEN promptless.why
                  ELSE reason
<1>2. why \in WaitReasons
  BY DEF WakeTypeOK
<1>3. WakeTypeOK'
  BY <1>1 DEF WakeTypeOK, wakeVars, Prompted, WaitReasons
<1>4. CASE why # "none"
  <2>1. HoldBack(Deliverable(target), why)
    BY <1>1, <1>4
  <2> QED
    BY <1>2, <1>3, <2>1, HoldBackType
<1>5. CASE why = "none"
  <2>1. Wait(Deliverable(target), "none") /\ "none" \in WaitReasons
    BY <1>1, <1>5 DEF WaitReasons
  <2>2. QueueTypeOK'
    BY <2>1, WaitType
  <2>3. FirstOf(MembersOf(t)) \subseteq Msg /\ MembersOf(t) \subseteq Msg
    BY FirstOfSubset DEF MembersOf
  <2>4. LookTypeOK'
    BY <1>1, <1>5, <2>3 DEF LookTypeOK
  <2> QED
    BY <1>3, <2>2, <2>4
<1> QED
  BY <1>4, <1>5

LEMMA PlanTypes ==
  ASSUME TypeOK, Plan PROVE TypeOK'
<1>0. QueueTypeOK /\ LedgerTypeOK /\ PaneTypeOK /\ WakeTypeOK /\ LookTypeOK /\ GhostTypeOK
  BY DEF TypeOK
<1>1. LedgerTypeOK' /\ PaneTypeOK' /\ GhostTypeOK' /\ now' = now
  BY <1>0 DEF Plan, LedgerTypeOK, PaneTypeOK, GhostTypeOK, ledgerVars, paneVars,
     ghostVars, boundVars
<1> DEFINE S == PlanMembers(target)
           t == [m \in Msg |-> IF m \in S THEN revision[m] ELSE 0]
           why == WaitReasonOf(box, target)
<1>2. t \in [Msg -> Nat] /\ why \in WaitReasons /\ HoldReason(target) \in WaitReasons
      /\ "unreadable" \in WaitReasons /\ "none" \in WaitReasons
  BY <1>0, ReasonTypes DEF QueueTypeOK, PaneTypeOK, WaitReasons
<1>3. CASE /\ \E R, reason : reason \in WaitReasons /\ HoldBack(R, reason)
           /\ UNCHANGED promptless
  <2>1. QueueTypeOK' /\ LookTypeOK'
    BY <1>0, <1>1, <1>3, HoldBackType
  <2>2. WakeTypeOK'
    BY <1>0, <1>3 DEF Plan, WakeTypeOK, wakeVars
  <2> QED
    BY <1>1, <2>1, <2>2 DEF TypeOK
<1>4. CASE /\ pc' = "draft" /\ text' = t
           /\ UNCHANGED << queueVars, todo, seen, stalled, sendId, handed, more, outcome,
                           refusedFor, promptless >>
  <2>1. QueueTypeOK' /\ LookTypeOK'
    BY <1>0, <1>1, <1>2, <1>4 DEF QueueTypeOK, LookTypeOK, queueVars
  <2>2. WakeTypeOK'
    BY <1>0, <1>4 DEF Plan, WakeTypeOK, wakeVars
  <2> QED
    BY <1>1, <2>1, <2>2 DEF TypeOK
<1>5. CASE Commit(t, why)
  <2>1. UNCHANGED << wakeVars, tracked >>
    BY DEF Plan
  <2> QED
    BY <1>0, <1>1, <1>2, <1>5, <2>1, CommitType DEF TypeOK
<1> QED
  BY <1>2, <1>3, <1>4, <1>5 DEF Plan

LEMMA DraftTypes ==
  ASSUME TypeOK, ClearDraft PROVE TypeOK'
<1>0. QueueTypeOK /\ LedgerTypeOK /\ PaneTypeOK /\ WakeTypeOK /\ LookTypeOK /\ GhostTypeOK
  BY DEF TypeOK
<1>1. LedgerTypeOK' /\ PaneTypeOK' /\ GhostTypeOK' /\ now' = now
  BY <1>0, DelivererConstants DEF ClearDraft, LedgerTypeOK, PaneTypeOK, GhostTypeOK,
     ledgerVars, ghostVars, boundVars
<1>2. CASE /\ \E R, reason : reason \in WaitReasons /\ HoldBack(R, reason)
           /\ UNCHANGED promptless
  <2>1. QueueTypeOK' /\ LookTypeOK'
    BY <1>0, <1>1, <1>2, HoldBackType
  <2>2. WakeTypeOK'
    BY <1>0, <1>2 DEF ClearDraft, WakeTypeOK, wakeVars
  <2> QED
    BY <1>1, <2>1, <2>2 DEF TypeOK
<1>3. CASE Commit(text, WaitReasonOf("free", target))
  <2>1. UNCHANGED << wakeVars, tracked >> /\ text \in [Msg -> Nat]
        /\ WaitReasonOf("free", target) \in WaitReasons
    BY <1>0, ReasonTypes DEF ClearDraft, LookTypeOK
  <2> QED
    BY <1>0, <1>1, <1>3, <2>1, CommitType DEF TypeOK
<1>4. "unreadable" \in WaitReasons /\ "draft" \in WaitReasons
  BY DEF WaitReasons
<1> QED
  BY <1>2, <1>3, <1>4 DEF ClearDraft

LEMMA MarkTypes ==
  ASSUME TypeOK, MarkTyping PROVE TypeOK'
<1>1. LedgerTypeOK' /\ PaneTypeOK' /\ GhostTypeOK' /\ WakeTypeOK' /\ now' = now
  BY DEF MarkTyping, TypeOK, LedgerTypeOK, PaneTypeOK, GhostTypeOK, WakeTypeOK,
     ledgerVars, paneVars, ghostVars, boundVars, wakeVars
<1>2. PICK m \in FirstOf(todo) :
        /\ Move({m}, "typing", IF Members = {sendId} THEN NoMsg ELSE sendId)
        /\ todo' = todo \ {m}
        /\ pc' = IF todo = {m} THEN "hand" ELSE "mark"
  BY DEF MarkTyping
<1>3. QueueTypeOK'
  <2>1. (IF Members = {sendId} THEN NoMsg ELSE sendId) \in Msg \cup {NoMsg}
    BY DEF TypeOK, LookTypeOK
  <2> QED
    BY <1>1, <1>2, <2>1, MoveType DEF TypeOK
<1>4. LookTypeOK'
  BY <1>2 DEF MarkTyping, TypeOK, LookTypeOK
<1> QED
  BY <1>1, <1>3, <1>4 DEF TypeOK

(* What the send path answers is written down with its types. *)
LEMMA AnsweredType ==
  ASSUME LookTypeOK, NEW what \in {"landed", "unproven", "refused", "failed"},
         NEW why \in WaitReasons, Answered(what, why)
  PROVE  LookTypeOK'
BY DEF Answered, LookTypeOK, Members, MembersOf

LEMMA RefusedType ==
  ASSUME LookTypeOK, now \in Time, Refused
  PROVE  LookTypeOK' /\ promptless' \in [at : Time \cup {NoTime}, why : WaitReasons]
<1>1. Refusals \subseteq WaitReasons /\ NotReady \subseteq WaitReasons
      /\ "none" \in WaitReasons
  BY DelivererConstants DEF WaitReasons
<1>2. CASE \E why \in Refusals : Answered("refused", why) /\ promptless' = Prompted
  BY <1>1, <1>2, AnsweredType DEF Prompted
<1>3. CASE \E why \in NotReady : /\ Answered("refused", why)
                                /\ promptless' = [at |-> now, why |-> why]
  BY <1>1, <1>3, AnsweredType
<1> QED
  BY <1>2, <1>3 DEF Refused

LEMMA TypedType ==
  ASSUME copies \in [Msg -> Nat], typedRev \in [Msg -> Nat],
         NEW t \in [Msg -> Nat], Typed(t)
  PROVE  copies' \in [Msg -> Nat] /\ typedRev' \in [Msg -> Nat]
BY DEF Typed

LEMMA HandTypes ==
  ASSUME TypeOK, HandRefused \/ HandFailed \/ HandAccept PROVE TypeOK'
<1>0. QueueTypeOK /\ LedgerTypeOK /\ PaneTypeOK /\ WakeTypeOK /\ LookTypeOK /\ GhostTypeOK
      /\ now \in Time /\ "none" \in WaitReasons
  BY DEF TypeOK, QueueTypeOK, WaitReasons
<1> USE DEF queueVars, ledgerVars, paneVars, wakeVars, ghostVars, boundVars
<1>1. CASE HandRefused
  <2>1. QueueTypeOK' /\ LedgerTypeOK' /\ PaneTypeOK' /\ GhostTypeOK'
    BY <1>0, <1>1 DEF HandRefused, QueueTypeOK, LedgerTypeOK, PaneTypeOK, GhostTypeOK
  <2>2. LookTypeOK' /\ promptless' \in [at : Time \cup {NoTime}, why : WaitReasons]
    BY <1>0, <1>1, RefusedType DEF HandRefused
  <2>3. WakeTypeOK'
    BY <1>0, <1>1, <2>2 DEF HandRefused, WakeTypeOK
  <2> QED
    BY <2>1, <2>2, <2>3 DEF TypeOK
<1>2. CASE HandFailed
  <2>1. QueueTypeOK' /\ LedgerTypeOK' /\ PaneTypeOK' /\ GhostTypeOK'
    BY <1>0, <1>2 DEF HandFailed, QueueTypeOK, LedgerTypeOK, PaneTypeOK, GhostTypeOK
  <2>2. LookTypeOK'
    BY <1>0, <1>2, AnsweredType DEF HandFailed
  <2>3. WakeTypeOK'
    BY <1>0, <1>2 DEF HandFailed, WakeTypeOK, Prompted
  <2> QED
    BY <2>1, <2>2, <2>3 DEF TypeOK
<1>3. CASE HandAccept
  <2>1. QueueTypeOK' /\ GhostTypeOK' /\ now' = now
    BY <1>0, <1>3 DEF HandAccept, QueueTypeOK, GhostTypeOK
  <2>2. WakeTypeOK'
    BY <1>0, <1>3 DEF HandAccept, WakeTypeOK, Prompted
  <2>3. CASE Live(sendId)
    <3>1. LedgerTypeOK' /\ PaneTypeOK'
      BY <1>0, <1>3, <2>3 DEF HandAccept, LedgerTypeOK, PaneTypeOK
    <3>2. LookTypeOK'
      BY <1>0, <1>3, <2>3, AnsweredType DEF HandAccept
    <3> QED
      BY <2>1, <2>2, <3>1, <3>2 DEF TypeOK
  <2>4. CASE ~Live(sendId)
    <3>1. LedgerTypeOK'
      BY <1>0, <1>3, <2>4 DEF HandAccept, LedgerTypeOK, LookTypeOK, Fates
    <3>2. PaneTypeOK'
      BY <1>0, <1>3, <2>4 DEF HandAccept, PaneTypeOK
    <3>3. LookTypeOK'
      BY <1>0, <1>3, <2>4 DEF HandAccept, Goto, LookTypeOK
    <3> QED
      BY <2>1, <2>2, <3>1, <3>2, <3>3 DEF TypeOK
  <2> QED
    BY <2>3, <2>4
<1> QED
  BY <1>1, <1>2, <1>3

LEMMA KeyTypes ==
  ASSUME TypeOK, KeysGo \/ KeysThrow \/ PaneRefuses \/ KeptUntyped PROVE TypeOK'
<1>0. QueueTypeOK /\ LedgerTypeOK /\ PaneTypeOK /\ WakeTypeOK /\ LookTypeOK /\ GhostTypeOK
      /\ now \in Time /\ "none" \in WaitReasons
  BY DEF TypeOK, QueueTypeOK, WaitReasons
<1> USE DEF queueVars, ledgerVars, paneVars, wakeVars, ghostVars, boundVars
<1>1. CASE KeysGo
  <2>1. QueueTypeOK' /\ PaneTypeOK'
    BY <1>0, <1>1 DEF KeysGo, QueueTypeOK, PaneTypeOK
  <2>2. WakeTypeOK'
    BY <1>0, <1>1 DEF KeysGo, WakeTypeOK, Prompted
  <2>3. GhostTypeOK'
    BY <1>0, <1>1, TypedType DEF KeysGo, GhostTypeOK, LookTypeOK
  <2>4. LookTypeOK'
    BY <1>0, <1>1, AnsweredType DEF KeysGo
  <2>5. \E f \in Fates : fate' = [fate EXCEPT ![sendId] = f]
    BY <1>1 DEF KeysGo, Fates
  <2>6. LedgerTypeOK'
    BY <1>0, <1>1, <2>5 DEF KeysGo, LedgerTypeOK
  <2> QED
    BY <2>1, <2>2, <2>3, <2>4, <2>6 DEF TypeOK
<1>2. CASE KeysThrow
  <2>1. QueueTypeOK' /\ PaneTypeOK' /\ LedgerTypeOK'
    BY <1>0, <1>2 DEF KeysThrow, QueueTypeOK, PaneTypeOK, LedgerTypeOK
  <2>2. WakeTypeOK'
    BY <1>0, <1>2 DEF KeysThrow, WakeTypeOK, Prompted
  <2>3. GhostTypeOK'
    BY <1>0, <1>2, TypedType DEF KeysThrow, GhostTypeOK, LookTypeOK
  <2>4. LookTypeOK'
    BY <1>0, <1>2, AnsweredType DEF KeysThrow
  <2> QED
    BY <2>1, <2>2, <2>3, <2>4 DEF TypeOK
<1>3. CASE PaneRefuses
  <2>1. QueueTypeOK' /\ PaneTypeOK' /\ GhostTypeOK'
    BY <1>0, <1>3 DEF PaneRefuses, QueueTypeOK, PaneTypeOK, GhostTypeOK
  <2>2. LedgerTypeOK'
    BY <1>0, <1>3 DEF PaneRefuses, LedgerTypeOK, Fates
  <2>3. LookTypeOK' /\ promptless' \in [at : Time \cup {NoTime}, why : WaitReasons]
    BY <1>0, <1>3, RefusedType DEF PaneRefuses
  <2>4. WakeTypeOK'
    BY <1>0, <1>3, <2>3 DEF PaneRefuses, WakeTypeOK
  <2> QED
    BY <2>1, <2>2, <2>3, <2>4 DEF TypeOK
<1>4. CASE KeptUntyped
  <2>1. QueueTypeOK' /\ PaneTypeOK' /\ LedgerTypeOK' /\ GhostTypeOK'
    BY <1>0, <1>4 DEF KeptUntyped, QueueTypeOK, PaneTypeOK, LedgerTypeOK, GhostTypeOK
  <2>2. WakeTypeOK'
    BY <1>0, <1>4 DEF KeptUntyped, WakeTypeOK, Prompted
  <2>3. LookTypeOK'
    BY <1>0, <1>4, AnsweredType DEF KeptUntyped
  <2> QED
    BY <2>1, <2>2, <2>3 DEF TypeOK
<1> QED
  BY <1>1, <1>2, <1>3, <1>4

LEMMA ConcludeTypes ==
  ASSUME TypeOK, Conclude \/ ConcludeOne \/ ConcludeLast PROVE TypeOK'
<1>0. QueueTypeOK /\ LedgerTypeOK /\ PaneTypeOK /\ WakeTypeOK /\ LookTypeOK /\ GhostTypeOK
      /\ "none" \in WaitReasons
  BY DEF TypeOK, WaitReasons
<1> USE DEF queueVars, ledgerVars, paneVars, wakeVars, ghostVars, boundVars
<1>1. LedgerTypeOK' /\ PaneTypeOK' /\ GhostTypeOK' /\ now' = now
  BY <1>0 DEF Conclude, ConcludeOne, ConcludeLast, LedgerTypeOK, PaneTypeOK, GhostTypeOK
<1>2. WakeTypeOK'
  BY <1>0 DEF Conclude, ConcludeOne, ConcludeLast, WakeTypeOK
<1>3. CASE Conclude
  <2>1. QueueTypeOK'
    BY <1>0, <1>3 DEF Conclude, QueueTypeOK
  <2>2. LookTypeOK'
    BY <1>0, <1>3 DEF Conclude, LookTypeOK, Nothing
  <2> QED
    BY <1>1, <1>2, <2>1, <2>2 DEF TypeOK
<1>4. CASE ConcludeOne
  <2>1. PICK m \in FirstOf(todo) : Move({m}, OutcomeState, NoMsg) /\ todo' = todo \ {m}
    BY <1>4 DEF ConcludeOne
  <2>2. QueueTypeOK'
    BY <1>0, <1>1, <2>1, MoveType
  <2>3. LookTypeOK'
    BY <1>0, <1>4, <2>1 DEF ConcludeOne, LookTypeOK
  <2> QED
    BY <1>1, <1>2, <2>2, <2>3 DEF TypeOK
<1>5. CASE ConcludeLast
  <2>1. QueueTypeOK'
    <3>1. CASE outcome = "refused"
      BY <1>0, <1>1, <1>5, <3>1, WaitType DEF ConcludeLast, LookTypeOK
    <3>2. CASE outcome # "refused"
      BY <1>0, <1>5, <3>2 DEF ConcludeLast, QueueTypeOK
    <3> QED
      BY <3>1, <3>2
  <2>2. LookTypeOK'
    BY <1>0, <1>5 DEF ConcludeLast, LookTypeOK, Nothing
  <2> QED
    BY <1>1, <1>2, <2>1, <2>2 DEF TypeOK
<1> QED
  BY <1>3, <1>4, <1>5

LEMMA LookOverType == LookOver => LookTypeOK'
<1> SUFFICES ASSUME LookOver PROVE LookTypeOK'
  OBVIOUS
<1>1. seen' \in [of : Msg \cup {NoMsg}, fate : Fates] /\ text' \in [Msg -> Nat]
  BY DEF LookOver, Unread, Nothing, Fates
<1>2. refusedFor' \in WaitReasons
  BY DEF LookOver, WaitReasons
<1> QED
  BY <1>1, <1>2 DEF LookOver, LookTypeOK

LEMMA MemoryLostType == MemoryLost => LookTypeOK' /\ WakeTypeOK'
<1> SUFFICES ASSUME MemoryLost PROVE LookTypeOK' /\ WakeTypeOK'
  OBVIOUS
<1>1. promptless' \in [at : Time \cup {NoTime}, why : WaitReasons]
  BY DEF MemoryLost, Prompted, WaitReasons
<1>2. WakeTypeOK'
  BY <1>1 DEF MemoryLost, WakeTypeOK
<1> QED
  BY <1>2, LookOverType DEF MemoryLost

LEMMA ScheduleTypes ==
  ASSUME TypeOK, Schedule PROVE TypeOK'
<1>0. QueueTypeOK /\ LedgerTypeOK /\ PaneTypeOK /\ WakeTypeOK /\ LookTypeOK /\ GhostTypeOK
  BY DEF TypeOK
<1> USE DEF queueVars, ledgerVars, paneVars, wakeVars, ghostVars, boundVars
<1>1. QueueTypeOK' /\ LedgerTypeOK' /\ PaneTypeOK' /\ GhostTypeOK'
  BY <1>0 DEF Schedule, QueueTypeOK, LedgerTypeOK, PaneTypeOK, GhostTypeOK
<1>2. LookTypeOK'
  BY LookOverType DEF Schedule
<1> DEFINE due == HoldEnds \cup (IF more \/ \E m \in Msg : Unsettled(m)
                                THEN {Min2(now + LookMs, Horizon)} ELSE {})
<1>3. due \subseteq Time \cup {NoTime}
  <2>1. HoldEnds \subseteq Time \cup {NoTime}
    BY <1>0 DEF HoldEnds, QueueTypeOK
  <2>2. Min2(now + LookMs, Horizon) \in Time
    BY <1>0, TimeFacts, DelivererConstants DEF QueueTypeOK
  <2> QED
    BY <2>1, <2>2
<1>4. \/ open' = FALSE /\ UNCHANGED timer
      \/ open' = TRUE /\ \E t \in due : timer' = t
  BY DEF Schedule
<1>5. timer' \in Time \cup {NoTime}
  BY <1>0, <1>3, <1>4 DEF WakeTypeOK
<1>6. open' \in BOOLEAN
  BY <1>4
<1>7. WakeTypeOK'
  BY <1>0, <1>5, <1>6 DEF Schedule, WakeTypeOK
<1> QED
  BY <1>1, <1>2, <1>7 DEF TypeOK

-----------------------------------------------------------------------------
(* The steps of the send path, the world and the daemon. *)

LEMMA CarriedType ==
  ASSUME LedgerTypeOK, NEW s \in Msg PROVE carried[s] \in [Msg -> Nat]
BY DEF LedgerTypeOK

LEMMA SendTypes ==
  ASSUME TypeOK, NEW s \in Msg, TrackerSettles(s) \/ Retype(s) \/ RetrySend(s)
  PROVE  TypeOK'
<1>0. QueueTypeOK /\ LedgerTypeOK /\ PaneTypeOK /\ WakeTypeOK /\ LookTypeOK /\ GhostTypeOK
  BY DEF TypeOK
<1> USE DEF queueVars, ledgerVars, paneVars, wakeVars, lookVars, ghostVars, boundVars
<1>1. QueueTypeOK' /\ PaneTypeOK' /\ LookTypeOK'
  BY <1>0 DEF TrackerSettles, Retype, RetrySend, TypedAgain, QueueTypeOK, PaneTypeOK,
     LookTypeOK
<1>2. WakeTypeOK'
  BY <1>0 DEF TrackerSettles, Retype, RetrySend, TypedAgain, WakeTypeOK
<1>3. CASE TrackerSettles(s)
  <2>1. \E f \in Fates : fate' = [fate EXCEPT ![s] = f]
    BY <1>3, DelivererConstants DEF TrackerSettles, Fates
  <2>2. LedgerTypeOK' /\ GhostTypeOK'
    BY <1>0, <1>3, <2>1 DEF TrackerSettles, LedgerTypeOK, GhostTypeOK
  <2> QED
    BY <1>1, <1>2, <2>2 DEF TypeOK
<1>4. CASE Retype(s) \/ RetrySend(s)
  <2>1. TypedAgain(s)
    BY <1>4 DEF Retype, RetrySend
  <2>2. LedgerTypeOK'
    BY <1>0, <2>1 DEF TypedAgain, LedgerTypeOK, Fates
  <2>3. copies' \in [Msg -> Nat] /\ typedRev' \in [Msg -> Nat]
    BY <1>0, <2>1, TypedType, CarriedType DEF TypedAgain, GhostTypeOK
  <2>4. GhostTypeOK'
    BY <1>0, <1>4, <2>3 DEF Retype, RetrySend, GhostTypeOK
  <2> QED
    BY <1>1, <1>2, <2>2, <2>4 DEF TypeOK
<1> QED
  BY <1>3, <1>4

LEMMA PersonTypes ==
  ASSUME TypeOK, NEW s \in Msg, OwnerCancelsSend(s) \/ TextLost(s) \/ RowLost(s)
  PROVE  TypeOK'
<1>0. QueueTypeOK /\ LedgerTypeOK /\ PaneTypeOK /\ WakeTypeOK /\ LookTypeOK /\ GhostTypeOK
  BY DEF TypeOK
<1> USE DEF queueVars, ledgerVars, paneVars, wakeVars, lookVars, ghostVars, boundVars
<1>1. QueueTypeOK' /\ PaneTypeOK' /\ LookTypeOK'
  BY <1>0 DEF OwnerCancelsSend, TextLost, RowLost, QueueTypeOK, PaneTypeOK, LookTypeOK
<1>2. WakeTypeOK'
  BY <1>0 DEF OwnerCancelsSend, TextLost, RowLost, WakeTypeOK
<1>3. LedgerTypeOK'
  BY <1>0 DEF OwnerCancelsSend, TextLost, RowLost, LedgerTypeOK, Fates
<1>4. GhostTypeOK'
  BY <1>0 DEF OwnerCancelsSend, TextLost, RowLost, GhostTypeOK
<1> QED
  BY <1>1, <1>2, <1>3, <1>4 DEF TypeOK

LEMMA PaneTypes ==
  ASSUME TypeOK, BoxChanges \/ TargetChanges \/ Tick \/ TickBack PROVE TypeOK'
<1>0. QueueTypeOK /\ LedgerTypeOK /\ PaneTypeOK /\ WakeTypeOK /\ LookTypeOK /\ GhostTypeOK
      /\ now \in Time
  BY DEF TypeOK, QueueTypeOK
<1> USE DEF queueVars, ledgerVars, wakeVars, lookVars, ghostVars, boundVars
<1>1. LedgerTypeOK' /\ LookTypeOK' /\ GhostTypeOK'
  BY <1>0 DEF BoxChanges, TargetChanges, Tick, TickBack, ClockIs, LedgerTypeOK,
     LookTypeOK, GhostTypeOK
<1>2. WakeTypeOK'
  BY <1>0 DEF BoxChanges, TargetChanges, Tick, TickBack, ClockIs, WakeTypeOK
<1>3. UNCHANGED queueVars
  BY DEF BoxChanges, TargetChanges, Tick, TickBack, ClockIs
<1>4. now' \in Time
  <2>1. CASE Tick
    BY <1>0, <2>1, TimeFacts DEF Tick, ClockIs
  <2>2. CASE TickBack
    BY <1>0, <2>2, TimeFacts DEF TickBack, ClockIs
  <2>3. CASE BoxChanges \/ TargetChanges
    BY <1>0, <2>3 DEF BoxChanges, TargetChanges
  <2> QED
    BY <2>1, <2>2, <2>3
<1>5. QueueTypeOK'
  BY <1>0, <1>3, <1>4, QueueUnchanged
<1>6. PaneTypeOK'
  <2>1. CASE BoxChanges
    BY <1>0, <2>1 DEF BoxChanges, PaneTypeOK
  <2>2. CASE TargetChanges
    <3>1. turnBeganAt' \in Time /\ box' = box
      BY <1>0, <2>2 DEF TargetChanges, PaneTypeOK
    <3>2. \/ \E v \in BOOLEAN : target' = [target EXCEPT !.stopped = v]
          \/ \E v \in Time \cup {NoTime} : target' = [target EXCEPT !.turnEndedAt = v]
          \/ \E v \in SUBSET Msg : target' = [target EXCEPT !.answeredBy = v]
      BY <1>0, <2>2 DEF TargetChanges
    <3>3. target' \in [interactive : BOOLEAN, stopped : BOOLEAN,
                       turnEndedAt : Time \cup {NoTime}, answeredBy : SUBSET Msg]
      BY <1>0, <3>2 DEF PaneTypeOK
    <3> QED
      BY <1>0, <3>1, <3>3 DEF PaneTypeOK
  <2>3. CASE Tick \/ TickBack
    BY <1>0, <2>3 DEF Tick, TickBack, ClockIs, PaneTypeOK
  <2> QED
    BY <2>1, <2>2, <2>3
<1> QED
  BY <1>1, <1>2, <1>5, <1>6 DEF TypeOK

LEMMA DaemonTypes ==
  ASSUME TypeOK, DaemonStep PROVE TypeOK'
<1>0. QueueTypeOK /\ LedgerTypeOK /\ PaneTypeOK /\ WakeTypeOK /\ LookTypeOK /\ GhostTypeOK
  BY DEF TypeOK
<1> USE DEF queueVars, ledgerVars, paneVars, ghostVars, boundVars
<1>1. QueueTypeOK' /\ PaneTypeOK'
  BY <1>0 DEF DaemonStep, Stop, Crash, HostCrash, Boot, LookThrows, QueueTypeOK, PaneTypeOK
<1>2. GhostTypeOK'
  BY <1>0 DEF DaemonStep, Stop, Crash, HostCrash, Boot, LookThrows, GhostTypeOK
<1>3. LedgerTypeOK'
  <2>1. CASE HostCrash
    BY <1>0, <2>1 DEF HostCrash, LedgerTypeOK, Fates
  <2>2. CASE Stop \/ Crash \/ Boot \/ LookThrows
    BY <1>0, <2>2 DEF Stop, Crash, Boot, LookThrows, LedgerTypeOK
  <2> QED
    BY <2>1, <2>2 DEF DaemonStep
<1>4. LookTypeOK'
  <2>1. CASE Stop \/ Boot
    BY <1>0, <2>1 DEF Stop, Boot, LookTypeOK, lookVars
  <2>2. CASE Crash \/ HostCrash \/ LookThrows
    BY <2>2, LookOverType, MemoryLostType DEF Crash, HostCrash, LookThrows
  <2> QED
    BY <2>1, <2>2 DEF DaemonStep
<1>5. WakeTypeOK'
  <2>1. CASE Stop \/ Boot
    BY <1>0, <2>1 DEF Stop, Boot, WakeTypeOK
  <2>2. CASE Crash \/ HostCrash
    BY <2>2, MemoryLostType DEF Crash, HostCrash
  <2>3. CASE LookThrows
    BY <1>0, <2>3 DEF LookThrows, WakeTypeOK, wakeVars
  <2> QED
    BY <2>1, <2>2, <2>3 DEF DaemonStep
<1> QED
  BY <1>1, <1>2, <1>3, <1>4, <1>5 DEF TypeOK

LEMMA IdleTypes ==
  ASSUME TypeOK, UNCHANGED vars PROVE TypeOK'
BY DEF TypeOK, vars, queueVars, ledgerVars, paneVars, wakeVars, lookVars, ghostVars,
   boundVars, QueueTypeOK, LedgerTypeOK, PaneTypeOK, WakeTypeOK, LookTypeOK, GhostTypeOK

(* Every step keeps the types. *)
LEMMA TypeNext == TypeOK /\ [Next]_vars => TypeOK'
<1> SUFFICES ASSUME TypeOK, [Next]_vars PROVE TypeOK'
  OBVIOUS
<1>1. CASE SenderStep
  BY <1>1, SenderTypes DEF SenderStep
<1>2. CASE WakeStep
  BY <1>2, WakeTypes
<1>3. CASE LookStep
  BY <1>3, SettleTypes, PlanTypes, DraftTypes, MarkTypes, HandTypes, KeyTypes,
     ConcludeTypes, ScheduleTypes DEF LookStep
<1>4. CASE SendStep
  BY <1>4, SendTypes DEF SendStep
<1>5. CASE WorldStep
  BY <1>5, PersonTypes, PaneTypes DEF WorldStep
<1>6. CASE DaemonStep
  BY <1>6, DaemonTypes
<1>7. CASE UNCHANGED vars
  BY <1>7, IdleTypes
<1> QED
  BY <1>1, <1>2, <1>3, <1>4, <1>5, <1>6, <1>7 DEF Next

(* Type correctness: whatever senders, looks, the send path, crashes and the
   clock do, every message's folded fields, the ledger's fates and what the
   deliverer holds in memory stay among the values the code has for them. *)
THEOREM TypeCorrect == Spec => []TypeOK
<1> QED
  BY TypeInit, TypeNext, PTL DEF Spec

-----------------------------------------------------------------------------
(* Safety.                                                                   *)

NoRowLost == MaxRowLosses = 0

-----------------------------------------------------------------------------
(* What the parts of the invariant say together.                             *)

(* A message that is not handed over is in no live row and was never typed. *)
LEMMA WaitingIsUntouched ==
  ASSUME TypeOK, RowsMatch, TypedHasRow, NEW m \in Msg,
         state[m] \in {"absent", "queued", "cancelled"}
  PROVE  Untouched(m) /\ copies[m] = 0
<1>1. \A s \in Msg : ~Carries(s, m)
  BY DEF RowsMatch
<1>2. SendIdOf(m) \in Msg
  BY DEF SendIdOf, TypeOK, QueueTypeOK
<1>3. typedRev[m] = 0
  BY <1>1, <1>2 DEF TypedHasRow
<1> QED
  BY <1>1, <1>3 DEF TypedHasRow, Untouched

(* A step that writes neither log and types nothing keeps what they say. *)
LEMMA LogsStay ==
  ASSUME RowsMatch, TypedHasRow, OneDelivery,
         UNCHANGED << state, deliveredAs, revision, fate, carried, copies, typedRev >>
  PROVE  RowsMatch' /\ TypedHasRow' /\ OneDelivery'
BY DEF RowsMatch, TypedHasRow, OneDelivery, Carries, Live, SendIdOf

(* Outside the hand-over a look knows nothing that must stay true. *)
LEMMA LookIdle ==
  ASSUME pc' \notin {"move", "draft", "mark", "hand", "type", "outcome"}
  PROVE  LookKnows' /\ SeenHolds'
BY DEF LookKnows, SeenHolds

(* A step that changes neither log, and leaves the hand-over, keeps it all. *)
LEMMA Leaves ==
  ASSUME Inductive,
         UNCHANGED << state, deliveredAs, revision, fate, carried, copies, typedRev >>,
         pc' \notin {"move", "draft", "mark", "hand", "type", "outcome"}
  PROVE  Inductive'
BY LogsStay, LookIdle DEF Inductive

(* What a look knows survives a step of another actor that ends no live row,
   makes none live, and types nothing of what the look knows to be untouched. *)
LEMMA LookStays ==
  ASSUME LookKnows, SeenHolds,
         UNCHANGED << lookVars, state, deliveredAs, revision, carried >>,
         \A s \in Msg : Live(s)' <=> Live(s),
         \A m \in Msg : Untouched(m) => typedRev'[m] = typedRev[m],
         pc = "type" => \A m \in Members : typedRev'[m] = typedRev[m],
         TypeOK
  PROVE  LookKnows' /\ SeenHolds'
<1> USE DEF lookVars
<1>1. Members' = Members /\ pc' = pc /\ todo' = todo /\ sendId' = sendId /\ text' = text
      /\ outcome' = outcome /\ seen' = seen
  BY DEF Members, MembersOf
<1>2. \A m \in Msg : SendIdOf(m)' = SendIdOf(m) /\ SendIdOf(m) \in Msg
  BY DEF SendIdOf, TypeOK, QueueTypeOK
<1>3. \A m \in Msg : InDelivery(m)' <=> InDelivery(m)
  BY <1>1, <1>2 DEF InDelivery
<1>4. \A s, m \in Msg : Carries(s, m)' <=> Carries(s, m)
  BY DEF Carries
<1>5. \A m \in Msg : Untouched(m) => Untouched(m)'
  BY <1>4 DEF Untouched
<1>6. Members \subseteq Msg /\ todo \subseteq Msg
  BY DEF Members, MembersOf, TypeOK, LookTypeOK
<1>7. SeenHolds'
  BY <1>1, <1>2 DEF SeenHolds
<1>8. CASE pc = "draft"
  BY <1>1, <1>6, <1>7, <1>8 DEF LookKnows
<1>9. CASE pc = "mark"
  BY <1>1, <1>3, <1>5, <1>6, <1>7, <1>9 DEF LookKnows
<1>10. CASE pc = "hand"
  BY <1>1, <1>3, <1>5, <1>6, <1>7, <1>10 DEF LookKnows
<1>11. CASE pc = "type"
  <2>1. sendId \in Msg
    BY <1>6, <1>11 DEF LookKnows
  <2>2. Live(sendId)' /\ carried'[sendId] = text
    BY <1>11, <2>1 DEF LookKnows
  <2> QED
    BY <1>1, <1>3, <1>6, <1>7, <1>11, <2>2 DEF LookKnows
<1>12. CASE pc = "outcome"
  BY <1>1, <1>3, <1>5, <1>6, <1>7, <1>12 DEF LookKnows
<1>13. CASE pc \notin {"draft", "mark", "hand", "type", "outcome"}
  BY <1>1, <1>7, <1>13 DEF LookKnows
<1> QED
  BY <1>7, <1>8, <1>9, <1>10, <1>11, <1>12, <1>13

-----------------------------------------------------------------------------
(* Senders. *)

LEMMA SenderSafe ==
  ASSUME TypeOK, Inductive, NEW m \in Msg, Request(m) \/ EditText(m) \/ TakeBack(m)
  PROVE  Inductive'
<1> USE DEF Inductive, ledgerVars, lookVars, ghostVars
<1>1. state[m] \in {"absent", "queued"} /\ pc = "idle" /\ pc' = "idle"
      /\ UNCHANGED << fate, carried, copies, typedRev >>
  BY DEF Request, EditText, TakeBack, Enqueue, Edit, Cancel, LockFree
<1>2. Untouched(m) /\ copies[m] = 0
  BY <1>1, WaitingIsUntouched
<1>3. state'[m] \in {"queued", "cancelled"}
      /\ UNCHANGED deliveredAs
      /\ \A n \in Msg \ {m} : state'[n] = state[n] /\ revision'[n] = revision[n]
  <2>1. CASE Request(m)
    BY <2>1 DEF Request, Enqueue, TypeOK, QueueTypeOK
  <2>2. CASE EditText(m)
    BY <2>2 DEF EditText, Edit, TypeOK, QueueTypeOK
  <2>3. CASE TakeBack(m)
    BY <2>3 DEF TakeBack, Cancel, Move, CanMove, NextStates, TypeOK, QueueTypeOK
  <2> QED
    BY <2>1, <2>2, <2>3
<1>4. \A s, n \in Msg : (Carries(s, n)' <=> Carries(s, n)) /\ SendIdOf(n)' = SendIdOf(n)
  BY <1>1, <1>3 DEF Carries, Live, SendIdOf
<1>5. \A n \in Msg : SendIdOf(n) \in Msg
  BY DEF SendIdOf, TypeOK, QueueTypeOK
<1>6. RowsMatch'
  BY <1>1, <1>2, <1>3, <1>4 DEF RowsMatch, Untouched
<1>7. TypedHasRow'
  BY <1>1, <1>2, <1>3, <1>4, <1>5 DEF TypedHasRow, Untouched
<1>8. OneDelivery'
  BY <1>3, <1>4 DEF OneDelivery
<1> QED
  BY <1>1, <1>6, <1>7, <1>8, LookIdle

LEMMA WakeSafe ==
  ASSUME TypeOK, Inductive, WakeStep PROVE Inductive'
<1> USE DEF queueVars, ledgerVars, lookVars, ghostVars
<1>1. UNCHANGED << queueVars, ledgerVars, lookVars, ghostVars >>
  BY DEF WakeStep, Enqueued, Changed, TimerFires
<1>2. LookKnows' /\ SeenHolds'
  BY <1>1, LookStays DEF Inductive, Live
<1> QED
  BY <1>1, <1>2, LogsStay DEF Inductive

-----------------------------------------------------------------------------
(* Settling. *)

LEMMA BeginSafe ==
  ASSUME Inductive, Begin \/ SettleDone PROVE Inductive'
BY Leaves DEF Begin, SettleDone, queueVars, ledgerVars, ghostVars

LEMMA ReadFateSafe ==
  ASSUME TypeOK, Inductive, ReadFate PROVE Inductive'
<1> USE DEF queueVars, ledgerVars, ghostVars
<1>1. UNCHANGED << state, deliveredAs, revision, fate, carried, copies, typedRev >>
      /\ pc' = "move"
  BY DEF ReadFate
<1>2. PICK m \in Oldest(todo) : seen' = [of |-> m, fate |-> fate[SendIdOf(m)]]
  BY DEF ReadFate
<1>3. m \in Msg
  BY <1>2 DEF Oldest, TypeOK, LookTypeOK
<1>4. SendIdOf(m)' = SendIdOf(m)
  BY <1>1 DEF SendIdOf
<1>5. SeenHolds'
  BY <1>1, <1>2, <1>3, <1>4 DEF SeenHolds, Live
<1>6. LookKnows'
  BY <1>1 DEF LookKnows
<1> QED
  BY <1>1, <1>5, <1>6, LogsStay DEF Inductive

(* What the ledger says moves only a message that was handed over, and back to
   the queue only one the ledger proves untouched. *)
LEMMA MovesFromFacts ==
  ASSUME NEW s \in MessageStates, NEW f \in Fates
  PROVE  LET to == MovesFrom(s, f) IN
         /\ to # s => s \in HandedOver /\ to \notin {"absent", "cancelled", "typing"}
         /\ to # s /\ to = "queued" => s = "typing" /\ f \in NeverTyped
BY DEF MovesFrom, MessageStates, Fates, HandedOver, NeverTyped

LEMMA SettleOneSafe ==
  ASSUME TypeOK, Inductive, NEW m \in Msg, SettleOne(m) PROVE Inductive'
<1> USE DEF Inductive, ledgerVars, ghostVars
<1> DEFINE to == MovesFrom(state[m], seen.fate)
<1>1. /\ state' = [state EXCEPT ![m] = to]
      /\ deliveredAs' = [deliveredAs EXCEPT ![m] = IF to = "queued" THEN NoMsg ELSE @]
      /\ pc = "move" /\ seen.of = m /\ pc' = "settle"
      /\ UNCHANGED << revision, fate, carried, copies, typedRev >>
  BY DEF SettleOne
<1>2. /\ to # state[m] => state[m] \in HandedOver
                          /\ to \notin {"absent", "cancelled", "typing"}
      /\ to # state[m] /\ to = "queued" => state[m] = "typing" /\ seen.fate \in NeverTyped
  BY MovesFromFacts DEF TypeOK, QueueTypeOK, LookTypeOK
<1>3. state \in [Msg -> MessageStates] /\ deliveredAs \in [Msg -> Msg \cup {NoMsg}]
  BY DEF TypeOK, QueueTypeOK
<1>4. \A n \in Msg : SendIdOf(n) \in Msg
  BY <1>3 DEF SendIdOf
<1>5. to = "queued" => Untouched(m)
  <2>1. CASE to = state[m]
    BY <2>1, WaitingIsUntouched
  <2>2. CASE to # state[m] /\ to = "queued"
    <3>1. ~Live(SendIdOf(m))
      BY <1>1, <1>2, <2>2 DEF SeenHolds
    <3>2. \A s \in Msg : ~Carries(s, m)
      BY <3>1 DEF RowsMatch, Carries
    <3> QED
      BY <1>4, <3>2 DEF TypedHasRow, Untouched
  <2> QED
    BY <2>1, <2>2
<1>6. \A s, n \in Msg : Carries(s, n)' <=> Carries(s, n)
  BY <1>1 DEF Carries, Live
<1>7. /\ \A n \in Msg \ {m} : SendIdOf(n)' = SendIdOf(n) /\ state'[n] = state[n]
      /\ state'[m] = to
      /\ to # "queued" => SendIdOf(m)' = SendIdOf(m)
  BY <1>1, <1>3 DEF SendIdOf
<1>8. RowsMatch'
  <2> SUFFICES ASSUME NEW s \in Msg, NEW n \in Msg, Carries(s, n)
               PROVE  /\ state'[n] \notin {"absent", "queued", "cancelled"}
                      /\ SendIdOf(n)' = s
                      /\ carried'[s][n] = revision'[n]
    BY <1>6 DEF RowsMatch
  <2>1. /\ state[n] \notin {"absent", "queued", "cancelled"}
        /\ SendIdOf(n) = s
        /\ carried[s][n] = revision[n]
    BY DEF RowsMatch
  <2>2. n = m => to # "queued"
    BY <1>5 DEF Untouched
  <2> QED
    BY <1>1, <1>2, <1>7, <2>1, <2>2
<1>9. TypedHasRow'
  BY <1>1, <1>4, <1>5, <1>6, <1>7 DEF TypedHasRow, Untouched
<1>10. OneDelivery'
  <2> SUFFICES ASSUME NEW k \in Msg, NEW n \in Msg,
                      state'[k] = "typing", state'[n] = "typing"
               PROVE  SendIdOf(k)' = SendIdOf(n)'
    BY DEF OneDelivery
  <2>1. state[k] = "typing" /\ SendIdOf(k)' = SendIdOf(k)
    BY <1>2, <1>7
  <2>2. state[n] = "typing" /\ SendIdOf(n)' = SendIdOf(n)
    BY <1>2, <1>7
  <2> QED
    BY <2>1, <2>2 DEF OneDelivery
<1> QED
  BY <1>1, <1>8, <1>9, <1>10, LookIdle

-----------------------------------------------------------------------------
(* Planning and marking. *)

(* Holding writes reasons only. *)
LEMMA HoldBackSafe ==
  ASSUME Inductive, NEW S, NEW reason, HoldBack(S, reason),
         UNCHANGED << fate, carried, copies, typedRev >>
  PROVE  Inductive'
BY Leaves DEF HoldBack, Wait

(* The plan takes queued messages, and none while one is being handed over. *)
LEMMA PlanFacts ==
  ASSUME NEW t
  PROVE  /\ PlanMembers(t) \subseteq {m \in Msg : state[m] = "queued"}
         /\ PlanMembers(t) # {} => \A m \in Msg : state[m] # "typing"
<1>1. Deliverable(t) \subseteq {m \in Msg : state[m] = "queued"}
  BY DEF Deliverable
<1>2. \A sender : From(t, sender) \subseteq Deliverable(t)
  BY DEF From
<1>3. Flush(t) \subseteq From(t, "agent")
  BY DEF Flush, Prefix
<1>4. \A sender : FirstOf(From(t, sender)) \subseteq From(t, sender)
  BY FirstOfSubset
<1> QED
  BY <1>1, <1>2, <1>3, <1>4 DEF PlanMembers

LEMMA CommitSafe ==
  ASSUME TypeOK, Inductive, NEW t \in [Msg -> Nat], NEW reason, Commit(t, reason),
         \A m \in MembersOf(t) : state[m] = "queued" /\ t[m] = revision[m],
         \A m \in Msg : state[m] # "typing",
         UNCHANGED << fate, carried, copies, typedRev >>
  PROVE  Inductive'
<1>1. CASE \E why : HoldBack(Deliverable(target), why)
  BY <1>1, HoldBackSafe
<1>2. CASE /\ Wait(Deliverable(target), "none")
           /\ pc' = "mark" /\ todo' = MembersOf(t) /\ text' = t
           /\ \E first \in FirstOf(MembersOf(t)) : sendId' = first
  <2>1. UNCHANGED << state, deliveredAs, revision, fate, carried, copies, typedRev >>
    BY <1>2 DEF Wait
  <2>2. Members' = MembersOf(t) /\ sendId' \in MembersOf(t)
    BY <1>2, FirstOfSubset DEF Members, MembersOf
  <2>3. MembersOf(t) \subseteq Msg
    BY DEF MembersOf
  <2>4. LookKnows'
    BY <1>2, <2>1, <2>2, <2>3 DEF LookKnows
  <2>5. SeenHolds'
    BY <1>2 DEF SeenHolds
  <2> QED
    BY <2>1, <2>4, <2>5, LogsStay DEF Inductive
<1> QED
  BY <1>1, <1>2 DEF Commit

LEMMA PlanSafe ==
  ASSUME TypeOK, Inductive, Plan PROVE Inductive'
<1> DEFINE S == PlanMembers(target)
           t == [m \in Msg |-> IF m \in S THEN revision[m] ELSE 0]
<1>1. UNCHANGED << fate, carried, copies, typedRev >>
  BY DEF Plan, ledgerVars, ghostVars
<1>2. t \in [Msg -> Nat]
      /\ \A m \in MembersOf(t) : state[m] = "queued" /\ t[m] = revision[m]
  BY PlanFacts DEF MembersOf, TypeOK, QueueTypeOK
<1>3. CASE \E R, reason : HoldBack(R, reason)
  BY <1>1, <1>3, HoldBackSafe
<1>4. CASE S # {} /\ pc' = "draft" /\ text' = t /\ UNCHANGED queueVars
  <2>1. UNCHANGED << state, deliveredAs, revision, fate, carried, copies, typedRev >>
    BY <1>1, <1>4 DEF queueVars
  <2>2. Members' = MembersOf(t) /\ MembersOf(t) \subseteq Msg
    BY <1>4 DEF Members, MembersOf
  <2>3. \A m \in Msg : state[m] # "typing"
    BY <1>4, PlanFacts
  <2>4. LookKnows'
    BY <1>2, <1>4, <2>1, <2>2, <2>3 DEF LookKnows
  <2>5. SeenHolds'
    BY <1>4 DEF SeenHolds
  <2> QED
    BY <2>1, <2>4, <2>5, LogsStay DEF Inductive
<1>5. CASE S # {} /\ Commit(t, WaitReasonOf(box, target))
  <2>1. \A m \in Msg : state[m] # "typing"
    BY <1>5, PlanFacts
  <2> QED
    BY <1>1, <1>2, <1>5, <2>1, CommitSafe
<1> QED
  BY <1>3, <1>4, <1>5 DEF Plan

LEMMA DraftSafe ==
  ASSUME TypeOK, Inductive, ClearDraft PROVE Inductive'
<1>1. UNCHANGED << fate, carried, copies, typedRev >>
  BY DEF ClearDraft, ledgerVars, ghostVars
<1>2. CASE \E R, reason : HoldBack(R, reason)
  BY <1>1, <1>2, HoldBackSafe
<1>3. CASE Commit(text, WaitReasonOf("free", target))
  <2>1. text \in [Msg -> Nat]
    BY DEF TypeOK, LookTypeOK
  <2>2. /\ \A m \in MembersOf(text) : state[m] = "queued" /\ text[m] = revision[m]
        /\ \A m \in Msg : state[m] # "typing"
    BY DEF ClearDraft, Inductive, LookKnows, Members
  <2> QED
    BY <1>1, <1>3, <2>1, <2>2, CommitSafe
<1> QED
  BY <1>2, <1>3 DEF ClearDraft

(* Marking puts a message of which nothing was typed under the delivery's id. *)
LEMMA MarkSafe ==
  ASSUME TypeOK, Inductive, MarkTyping PROVE Inductive'
<1> USE DEF Inductive
<1> DEFINE batch == IF Members = {sendId} THEN NoMsg ELSE sendId
<1>1. PICK m \in FirstOf(todo) :
        /\ Move({m}, "typing", batch)
        /\ todo' = todo \ {m}
        /\ pc' = IF todo = {m} THEN "hand" ELSE "mark"
  BY DEF MarkTyping
<1>2. UNCHANGED << fate, carried, copies, typedRev, text, sendId, revision >>
      /\ pc = "mark" /\ Members' = Members
  BY <1>1 DEF MarkTyping, Move, ledgerVars, ghostVars, Members, MembersOf
<1>3. m \in todo /\ m \in Members /\ m \in Msg /\ Members \subseteq Msg
      /\ state[m] = "queued" /\ sendId \in Members /\ todo \subseteq Members
  BY <1>1, <1>2, FirstOfSubset DEF LookKnows, Members, MembersOf
<1>4. Untouched(m)
  BY <1>3, WaitingIsUntouched
<1>5. /\ state'[m] = "typing"
      /\ \A n \in Msg \ {m} : state'[n] = state[n] /\ deliveredAs'[n] = deliveredAs[n]
      /\ deliveredAs'[m] = batch
  BY <1>1, <1>3 DEF Move, CanMove, NextStates
<1>6. SendIdOf(m)' = sendId
  BY <1>3, <1>5, QueueConstants DEF SendIdOf
<1>7. \A n \in Msg \ {m} : SendIdOf(n)' = SendIdOf(n)
  BY <1>5 DEF SendIdOf
<1>8. \A s, n \in Msg : Carries(s, n)' <=> Carries(s, n)
  BY <1>2 DEF Carries, Live
<1>9. \A n \in Msg : Untouched(n) => Untouched(n)'
  BY <1>2, <1>8 DEF Untouched
<1>10. \A n \in Msg : SendIdOf(n) \in Msg
  BY DEF SendIdOf, TypeOK, QueueTypeOK
<1>11. RowsMatch'
  BY <1>2, <1>4, <1>5, <1>7, <1>8 DEF RowsMatch, Untouched
<1>12. TypedHasRow'
  BY <1>2, <1>4, <1>7, <1>8, <1>10 DEF TypedHasRow, Untouched
<1>13. InDelivery(m)'
  BY <1>2, <1>5, <1>6 DEF InDelivery
<1>14. \A n \in Members \ todo : InDelivery(n)' /\ Untouched(n)'
  <2> SUFFICES ASSUME NEW n \in Members \ todo PROVE InDelivery(n)' /\ Untouched(n)'
    OBVIOUS
  <2>1. n # m /\ n \in Msg /\ InDelivery(n) /\ Untouched(n)
    BY <1>2, <1>3 DEF LookKnows
  <2> QED
    BY <1>2, <1>5, <1>7, <1>9, <2>1 DEF InDelivery
<1>15. \A n \in Members \ todo' : InDelivery(n)' /\ Untouched(n)'
  BY <1>1, <1>4, <1>9, <1>13, <1>14, <1>3
<1>16. \A n \in Msg : state'[n] = "typing" => n \in Members \ todo'
  BY <1>1, <1>2, <1>3, <1>5 DEF LookKnows
<1>17. OneDelivery'
  BY <1>2, <1>15, <1>16 DEF OneDelivery, InDelivery
<1>18. \A n \in Members : text'[n] = revision'[n]
  BY <1>2 DEF LookKnows
<1>19. \A n \in todo' : state'[n] = "queued"
  BY <1>1, <1>2, <1>3, <1>5 DEF LookKnows
<1>20. LookKnows'
  <2>1. CASE todo = {m}
    <3>1. todo' = {} /\ pc' = "hand"
      BY <1>1, <2>1
    <3> QED
      BY <1>2, <1>3, <1>15, <1>18, <3>1 DEF LookKnows
  <2>2. CASE todo # {m}
    <3>1. pc' = "mark" /\ todo' \subseteq Members
      BY <1>1, <1>3, <2>2
    <3> QED
      BY <1>2, <1>3, <1>15, <1>16, <1>18, <1>19, <3>1 DEF LookKnows
  <2> QED
    BY <2>1, <2>2
<1>21. SeenHolds'
  BY <1>1 DEF SeenHolds
<1> QED
  BY <1>11, <1>12, <1>17, <1>20, <1>21

-----------------------------------------------------------------------------
(* The hand-over. *)

(* An answer leaves every member under the delivery's id; one that says nothing
   was typed says it of members that are untouched. *)
LEMMA AnsweredSafe ==
  ASSUME TypeOK, RowsMatch', TypedHasRow', OneDelivery',
         NEW what \in {"landed", "unproven", "refused", "failed"}, NEW why,
         Answered(what, why), UNCHANGED << state, deliveredAs >>,
         \A m \in Members : InDelivery(m),
         what = "refused" => \A m \in Members : Untouched(m)'
  PROVE  Inductive'
<1>1. pc' = "outcome" /\ todo' = Members /\ outcome' = what /\ sendId' = sendId
  BY DEF Answered
<1>2. \A m \in Members : InDelivery(m)'
  BY <1>1 DEF InDelivery, SendIdOf
<1>3. LookKnows'
  BY <1>1, <1>2 DEF LookKnows
<1>4. SeenHolds'
  BY <1>1 DEF SeenHolds
<1> QED
  BY <1>3, <1>4 DEF Inductive

LEMMA HandSafe ==
  ASSUME TypeOK, Inductive, HandRefused \/ HandFailed PROVE Inductive'
<1>1. UNCHANGED << state, deliveredAs, revision, fate, carried, copies, typedRev >>
      /\ pc = "hand"
  BY DEF HandRefused, HandFailed, queueVars, ledgerVars, ghostVars
<1>2. RowsMatch' /\ TypedHasRow' /\ OneDelivery'
  BY <1>1, LogsStay DEF Inductive
<1>3. \A m \in Members : InDelivery(m) /\ Untouched(m)'
  BY <1>1 DEF Inductive, LookKnows, Untouched, Carries, Live
<1>4. \E what \in {"refused", "failed"} : \E why : Answered(what, why)
  BY DEF HandRefused, HandFailed, Refused
<1> QED
  BY <1>1, <1>2, <1>3, <1>4, AnsweredSafe

LEMMA HandAcceptSafe ==
  ASSUME TypeOK, Inductive, HandAccept PROVE Inductive'
<1> USE DEF Inductive
<1>1. UNCHANGED << state, deliveredAs, revision, copies, typedRev >> /\ pc = "hand"
  BY DEF HandAccept, queueVars, ghostVars
<1>2. /\ sendId \in Members /\ Members \subseteq Msg
      /\ \A m \in Members : InDelivery(m) /\ Untouched(m) /\ text[m] = revision[m]
  BY <1>1 DEF LookKnows, Members, MembersOf
<1>3. CASE Live(sendId)
  <2>1. UNCHANGED << fate, carried >> /\ Answered("unproven", "none")
    BY <1>3 DEF HandAccept, ledgerVars
  <2>2. RowsMatch' /\ TypedHasRow' /\ OneDelivery'
    BY <1>1, <2>1, LogsStay
  <2> QED
    BY <1>1, <1>2, <2>1, <2>2, AnsweredSafe
<1>4. CASE ~Live(sendId)
  <2>1. /\ fate' = [fate EXCEPT ![sendId] = "accepted"]
        /\ carried' = [carried EXCEPT ![sendId] = text]
        /\ pc' = "type" /\ UNCHANGED << todo, seen, text, sendId, outcome >>
    BY <1>4 DEF HandAccept, Goto
  <2>2. fate \in [Msg -> Fates] /\ carried \in [Msg -> [Msg -> Nat]]
    BY DEF TypeOK, LedgerTypeOK
  <2>3. Members' = Members
    BY <2>1 DEF Members, MembersOf
  <2>4. Live(sendId)' /\ carried'[sendId] = text
    BY <1>2, <2>1, <2>2 DEF Live, NeverTyped
  <2>5. \A s \in Msg \ {sendId}, m \in Msg : Carries(s, m)' <=> Carries(s, m)
    BY <2>1, <2>2 DEF Carries, Live
  <2>6. \A m \in Msg : SendIdOf(m)' = SendIdOf(m) /\ SendIdOf(m) \in Msg
    BY <1>1 DEF SendIdOf, TypeOK, QueueTypeOK
  <2>7. RowsMatch'
    <3> SUFFICES ASSUME NEW s \in Msg, NEW m \in Msg, Carries(s, m)'
                 PROVE  /\ state'[m] \notin {"absent", "queued", "cancelled"}
                        /\ SendIdOf(m)' = s
                        /\ carried'[s][m] = revision'[m]
      BY DEF RowsMatch
    <3>1. CASE s = sendId
      <4>1. m \in Members
        BY <2>4, <3>1 DEF Carries, Members, MembersOf
      <4> QED
        BY <1>1, <1>2, <2>4, <2>6, <3>1, <4>1 DEF InDelivery
    <3>2. CASE s # sendId
      <4>1. Carries(s, m) /\ carried'[s] = carried[s]
        BY <2>1, <2>2, <2>5, <3>2
      <4> QED
        BY <1>1, <2>6, <4>1 DEF RowsMatch
    <3> QED
      BY <3>1, <3>2
  <2>8. TypedHasRow'
    <3> SUFFICES ASSUME NEW m \in Msg
                 PROVE  /\ copies'[m] \in {0, 1}
                        /\ copies'[m] # 0 => typedRev'[m] # 0
                        /\ typedRev'[m] # 0 =>
                             Carries(SendIdOf(m), m)' /\ typedRev'[m] = revision'[m]
      BY DEF TypedHasRow
    <3>1. copies[m] \in {0, 1} /\ (copies[m] # 0 => typedRev[m] # 0)
      BY DEF TypedHasRow
    <3>2. typedRev[m] # 0 => Carries(SendIdOf(m), m) /\ typedRev[m] = revision[m]
      BY DEF TypedHasRow
    <3>3. typedRev[m] # 0 => SendIdOf(m) # sendId
      BY <1>4, <3>2 DEF Carries
    <3>4. typedRev[m] # 0 => Carries(SendIdOf(m), m)'
      BY <2>5, <2>6, <3>2, <3>3 DEF Carries
    <3> QED
      BY <1>1, <3>1, <3>2, <3>4
  <2>9. OneDelivery'
    BY <1>1, <2>6 DEF OneDelivery
  <2>10. LookKnows'
    BY <1>1, <1>2, <2>1, <2>3, <2>4, <2>6 DEF LookKnows, InDelivery, Untouched
  <2>11. SeenHolds'
    BY <2>1 DEF SeenHolds
  <2> QED
    BY <2>7, <2>8, <2>9, <2>10, <2>11
<1> QED
  BY <1>3, <1>4

(* Typing a live row's members, none of which was in front of the agent, gives
   the agent one copy of each, as it reads. *)
LEMMA TypedSafe ==
  ASSUME TypeOK, RowsMatch, TypedHasRow, NEW s \in Msg, Live(s),
         \A m \in MembersOf(carried[s]) : copies[m] = 0,
         Typed(carried[s]), UNCHANGED << state, deliveredAs, revision, carried >>,
         \A r \in Msg : Live(r)' <=> Live(r)
  PROVE  RowsMatch' /\ TypedHasRow'
<1>1. \A r, m \in Msg : Carries(r, m)' <=> Carries(r, m)
  BY DEF Carries
<1>2. \A m \in Msg : SendIdOf(m)' = SendIdOf(m) /\ SendIdOf(m) \in Msg
  BY DEF SendIdOf, TypeOK, QueueTypeOK
<1>3. RowsMatch'
  BY <1>1, <1>2 DEF RowsMatch
<1>4. TypedHasRow'
  <2> SUFFICES ASSUME NEW m \in Msg
               PROVE  /\ copies'[m] \in {0, 1}
                      /\ copies'[m] # 0 => typedRev'[m] # 0
                      /\ typedRev'[m] # 0 =>
                           Carries(SendIdOf(m), m)' /\ typedRev'[m] = revision'[m]
    BY DEF TypedHasRow
  <2>1. CASE carried[s][m] # 0
    <3>1. copies'[m] = 1 /\ typedRev'[m] = carried[s][m]
      BY <2>1 DEF Typed, MembersOf
    <3>2. Carries(s, m)
      BY <2>1 DEF Carries
    <3>3. SendIdOf(m) = s /\ carried[s][m] = revision[m]
      BY <3>2 DEF RowsMatch
    <3> QED
      BY <1>1, <1>2, <2>1, <3>1, <3>2, <3>3 DEF Carries
  <2>2. CASE carried[s][m] = 0
    <3>1. copies'[m] = copies[m] /\ typedRev'[m] = typedRev[m]
      BY <2>2 DEF Typed
    <3>2. typedRev[m] # 0 => Carries(SendIdOf(m), m)'
      BY <1>1, <1>2 DEF TypedHasRow, Carries
    <3> QED
      BY <3>1, <3>2 DEF TypedHasRow
  <2> QED
    BY <2>1, <2>2
<1> QED
  BY <1>3, <1>4

LEMMA KeysSafe ==
  ASSUME TypeOK, Inductive, KeysGo \/ KeysThrow \/ KeptUntyped PROVE Inductive'
<1> USE DEF Inductive
<1>1. UNCHANGED << state, deliveredAs, revision, carried >> /\ pc = "type"
  BY DEF KeysGo, KeysThrow, KeptUntyped, queueVars, ledgerVars
<1>2. /\ sendId \in Members /\ Members \subseteq Msg /\ Live(sendId) /\ carried[sendId] = text
      /\ \A m \in Members : InDelivery(m) /\ typedRev[m] = 0
  BY <1>1 DEF LookKnows, Members, MembersOf
<1>3. \A r \in Msg : Live(r)' <=> Live(r)
  <2>1. CASE KeysGo
    <3>1. \E f \in {"accepted", "queued", "unaccounted"} : fate' = [fate EXCEPT ![sendId] = f]
      BY <2>1 DEF KeysGo
    <3> QED
      BY <1>2, <3>1 DEF Live, NeverTyped, TypeOK, LedgerTypeOK
  <2>2. CASE KeysThrow \/ KeptUntyped
    BY <2>2 DEF KeysThrow, KeptUntyped, ledgerVars, Live
  <2> QED
    BY <2>1, <2>2
<1>4. RowsMatch' /\ TypedHasRow'
  <2>1. CASE Typed(text)
    <3>1. \A m \in MembersOf(carried[sendId]) : copies[m] = 0
      BY <1>2 DEF TypedHasRow, Members, MembersOf
    <3> QED
      BY <1>1, <1>2, <1>3, <2>1, <3>1, TypedSafe
  <2>2. CASE UNCHANGED ghostVars
    <3>1. UNCHANGED << copies, typedRev >>
      BY <2>2 DEF ghostVars
    <3>2. \A r, m \in Msg : Carries(r, m)' <=> Carries(r, m)
      BY <1>1, <1>3 DEF Carries
    <3>3. \A m \in Msg : SendIdOf(m)' = SendIdOf(m) /\ SendIdOf(m) \in Msg
      BY <1>1 DEF SendIdOf, TypeOK, QueueTypeOK
    <3>4. RowsMatch'
      BY <1>1, <3>2, <3>3 DEF RowsMatch
    <3>5. TypedHasRow'
      BY <1>1, <3>1, <3>2, <3>3 DEF TypedHasRow
    <3> QED
      BY <3>4, <3>5
  <2> QED
    BY <2>1, <2>2 DEF KeysGo, KeysThrow, KeptUntyped
<1>5. OneDelivery'
  BY <1>1 DEF OneDelivery, SendIdOf
<1>6. \E what \in {"landed", "unproven", "failed"} : Answered(what, "none")
  BY DEF KeysGo, KeysThrow, KeptUntyped
<1> QED
  BY <1>1, <1>2, <1>4, <1>5, <1>6, AnsweredSafe

(* A row is withdrawn only while nothing of its members was typed. *)
LEMMA PaneRefusesSafe ==
  ASSUME TypeOK, Inductive, PaneRefuses PROVE Inductive'
<1> USE DEF Inductive
<1>1. UNCHANGED << state, deliveredAs, revision, carried, copies, typedRev >> /\ pc = "type"
      /\ fate' = [fate EXCEPT ![sendId] = "withdrawn"]
  BY DEF PaneRefuses, queueVars, ghostVars
<1>2. /\ sendId \in Msg /\ Members \subseteq Msg /\ carried[sendId] = text
      /\ \A m \in Members : InDelivery(m) /\ typedRev[m] = 0
  BY <1>1 DEF LookKnows, Members, MembersOf
<1>3. fate \in [Msg -> Fates]
  BY DEF TypeOK, LedgerTypeOK
<1>4. /\ \A s, m \in Msg : s = sendId => ~Carries(s, m)'
      /\ \A s \in Msg \ {sendId}, m \in Msg : Carries(s, m)' <=> Carries(s, m)
  BY <1>1, <1>2, <1>3 DEF Carries, Live, NeverTyped
<1>5. \A m \in Msg : SendIdOf(m)' = SendIdOf(m) /\ SendIdOf(m) \in Msg
  BY <1>1 DEF SendIdOf, TypeOK, QueueTypeOK
<1>6. RowsMatch'
  BY <1>1, <1>4, <1>5 DEF RowsMatch
<1>7. \A m \in Msg : typedRev[m] # 0 => SendIdOf(m) # sendId
  BY <1>2 DEF TypedHasRow, Carries, Members, MembersOf
<1>8. TypedHasRow'
  BY <1>1, <1>4, <1>5, <1>7 DEF TypedHasRow
<1>9. OneDelivery'
  BY <1>1, <1>5 DEF OneDelivery
<1>10. \A m \in Members : Untouched(m)'
  <2> SUFFICES ASSUME NEW m \in Members, NEW s \in Msg, Carries(s, m)' PROVE FALSE
    BY <1>1, <1>2 DEF Untouched
  <2>1. s # sendId /\ Carries(s, m) /\ m \in Msg
    BY <1>2, <1>4
  <2>2. SendIdOf(m) = s
    BY <2>1 DEF RowsMatch
  <2> QED
    BY <1>2, <2>1, <2>2 DEF InDelivery
<1>11. \E why : Answered("refused", why)
  BY DEF PaneRefuses, Refused
<1> QED
  BY <1>1, <1>2, <1>6, <1>8, <1>9, <1>10, <1>11, AnsweredSafe

LEMMA ConcludeSafe ==
  ASSUME Inductive, Conclude \/ ConcludeLast \/ Schedule PROVE Inductive'
<1>1. UNCHANGED << state, deliveredAs, revision, fate, carried, copies, typedRev >>
  BY DEF Conclude, ConcludeLast, Schedule, Wait, queueVars, ledgerVars, ghostVars
<1>2. pc' \in {"idle", "plan", "schedule"}
  BY DEF Conclude, ConcludeLast, Schedule, LookOver
<1> QED
  BY <1>1, <1>2, Leaves

LEMMA ConcludeOneSafe ==
  ASSUME TypeOK, Inductive, ConcludeOne PROVE Inductive'
<1> USE DEF Inductive
<1>1. PICK m \in FirstOf(todo) : Move({m}, OutcomeState, NoMsg) /\ todo' = todo \ {m}
  BY DEF ConcludeOne
<1>2. UNCHANGED << fate, carried, copies, typedRev, pc, text, sendId, outcome, revision >>
      /\ pc = "outcome" /\ outcome \in {"landed", "refused", "failed"}
  BY <1>1 DEF ConcludeOne, Move, ledgerVars, ghostVars, LeftTyping, LookKnows, TypeOK, LookTypeOK
<1>3. m \in todo /\ m \in Msg /\ InDelivery(m) /\ (outcome = "refused" => Untouched(m))
  BY <1>1, <1>2, FirstOfSubset DEF LookKnows, TypeOK, LookTypeOK
<1>4. /\ \A n \in Msg \ {m} : state'[n] = state[n] /\ SendIdOf(n)' = SendIdOf(n)
      /\ state'[m] \in {"delivered", "queued", "failed"}
      /\ state'[m] = "queued" => outcome = "refused"
      /\ state'[m] # "queued" => SendIdOf(m)' = SendIdOf(m)
  BY <1>1, <1>2, <1>3 DEF Move, CanMove, NextStates, OutcomeState, InDelivery, SendIdOf
<1>5. \A s, n \in Msg : Carries(s, n)' <=> Carries(s, n)
  BY <1>2 DEF Carries, Live
<1>6. \A n \in Msg : SendIdOf(n) \in Msg
  BY DEF SendIdOf, TypeOK, QueueTypeOK
<1>7. RowsMatch'
  BY <1>2, <1>3, <1>4, <1>5 DEF RowsMatch, Untouched
<1>8. TypedHasRow'
  BY <1>2, <1>3, <1>4, <1>5, <1>6 DEF TypedHasRow, Untouched
<1>9. OneDelivery'
  BY <1>4 DEF OneDelivery
<1>10. \A n \in todo' : InDelivery(n)' /\ (outcome = "refused" => Untouched(n)')
  <2> SUFFICES ASSUME NEW n \in todo'
               PROVE  InDelivery(n)' /\ (outcome = "refused" => Untouched(n)')
    OBVIOUS
  <2>1. n \in todo /\ n # m /\ n \in Msg
    BY <1>1 DEF TypeOK, LookTypeOK
  <2>2. InDelivery(n) /\ (outcome = "refused" => Untouched(n))
    BY <1>2, <2>1 DEF LookKnows
  <2> QED
    BY <1>2, <1>4, <1>5, <2>1, <2>2 DEF InDelivery, Untouched
<1>11. LookKnows'
  BY <1>2, <1>10 DEF LookKnows
<1>12. SeenHolds'
  BY <1>2 DEF SeenHolds
<1> QED
  BY <1>7, <1>8, <1>9, <1>11, <1>12

-----------------------------------------------------------------------------
(* The send path, the world and the daemon.                                  *)

(* A row that is settled or withdrawn by its owner stays live. *)
LEMMA FateMoves ==
  ASSUME TypeOK, Inductive, NEW s \in Msg, Live(s),
         NEW f, f \notin NeverTyped, fate' = [fate EXCEPT ![s] = f],
         UNCHANGED << state, deliveredAs, revision, carried, copies, typedRev, lookVars >>
  PROVE  Inductive'
<1> USE DEF Inductive
<1>1. \A r \in Msg : Live(r)' <=> Live(r)
  BY DEF Live, TypeOK, LedgerTypeOK
<1>2. \A r, m \in Msg : Carries(r, m)' <=> Carries(r, m)
  BY <1>1 DEF Carries
<1>3. \A m \in Msg : SendIdOf(m)' = SendIdOf(m) /\ SendIdOf(m) \in Msg
  BY DEF SendIdOf, TypeOK, QueueTypeOK
<1>4. RowsMatch'
  BY <1>2, <1>3 DEF RowsMatch
<1>5. TypedHasRow'
  BY <1>2, <1>3 DEF TypedHasRow
<1>6. OneDelivery'
  BY <1>3 DEF OneDelivery
<1>7. LookKnows' /\ SeenHolds'
  BY <1>1, LookStays
<1> QED
  BY <1>4, <1>5, <1>6, <1>7

LEMMA TrackerSafe ==
  ASSUME TypeOK, Inductive, NEW s \in Msg, TrackerSettles(s) \/ OwnerCancelsSend(s)
  PROVE  Inductive'
<1>1. UNCHANGED << state, deliveredAs, revision, carried, copies, typedRev, lookVars >>
  BY DEF TrackerSettles, OwnerCancelsSend, queueVars, ghostVars
<1>2. Live(s)
  BY DEF TrackerSettles, OwnerCancelsSend, Live, NeverTyped
<1>3. \E f : f \notin NeverTyped /\ fate' = [fate EXCEPT ![s] = f]
  BY DelivererConstants DEF TrackerSettles, OwnerCancelsSend, NeverTyped
<1> QED
  BY <1>1, <1>2, <1>3, FateMoves

LEMMA RetypeSafe ==
  ASSUME TypeOK, Inductive, NEW s \in Msg, Retype(s) \/ RetrySend(s) PROVE Inductive'
<1> USE DEF Inductive
<1>1. UNCHANGED << state, deliveredAs, revision, carried, lookVars >>
      /\ Typed(carried[s]) /\ fate' = [fate EXCEPT ![s] = "accepted"]
      /\ Live(s) /\ ~HandingOver(s) /\ ~HasText(s)
  BY DEF Retype, RetrySend, TypedAgain, queueVars, Live, NeverTyped
<1>2. \A r \in Msg : Live(r)' <=> Live(r)
  BY <1>1 DEF Live, NeverTyped, TypeOK, LedgerTypeOK
<1>3. \A m \in MembersOf(carried[s]) : copies[m] = 0
  BY <1>1 DEF HasText, MembersOf, TypedHasRow
<1>4. RowsMatch' /\ TypedHasRow'
  BY <1>1, <1>2, <1>3, TypedSafe
<1>5. OneDelivery'
  BY <1>1 DEF OneDelivery, SendIdOf
<1>6. \A m \in Msg : ~Carries(s, m) => typedRev'[m] = typedRev[m]
  BY <1>1 DEF Typed, Carries
<1>7. \A m \in Msg : Untouched(m) => typedRev'[m] = typedRev[m]
  BY <1>6 DEF Untouched
<1>8. pc = "type" => \A m \in Members : typedRev'[m] = typedRev[m]
  <2> SUFFICES ASSUME pc = "type", NEW m \in Members, Carries(s, m) PROVE FALSE
    BY <1>6 DEF Members, MembersOf
  <2>1. m \in Msg /\ SendIdOf(m) = sendId
    BY DEF LookKnows, InDelivery, Members, MembersOf
  <2>2. SendIdOf(m) = s
    BY <2>1 DEF RowsMatch
  <2> QED
    BY <1>1, <2>1, <2>2 DEF HandingOver
<1>9. LookKnows' /\ SeenHolds'
  BY <1>1, <1>2, <1>7, <1>8, LookStays
<1> QED
  BY <1>4, <1>5, <1>9

LEMMA TextLostSafe ==
  ASSUME TypeOK, Inductive, NEW s \in Msg, TextLost(s) PROVE Inductive'
<1> USE DEF Inductive
<1>1. UNCHANGED << state, deliveredAs, revision, fate, carried, typedRev, lookVars >>
      /\ \A m \in Msg : copies'[m] \in {0, copies[m]}
  BY DEF TextLost, queueVars, ledgerVars
<1>2. \A r, m \in Msg : Carries(r, m)' <=> Carries(r, m)
  BY <1>1 DEF Carries, Live
<1>3. \A m \in Msg : SendIdOf(m)' = SendIdOf(m) /\ SendIdOf(m) \in Msg
  BY <1>1 DEF SendIdOf, TypeOK, QueueTypeOK
<1>4. RowsMatch' /\ OneDelivery'
  BY <1>1, <1>2, <1>3 DEF RowsMatch, OneDelivery
<1>5. TypedHasRow'
  BY <1>1, <1>2, <1>3 DEF TypedHasRow
<1>6. LookKnows' /\ SeenHolds'
  BY <1>1, LookStays DEF Live
<1> QED
  BY <1>4, <1>5, <1>6

LEMMA PaneSafe ==
  ASSUME TypeOK, Inductive,
         BoxChanges \/ TargetChanges \/ Tick \/ TickBack \/ Stop \/ Boot
  PROVE  Inductive'
<1>1. UNCHANGED << state, deliveredAs, revision, fate, carried, copies, typedRev, lookVars >>
  BY DEF BoxChanges, TargetChanges, Tick, TickBack, ClockIs, Stop, Boot, queueVars,
     ledgerVars, ghostVars
<1>2. LookKnows' /\ SeenHolds'
  BY <1>1, LookStays DEF Inductive, Live
<1> QED
  BY <1>1, <1>2, LogsStay DEF Inductive

(* A look that ends half-way, by a throw or with the process, leaves the logs. *)
LEMMA CrashSafe ==
  ASSUME Inductive, Crash \/ LookThrows PROVE Inductive'
<1>1. UNCHANGED << state, deliveredAs, revision, fate, carried, copies, typedRev >>
      /\ pc' = "idle"
  BY DEF Crash, LookThrows, MemoryLost, LookOver, queueVars, ledgerVars, ghostVars
<1> QED
  BY <1>1, Leaves

LEMMA InductiveInit == Init => Inductive
<1> SUFFICES ASSUME Init PROVE Inductive
  OBVIOUS
<1>1. \A s, m \in Msg : ~Carries(s, m)
  BY DEF Init, Carries, Nothing
<1>2. RowsMatch
  BY <1>1 DEF RowsMatch
<1>3. TypedHasRow
  BY DEF Init, TypedHasRow, Nothing
<1>4. OneDelivery
  BY DEF Init, QueueInit, OneDelivery
<1>5. LookKnows /\ SeenHolds
  BY DEF Init, LookKnows, SeenHolds
<1> QED
  BY <1>2, <1>3, <1>4, <1>5 DEF Inductive

(* Every step keeps the invariant, but one that loses a row. *)
LEMMA InductiveNext ==
  ASSUME NoRowLost, TypeOK, Inductive, [Next]_vars PROVE Inductive'
<1>1. ~HostCrash /\ \A s \in Msg : ~RowLost(s)
  BY DEF NoRowLost, HostCrash, RowLost, TypeOK, GhostTypeOK
<1>2. CASE SenderStep
  BY <1>2, SenderSafe DEF SenderStep
<1>3. CASE WakeStep
  BY <1>3, WakeSafe
<1>4. CASE LookStep
  BY <1>4, BeginSafe, ReadFateSafe, SettleOneSafe, PlanSafe, DraftSafe, MarkSafe, HandSafe,
     HandAcceptSafe, KeysSafe, PaneRefusesSafe, ConcludeSafe, ConcludeOneSafe DEF LookStep
<1>5. CASE SendStep
  BY <1>5, TrackerSafe, RetypeSafe DEF SendStep
<1>6. CASE WorldStep
  BY <1>1, <1>6, TrackerSafe, TextLostSafe, PaneSafe DEF WorldStep
<1>7. CASE DaemonStep
  BY <1>1, <1>7, PaneSafe, CrashSafe DEF DaemonStep
<1>8. CASE UNCHANGED vars
  <2>1. UNCHANGED << state, deliveredAs, revision, fate, carried, copies, typedRev, lookVars >>
    BY <1>8 DEF vars, queueVars, ledgerVars, ghostVars
  <2>2. LookKnows' /\ SeenHolds'
    BY <2>1, LookStays DEF Inductive, Live
  <2> QED
    BY <2>1, <2>2, LogsStay DEF Inductive
<1> QED
  BY <1>2, <1>3, <1>4, <1>5, <1>6, <1>7, <1>8 DEF Next

(* The inductive invariant holds in every reachable state. *)
THEOREM InvariantHolds == NoRowLost => (Spec => []Inductive)
<1> SUFFICES ASSUME NoRowLost PROVE Spec => []Inductive
  OBVIOUS
<1>1. TypeOK /\ Inductive /\ [Next]_vars => Inductive'
  BY InductiveNext
<1> QED
  BY <1>1, InductiveInit, TypeCorrect, PTL DEF Spec

-----------------------------------------------------------------------------
(* What follows from it.                                                     *)

(* Nothing is ever in front of the agent twice, whatever crashes, throws, is
   lost, typed again or settled in between. *)
THEOREM NeverTwice == NoRowLost => (Spec => []AtMostOneCopy)
<1> SUFFICES ASSUME NoRowLost PROVE Spec => []AtMostOneCopy
  OBVIOUS
<1>1. Inductive => AtMostOneCopy
  BY DEF Inductive, TypedHasRow, AtMostOneCopy
<1> QED
  BY <1>1, InvariantHolds, PTL

(* A message shown as waiting was never typed. *)
THEOREM WaitingUntyped == NoRowLost => (Spec => []WaitingWasNeverTyped)
<1> SUFFICES ASSUME NoRowLost PROVE Spec => []WaitingWasNeverTyped
  OBVIOUS
<1>1. TypeOK /\ Inductive => WaitingWasNeverTyped
  BY WaitingIsUntouched DEF Inductive, WaitingWasNeverTyped, Untouched
<1> QED
  BY <1>1, InvariantHolds, TypeCorrect, PTL

(* Every message in flight belongs to one and the same delivery. *)
THEOREM OneInFlight == NoRowLost => (Spec => []OneDelivery)
<1> SUFFICES ASSUME NoRowLost PROVE Spec => []OneDelivery
  OBVIOUS
<1>1. Inductive => OneDelivery
  BY DEF Inductive
<1> QED
  BY <1>1, InvariantHolds, PTL

(* What the queue told a sender of an edit or of taking a message back is what
   the agent was given. *)
THEOREM SendersAreTold == NoRowLost => (Spec => []SenderWasTold)
<1> SUFFICES ASSUME NoRowLost PROVE Spec => []SenderWasTold
  OBVIOUS
<1>1. TypeOK /\ Inductive => SenderWasTold
  BY WaitingIsUntouched DEF Inductive, TypedHasRow, SenderWasTold, Untouched
<1> QED
  BY <1>1, InvariantHolds, TypeCorrect, PTL

-----------------------------------------------------------------------------
(* The queue and its deliverer implement MessageDelivery: with a message's    *)
(* folded state read as a phase, its stored text as the words promised and    *)
(* what was typed as what was given, every step is a step of the promise or   *)
(* changes nothing it can see.                                                *)

(* One message changing state is one message changing phase. *)
LEMMA PhaseMoves ==
  ASSUME NEW m \in Msg, \A n \in Msg \ {m} : state'[n] = state[n]
  PROVE  PhaseOf' = [PhaseOf EXCEPT ![m] = PhaseName(state'[m])]
BY DEF PhaseOf, PhaseName

LEMMA PhaseStays ==
  ASSUME UNCHANGED state PROVE PhaseOf' = PhaseOf
BY DEF PhaseOf, PhaseName

(* Every message has one of five phases, and its phase tells these states. *)
LEMMA PhaseFacts ==
  ASSUME NEW m \in Msg
  PROVE  /\ PhaseOf[m] = "absent" <=> state[m] = "absent"
         /\ PhaseOf[m] = "waiting" <=> state[m] = "queued"
         /\ PhaseOf[m] = "handing" <=> state[m] = "typing"
         /\ PhaseOf[m] \in {"handing", "settled"}
              <=> state[m] \notin {"absent", "queued", "cancelled"}
BY DEF PhaseOf, PhaseName

LEMMA Stutters ==
  ASSUME UNCHANGED << state, revision, typedRev, copies >>
  PROVE  UNCHANGED Promise!vars
BY PhaseStays DEF Promise!vars

LEMMA SenderKeeps ==
  ASSUME TypeOK, NEW m \in Msg, Request(m) \/ EditText(m) \/ TakeBack(m)
  PROVE  Promise!Next
<1> USE DEF ghostVars
<1>1. CASE Request(m)
  <2>1. state[m] = "absent" /\ state' = [state EXCEPT ![m] = "queued"]
        /\ revision' = [revision EXCEPT ![m] = 1] /\ UNCHANGED << typedRev, copies >>
    BY <1>1 DEF Request, Enqueue
  <2>2. PhaseOf' = [PhaseOf EXCEPT ![m] = "waiting"]
    BY <2>1, PhaseMoves DEF PhaseName, TypeOK, QueueTypeOK
  <2>3. Promise!Accept(m)
    BY <2>1, <2>2, PhaseFacts DEF Promise!Accept
  <2> QED
    BY <2>3 DEF Promise!Next
<1>2. CASE EditText(m)
  <2>1. state[m] = "queued" /\ state' = state
        /\ revision' = [revision EXCEPT ![m] = @ + 1] /\ UNCHANGED << typedRev, copies >>
    BY <1>2 DEF EditText, Edit
  <2>2. Promise!Change(m)
    BY <2>1, PhaseStays, PhaseFacts DEF Promise!Change
  <2> QED
    BY <2>2 DEF Promise!Next
<1>3. CASE TakeBack(m)
  <2>1. /\ state[m] = "queued" /\ state'[m] = "cancelled"
        /\ \A n \in Msg \ {m} : state'[n] = state[n]
        /\ UNCHANGED << revision, typedRev, copies >>
    BY <1>3 DEF TakeBack, Cancel, Move, CanMove, NextStates
  <2>2. PhaseOf' = [PhaseOf EXCEPT ![m] = "recalled"]
    BY <2>1, PhaseMoves DEF PhaseName
  <2>3. Promise!Recall(m)
    BY <2>1, <2>2, PhaseFacts DEF Promise!Recall
  <2> QED
    BY <2>3 DEF Promise!Next
<1> QED
  BY <1>1, <1>2, <1>3

(* A message that leaves "typing" is settled, or waits again untouched. *)
LEMMA LeavesTyping ==
  ASSUME TypeOK, Inductive, NEW m \in Msg, state[m] = "typing",
         \A n \in Msg \ {m} : state'[n] = state[n],
         state'[m] \in {"queued", "delivered", "read", "unconfirmed", "failed"},
         state'[m] = "queued" => typedRev[m] = 0,
         UNCHANGED << revision, typedRev, copies >>
  PROVE  Promise!Next
<1>1. CASE state'[m] = "queued"
  <2>1. PhaseOf' = [PhaseOf EXCEPT ![m] = "waiting"]
    BY <1>1, PhaseMoves DEF PhaseName
  <2>2. typedRev[m] = 0 /\ copies[m] = 0
    BY <1>1 DEF Inductive, TypedHasRow
  <2>3. Promise!PutBack(m)
    BY <2>1, <2>2, PhaseFacts DEF Promise!PutBack
  <2> QED
    BY <2>3 DEF Promise!Next
<1>2. CASE state'[m] # "queued"
  <2>1. PhaseOf' = [PhaseOf EXCEPT ![m] = "settled"]
    BY <1>2, PhaseMoves DEF PhaseName
  <2>2. Promise!Settle(m)
    BY <2>1, PhaseFacts DEF Promise!Settle
  <2> QED
    BY <2>2 DEF Promise!Next
<1> QED
  BY <1>1, <1>2

LEMMA SettleKeeps ==
  ASSUME TypeOK, Inductive, NEW m \in Msg, SettleOne(m)
  PROVE  [Promise!Next]_(Promise!vars)
<1> DEFINE to == MovesFrom(state[m], seen.fate)
<1>1. state' = [state EXCEPT ![m] = to] /\ pc = "move" /\ seen.of = m
      /\ UNCHANGED << revision, typedRev, copies >>
  BY DEF SettleOne, ghostVars
<1>2. state \in [Msg -> MessageStates] /\ state[m] \in MessageStates /\ seen.fate \in Fates
  BY DEF TypeOK, QueueTypeOK, LookTypeOK
<1>3. CASE state[m] = "typing" /\ to # "typing"
  <2>1. to \in {"queued", "delivered", "read", "unconfirmed", "failed"}
        /\ (to = "queued" => seen.fate \in NeverTyped)
    BY <1>2, <1>3 DEF MovesFrom, Fates, NeverTyped
  <2>2. to = "queued" => typedRev[m] = 0
    BY <1>1, <2>1 DEF Inductive, SeenHolds, TypedHasRow, Carries
  <2> QED
    BY <1>1, <1>2, <1>3, <2>1, <2>2, LeavesTyping
<1>4. CASE state[m] # "typing" \/ to = "typing"
  <2>1. PhaseName(to) = PhaseName(state[m])
    BY <1>2, <1>4 DEF MovesFrom, PhaseName
  <2>2. PhaseOf' = PhaseOf
    BY <1>1, <1>2, <2>1 DEF PhaseOf
  <2> QED
    BY <1>1, <2>2 DEF Promise!vars
<1> QED
  BY <1>3, <1>4

LEMMA MarkKeeps ==
  ASSUME TypeOK, Inductive, MarkTyping PROVE Promise!Next
<1>1. PICK m \in FirstOf(todo) :
        Move({m}, "typing", IF Members = {sendId} THEN NoMsg ELSE sendId)
  BY DEF MarkTyping
<1>2. m \in Msg /\ state[m] = "queued"
  BY <1>1, FirstOfSubset DEF MarkTyping, Inductive, LookKnows, TypeOK, LookTypeOK
<1>3. state'[m] = "typing" /\ (\A n \in Msg \ {m} : state'[n] = state[n])
      /\ UNCHANGED << revision, typedRev, copies >>
  BY <1>1, <1>2 DEF MarkTyping, Move, CanMove, NextStates, ghostVars
<1>4. PhaseOf' = [PhaseOf EXCEPT ![m] = "handing"]
  BY <1>2, <1>3, PhaseMoves DEF PhaseName
<1>5. Promise!HandOver(m)
  BY <1>2, <1>3, <1>4, PhaseFacts DEF Promise!HandOver
<1> QED
  BY <1>2, <1>5 DEF Promise!Next

(* Typing a live row gives its members their words as they now read. *)
LEMMA TypingKeeps ==
  ASSUME TypeOK, Inductive, NEW s \in Msg, Live(s), Typed(carried[s]),
         \A m \in MembersOf(carried[s]) : copies[m] = 0,
         UNCHANGED << state, revision >>
  PROVE  Promise!Next
<1> DEFINE S == MembersOf(carried[s])
<1>1. \A m \in S : m \in Msg /\ Carries(s, m)
  BY DEF MembersOf, Carries
<1>2. \A m \in S : carried[s][m] = revision[m]
                   /\ state[m] \notin {"absent", "queued", "cancelled"}
  BY <1>1 DEF Inductive, RowsMatch
<1>3. \A m \in S : PhaseOf[m] \in {"handing", "settled"} /\ copies[m] = 0
  BY <1>1, <1>2, PhaseFacts
<1>4. typedRev' = [m \in Msg |-> IF m \in S THEN revision[m] ELSE typedRev[m]]
  BY <1>2 DEF Typed, MembersOf
<1>5. copies' = [m \in Msg |-> IF m \in S THEN 1 ELSE copies[m]]
  BY DEF Typed, MembersOf
<1>6. Promise!Type(S)
  BY <1>3, <1>4, <1>5, PhaseStays DEF Promise!Type
<1>7. S \in SUBSET Msg
  BY DEF MembersOf
<1> QED
  BY <1>6, <1>7 DEF Promise!Next

LEMMA KeysKeep ==
  ASSUME TypeOK, Inductive, KeysGo \/ KeysThrow PROVE [Promise!Next]_(Promise!vars)
<1>1. UNCHANGED << state, revision >> /\ pc = "type"
  BY DEF KeysGo, KeysThrow, queueVars
<1>2. sendId \in Msg /\ Live(sendId) /\ carried[sendId] = text
      /\ \A m \in Members : m \in Msg /\ typedRev[m] = 0
  BY <1>1 DEF Inductive, LookKnows, Members, MembersOf
<1>3. \A m \in MembersOf(carried[sendId]) : copies[m] = 0
  BY <1>2 DEF Inductive, TypedHasRow, Members
<1>4. CASE Typed(text)
  BY <1>1, <1>2, <1>3, <1>4, TypingKeeps
<1>5. CASE UNCHANGED ghostVars
  BY <1>1, <1>5, Stutters DEF ghostVars
<1> QED
  BY <1>4, <1>5 DEF KeysGo, KeysThrow

LEMMA ConcludeOneKeeps ==
  ASSUME TypeOK, Inductive, ConcludeOne PROVE Promise!Next
<1>1. PICK m \in FirstOf(todo) : Move({m}, OutcomeState, NoMsg)
  BY DEF ConcludeOne
<1>2. pc = "outcome" /\ outcome \in {"landed", "refused", "failed"}
      /\ UNCHANGED << typedRev, copies >>
  BY DEF ConcludeOne, LeftTyping, Inductive, LookKnows, TypeOK, LookTypeOK, ghostVars
<1>3. m \in Msg /\ state[m] = "typing" /\ (outcome = "refused" => typedRev[m] = 0)
  BY <1>1, <1>2, FirstOfSubset
     DEF Inductive, LookKnows, InDelivery, Untouched, TypeOK, LookTypeOK
<1>4. /\ \A n \in Msg \ {m} : state'[n] = state[n]
      /\ state'[m] \in {"queued", "delivered", "failed"}
      /\ state'[m] = "queued" => outcome = "refused"
      /\ UNCHANGED revision
  BY <1>1, <1>2, <1>3 DEF Move, CanMove, NextStates, OutcomeState
<1> QED
  BY <1>2, <1>3, <1>4, LeavesTyping

LEMMA RetypeKeeps ==
  ASSUME TypeOK, Inductive, NEW s \in Msg, Retype(s) \/ RetrySend(s) PROVE Promise!Next
<1>1. UNCHANGED << state, revision >> /\ Typed(carried[s]) /\ Live(s) /\ ~HasText(s)
  BY DEF Retype, RetrySend, TypedAgain, queueVars, Live, NeverTyped
<1>2. \A m \in MembersOf(carried[s]) : copies[m] = 0
  BY <1>1 DEF HasText, MembersOf, Inductive, TypedHasRow
<1> QED
  BY <1>1, <1>2, TypingKeeps

LEMMA LossKeeps ==
  ASSUME NEW s \in Msg, TextLost(s) PROVE Promise!Next
<1>1. UNCHANGED << state, revision, typedRev >>
      /\ copies' = [m \in Msg |-> IF carried[s][m] # 0 THEN 0 ELSE copies[m]]
  BY DEF TextLost, queueVars
<1>2. Promise!Lose(MembersOf(carried[s])) /\ MembersOf(carried[s]) \in SUBSET Msg
  BY <1>1, PhaseStays DEF Promise!Lose, MembersOf
<1> QED
  BY <1>2 DEF Promise!Next

LEMMA RestKeeps ==
  ASSUME \/ WakeStep \/ Begin \/ ReadFate \/ SettleDone \/ Plan \/ ClearDraft
         \/ HandRefused \/ HandFailed \/ HandAccept \/ PaneRefuses \/ KeptUntyped
         \/ Conclude \/ ConcludeLast \/ Schedule
         \/ (\E s \in Msg : TrackerSettles(s) \/ OwnerCancelsSend(s) \/ RowLost(s))
         \/ BoxChanges \/ TargetChanges \/ Tick \/ TickBack
         \/ DaemonStep \/ UNCHANGED vars
  PROVE  UNCHANGED Promise!vars
<1> USE DEF queueVars, ghostVars
<1>1. CASE WakeStep \/ DaemonStep \/ UNCHANGED vars
  BY <1>1, Stutters DEF WakeStep, Enqueued, Changed, TimerFires, DaemonStep, Stop, Crash,
     HostCrash, Boot, LookThrows, vars
<1>2. CASE Begin \/ ReadFate \/ SettleDone \/ HandRefused \/ HandFailed \/ HandAccept
           \/ PaneRefuses \/ KeptUntyped \/ Conclude \/ Schedule
  BY <1>2, Stutters DEF Begin, ReadFate, SettleDone, HandRefused, HandFailed, HandAccept,
     PaneRefuses, KeptUntyped, Conclude, Schedule
<1>3. CASE Plan \/ ClearDraft \/ ConcludeLast
  BY <1>3, Stutters DEF Plan, ClearDraft, ConcludeLast, Commit, HoldBack, Wait
<1>4. CASE (\E s \in Msg : TrackerSettles(s) \/ OwnerCancelsSend(s) \/ RowLost(s))
           \/ BoxChanges \/ TargetChanges \/ Tick \/ TickBack
  BY <1>4, Stutters DEF TrackerSettles, OwnerCancelsSend, RowLost, BoxChanges, TargetChanges,
     Tick, TickBack, ClockIs
<1> QED
  BY <1>1, <1>2, <1>3, <1>4

(* The queue starts where the promise starts. *)
LEMMA RefinesInit == Init => Promise!Init
BY DEF Init, QueueInit, Promise!Init, PhaseOf, PhaseName, Nothing

LEMMA RefinesNext ==
  ASSUME TypeOK, Inductive, [Next]_vars PROVE [Promise!Next]_(Promise!vars)
<1>1. CASE SenderStep
  BY <1>1, SenderKeeps DEF SenderStep
<1>2. CASE LookStep
  BY <1>2, SettleKeeps, MarkKeeps, KeysKeep, ConcludeOneKeeps, RestKeeps DEF LookStep
<1>3. CASE SendStep
  BY <1>3, RetypeKeeps, RestKeeps DEF SendStep
<1>4. CASE WorldStep
  BY <1>4, LossKeeps, RestKeeps DEF WorldStep
<1>5. CASE WakeStep \/ DaemonStep \/ UNCHANGED vars
  BY <1>5, RestKeeps
<1> QED
  BY <1>1, <1>2, <1>3, <1>4, <1>5 DEF Next

(* The queue and its deliverer keep the promise of MessageDelivery. *)
THEOREM KeepsThePromise == NoRowLost => (Spec => Delivery)
<1> SUFFICES ASSUME NoRowLost PROVE Spec => Delivery
  OBVIOUS
<1>1. TypeOK /\ Inductive /\ [Next]_vars => [Promise!Next]_(Promise!vars)
  BY RefinesNext
<1> QED
  BY <1>1, RefinesInit, InvariantHolds, TypeCorrect, PTL DEF Spec, Delivery, Promise!Spec
=============================================================================
