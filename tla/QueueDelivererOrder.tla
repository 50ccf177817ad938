------------------------ MODULE QueueDelivererOrder ------------------------
(***************************************************************************)
(* The order of delivery, what a failed message says and the last wake-up, *)
(* for every value of the constants. The deliverer decides them in a plan  *)
(* it acts on many steps later, so each needs what the look still knows by *)
(* then: the order of acceptance, where the members in hand stand, whom    *)
(* they were planned ahead of and why a message was left waiting.          *)
(*                                                                         *)
(* Each theorem names the hypothesis it needs: a clock that is never set   *)
(* back, no person's retry, or no look that throws or takes a tick.        *)
(***************************************************************************)
EXTENDS QueueDelivererSafety, WellFoundedInduction

-----------------------------------------------------------------------------
(* What holds with and without a host's crash: the order of acceptance, and  *)
(* the delivery a look has in hand.                                          *)

(* Messages are numbered in the order of their acceptance, no two alike. *)
Numbered ==
  /\ \A m \in Accepted : position[m] \in 1 .. Cardinality(Accepted) /\ revision[m] # 0
  /\ \A m, n \in Accepted : m # n => position[m] # position[n]

(* And dated in that order, on a clock that is never set back. *)
Dated ==
  /\ \A m \in Accepted : enqueuedAt[m] <= now
  /\ \A m, n \in Accepted : position[m] < position[n] => enqueuedAt[m] <= enqueuedAt[n]

(* A look holds a text only from its plan to the end of the hand-over. *)
InHand == {"draft", "mark", "hand", "type", "outcome"}

NothingHeld == pc \notin InHand => text = Nothing

(* Where the members of the delivery stand while the look holds it. *)
MembersStand ==
  /\ pc = "draft" => \A m \in Members : state[m] = "queued"
  /\ pc = "mark" => /\ sendId \in Members /\ todo \subseteq Members
                    /\ \A m \in todo : state[m] = "queued"
                    /\ \A m \in Members \ todo : state[m] = "typing"
  /\ pc \in {"hand", "type"} => sendId \in Members /\ \A m \in Members : state[m] = "typing"
  /\ pc = "outcome" => /\ sendId \in Members
                       /\ \A m \in todo : state[m] = "typing"
                       /\ outcome = "refused" => refusedFor # "none"

-----------------------------------------------------------------------------
(* Steps that are not the look's leave it alone, and what ends it empties it. *)
LEMMA Bystanders ==
  ASSUME SenderStep \/ WakeStep \/ SendStep \/ WorldStep \/ Stop \/ Boot \/ UNCHANGED vars
  PROVE  UNCHANGED lookVars
<1>1. CASE SenderStep \/ WakeStep
  BY <1>1 DEF SenderStep, Request, EditText, TakeBack, WakeStep, Enqueued, Changed, TimerFires
<1>2. CASE SendStep
  BY <1>2 DEF SendStep, TrackerSettles, Retype, RetrySend, TypedAgain
<1>3. CASE WorldStep
  BY <1>3 DEF WorldStep, OwnerCancelsSend, TextLost, RowLost, BoxChanges, TargetChanges, Tick,
     TickBack, ClockIs
<1>4. CASE Stop \/ Boot \/ UNCHANGED vars
  BY <1>4 DEF Stop, Boot, vars
<1> QED
  BY <1>1, <1>2, <1>3, <1>4

LEMMA LookEnds ==
  ASSUME Crash \/ HostCrash \/ LookThrows \/ Schedule
  PROVE  LookOver /\ UNCHANGED queueVars
BY DEF Crash, HostCrash, LookThrows, Schedule, MemoryLost

LEMMA StepKinds ==
  ASSUME [Next]_vars
  PROVE  \/ SenderStep \/ WakeStep \/ SendStep \/ WorldStep \/ Stop \/ Boot \/ UNCHANGED vars
         \/ Crash \/ HostCrash \/ LookThrows \/ LookStep
BY DEF Next, DaemonStep

LEMMA NothingHeldNext ==
  ASSUME NothingHeld, [Next]_vars PROVE NothingHeld'
<1>1. CASE UNCHANGED lookVars
  BY <1>1 DEF lookVars, NothingHeld
<1>2. CASE LookOver
  BY <1>2 DEF LookOver, NothingHeld
<1>3. CASE Begin \/ ReadFate \/ SettleDone \/ \E m \in Msg : SettleOne(m)
  BY <1>3 DEF Begin, ReadFate, SettleDone, SettleOne, NothingHeld, InHand, LockFree
<1>4. CASE Plan \/ ClearDraft
  <2>1. (pc' = "schedule" /\ text' = Nothing) \/ pc' \in {"draft", "mark"}
    BY <1>4 DEF Plan, ClearDraft, Commit, HoldBack
  <2> QED
    BY <2>1 DEF NothingHeld, InHand
<1>5. CASE MarkTyping \/ ConcludeOne
  BY <1>5 DEF MarkTyping, ConcludeOne, NothingHeld, InHand
<1>6. CASE HandRefused \/ HandFailed \/ HandAccept \/ KeysGo \/ KeysThrow \/ PaneRefuses
           \/ KeptUntyped
  <2>1. pc' \in {"type", "outcome"}
    BY <1>6 DEF HandRefused, HandFailed, HandAccept, KeysGo, KeysThrow, PaneRefuses,
       KeptUntyped, Refused, Answered, Goto
  <2> QED
    BY <2>1 DEF NothingHeld, InHand
<1>7. CASE Conclude \/ ConcludeLast
  BY <1>7 DEF Conclude, ConcludeLast, NothingHeld
<1> QED
  BY <1>1, <1>2, <1>3, <1>4, <1>5, <1>6, <1>7, StepKinds, Bystanders, LookEnds DEF LookStep

(* Outside the hand-over a look holds no text: what the plan put in hand is
   dropped with the answer, a hold, a throw or the process. *)
THEOREM NothingIsHeld == Spec => []NothingHeld
<1>1. Init => NothingHeld
  BY DEF Init, NothingHeld
<1>2. NothingHeld /\ [Next]_vars => NothingHeld'
  BY NothingHeldNext
<1> QED
  BY <1>1, <1>2, PTL DEF Spec

-----------------------------------------------------------------------------
(* Only the plan puts a message in hand. *)
LEMMA PlanPicks ==
  ASSUME NothingHeld, [Next]_vars, pc = "plan", NEW m \in Msg, text'[m] # 0
  PROVE  m \in PlanMembers(target)
<1> DEFINE S == PlanMembers(target)
           t == [n \in Msg |-> IF n \in S THEN revision[n] ELSE 0]
<1>1. text = Nothing
  BY DEF NothingHeld, InHand
<1>2. CASE UNCHANGED lookVars
  BY <1>1, <1>2 DEF lookVars, Nothing
<1>3. CASE LookOver
  BY <1>3 DEF LookOver, Nothing
<1>4. CASE Plan
  <2>1. text' = Nothing \/ text' = t
    BY <1>4 DEF Plan, Commit, HoldBack
  <2>2. text' = t
    BY <2>1 DEF Nothing
  <2> QED
    BY <2>2
<1>5. ASSUME LookStep, ~Plan, ~Schedule PROVE FALSE
  BY <1>5 DEF LookStep, Begin, LockFree, ReadFate, SettleOne, SettleDone, ClearDraft,
     MarkTyping, HandRefused, HandFailed, HandAccept, KeysGo, KeysThrow, PaneRefuses,
     KeptUntyped, Conclude, ConcludeOne, ConcludeLast
<1> QED
  BY <1>2, <1>3, <1>4, <1>5, StepKinds, Bystanders, LookEnds

(* A ferret's message that is not due is held, and in a stopped session that
   waits for more than FYIs is one. *)
LEMMA PassedIsHeld ==
  ASSUME TypeOK, NEW m \in PlanMembers(target), SenderOf[m] = "daemon",
         NEW w \in Msg, state[w] = "queued", SenderOf[w] = "agent"
  PROVE  MayBePassed(w)
<1>1. w \in From(target, "agent")
  BY DEF From, Deliverable, BoardOnly
<1>2. ~AnyDue(target) \/ StoppedFyis(target)
  BY FirstOfSubset DEF PlanMembers, Flush, Prefix, From
<1>3. StoredLabel(w) \in Labels
  BY QueueConstants DEF StoredLabel, Labels
<1>4. EffectiveLabel(w, target) \in Labels
  BY <1>3 DEF EffectiveLabel, Labels
<1>5. CASE StoppedFyis(target)
  <2>1. target.stopped /\ EffectiveLabel(w, target) = "fyi"
    BY <1>1, <1>5 DEF StoppedFyis
  <2>2. LabelOf[w] = "fyi"
    BY <2>1 DEF EffectiveLabel, StoredLabel
  <2> QED
    BY <2>1, <2>2 DEF MayBePassed
<1>6. CASE ~AnyDue(target)
  <2>1. ~IsDue(w, target)
    BY <1>1, <1>6 DEF AnyDue
  <2>2. ~HoldOver(w)
    BY <1>4, <2>1 DEF IsDue, Labels
  <2> QED
    BY <2>2 DEF HoldOver, MayBePassed, TypeOK, QueueTypeOK, Time, NoTime
<1> QED
  BY <1>2, <1>5, <1>6

(* The daemon's message passes a ferret's only while that one is held. *)
THEOREM OnlyHeldArePassed == Spec => HeldOnlyIsPassed
<1> DEFINE Passed == pc = "plan" /\ (\E m \in Msg : text'[m] # 0 /\ SenderOf[m] = "daemon") =>
                       \A w \in Msg : state[w] = "queued" /\ SenderOf[w] = "agent" =>
                                        MayBePassed(w)
<1>1. TypeOK /\ NothingHeld /\ [Next]_vars => Passed
  BY PlanPicks, PassedIsHeld
<1>2. TypeOK /\ NothingHeld /\ [Next]_vars => [Passed]_vars
  BY <1>1
<1> QED
  BY <1>2, TypeCorrect, NothingIsHeld, PTL DEF Spec, HeldOnlyIsPassed

-----------------------------------------------------------------------------
(* The order of acceptance. *)

(* Only a sender's request accepts a message, numbers it and dates it, and a
   message comes back to the queue only while its look settles or concludes. *)
LEMMA QueueMoves ==
  ASSUME TypeOK, [Next]_vars, \A m \in Msg : ~Request(m)
  PROVE  /\ UNCHANGED << enqueuedAt, holdUntil, position >> /\ Accepted' = Accepted
         /\ \A m \in Msg : revision'[m] \in {revision[m], revision[m] + 1}
         /\ pc \in {"plan", "draft", "mark", "hand", "type", "schedule"} =>
              \A m \in Msg : state'[m] = "queued" => state[m] = "queued"
<1> DEFINE Kept == /\ UNCHANGED << enqueuedAt, holdUntil, position >>
                   /\ \A m \in Msg : state'[m] = "absent" <=> state[m] = "absent"
                   /\ \A m \in Msg : revision'[m] \in {revision[m], revision[m] + 1}
                   /\ pc \in {"plan", "draft", "mark", "hand", "type", "schedule"} =>
                        \A m \in Msg : state'[m] = "queued" => state[m] = "queued"
<1> SUFFICES Kept
  BY DEF Accepted
<1>0. state \in [Msg -> MessageStates] /\ revision \in [Msg -> Nat]
  BY DEF TypeOK, QueueTypeOK
<1>1. ASSUME NEW S, NEW to, NEW batch, Move(S, to, batch), to = "queued" => pc = "outcome"
      PROVE  Kept
  <2>1. \A from \in MessageStates : CanMove(from, to) => from # "absent" /\ to # "absent"
    BY DEF CanMove, NextStates, MessageStates
  <2> QED
    BY <1>0, <1>1, <2>1 DEF Move
<1>2. ASSUME UNCHANGED queueVars PROVE Kept
  BY <1>2 DEF queueVars
<1>3. ASSUME NEW S, NEW reason, Wait(S, reason) PROVE Kept
  BY <1>3 DEF Wait
<1> HIDE DEF Kept
<1>4. CASE SenderStep
  <2>1. PICK m \in Msg : EditText(m) \/ TakeBack(m)
    BY <1>4 DEF SenderStep
  <2>2. CASE EditText(m)
    BY <1>0, <2>2 DEF EditText, Edit, Kept
  <2>3. CASE TakeBack(m)
    BY <1>1, <2>3 DEF TakeBack, Cancel
  <2> QED
    BY <2>1, <2>2, <2>3
<1>5. CASE WakeStep \/ SendStep \/ WorldStep \/ Stop \/ Boot \/ UNCHANGED vars
           \/ Crash \/ HostCrash \/ LookThrows
  <2>1. UNCHANGED queueVars
    BY <1>5, LookEnds DEF WakeStep, Enqueued, Changed, TimerFires, SendStep, TrackerSettles,
       Retype, RetrySend, TypedAgain, WorldStep, OwnerCancelsSend, TextLost, RowLost, BoxChanges,
       TargetChanges, Tick, TickBack, ClockIs, Stop, Boot, vars
  <2> QED
    BY <1>2, <2>1
<1>6. CASE LookStep
  <2>1. CASE Begin \/ ReadFate \/ SettleDone \/ Conclude \/ Schedule
             \/ HandRefused \/ HandFailed \/ HandAccept \/ KeysGo \/ KeysThrow
             \/ PaneRefuses \/ KeptUntyped
    BY <1>2, <2>1 DEF Begin, ReadFate, SettleDone, Conclude, Schedule, HandRefused,
       HandFailed, HandAccept, KeysGo, KeysThrow, PaneRefuses, KeptUntyped
  <2>2. ASSUME NEW m \in Msg, SettleOne(m) PROVE Kept
    <3>1. MovesFrom(state[m], seen.fate) # state[m] =>
            state[m] \in HandedOver /\ MovesFrom(state[m], seen.fate) # "absent"
      BY <1>0, MovesFromFacts DEF TypeOK, LookTypeOK
    <3>2. state' = [state EXCEPT ![m] = MovesFrom(state[m], seen.fate)] /\ pc = "move"
          /\ UNCHANGED << enqueuedAt, holdUntil, position, revision >>
      BY <2>2 DEF SettleOne
    <3> QED
      BY <1>0, <3>1, <3>2 DEF HandedOver, Kept
  <2>3. CASE Plan \/ ClearDraft
    <3>1. UNCHANGED queueVars \/ \E S, reason : Wait(S, reason)
      BY <2>3 DEF Plan, ClearDraft, Commit, HoldBack
    <3> QED
      BY <1>2, <1>3, <3>1
  <2>4. CASE MarkTyping
    BY <1>1, <2>4 DEF MarkTyping
  <2>5. CASE ConcludeOne
    BY <1>1, <2>5 DEF ConcludeOne
  <2>6. CASE ConcludeLast
    BY <1>2, <1>3, <2>6 DEF ConcludeLast
  <2> QED
    BY <1>6, <2>1, <2>2, <2>3, <2>4, <2>5, <2>6 DEF LookStep
<1> QED
  BY <1>4, <1>5, <1>6, StepKinds

(* Acceptance gives the next number. *)
LEMMA NextNumber ==
  ASSUME TypeOK, NEW m \in Msg, Request(m)
  PROVE  /\ m \notin Accepted /\ Accepted' = Accepted \cup {m}
         /\ Cardinality(Accepted) \in Nat
         /\ Cardinality(Accepted') = Cardinality(Accepted) + 1
         /\ position'[m] = Cardinality(Accepted) + 1
         /\ enqueuedAt'[m] = now /\ revision'[m] = 1 /\ now' = now
         /\ \A n \in Msg \ {m} : /\ position'[n] = position[n]
                                 /\ enqueuedAt'[n] = enqueuedAt[n]
                                 /\ revision'[n] = revision[n]
<1>1. m \notin Accepted /\ Accepted' = Accepted \cup {m}
  BY DEF Request, Enqueue, Accepted, TypeOK, QueueTypeOK
<1>2. IsFiniteSet(Accepted)
  BY QueueConstants, FS_Subset DEF Accepted
<1>3. Cardinality(Accepted) \in Nat
  BY <1>2, FS_CardinalityType
<1>4. Cardinality(Accepted') = Cardinality(Accepted) + 1
  BY <1>1, <1>2, FS_AddElement
<1>5. /\ position'[m] = Cardinality(Accepted) + 1
      /\ enqueuedAt'[m] = now /\ revision'[m] = 1 /\ now' = now
      /\ \A n \in Msg \ {m} : /\ position'[n] = position[n]
                              /\ enqueuedAt'[n] = enqueuedAt[n]
                              /\ revision'[n] = revision[n]
  BY DEF Request, Enqueue, TypeOK, QueueTypeOK, paneVars
<1> QED
  BY <1>1, <1>3, <1>4, <1>5

LEMMA NumberedNext ==
  ASSUME TypeOK, Numbered, [Next]_vars PROVE Numbered'
<1>0. position \in [Msg -> Nat] /\ revision \in [Msg -> Nat] /\ Accepted \subseteq Msg
  BY DEF TypeOK, QueueTypeOK, Accepted
<1>1. CASE \A m \in Msg : ~Request(m)
  BY <1>0, <1>1, QueueMoves DEF Numbered
<1>2. ASSUME NEW m \in Msg, Request(m) PROVE Numbered'
  <2>1. \A n \in Accepted' : n = m \/ (n \in Accepted /\ n \in Msg \ {m})
    BY <1>0, <1>2, NextNumber
  <2>2. \A n \in Accepted' : /\ position'[n] \in 1 .. Cardinality(Accepted')
                             /\ revision'[n] # 0
    BY <1>0, <1>2, <2>1, NextNumber DEF Numbered
  <2>3. \A k, n \in Accepted' : k # n => position'[k] # position'[n]
    BY <1>0, <1>2, <2>1, NextNumber DEF Numbered
  <2> QED
    BY <2>2, <2>3 DEF Numbered
<1> QED
  BY <1>1, <1>2

(* The queue's numbers are its order of acceptance, whatever comes between. *)
THEOREM AcceptanceNumbers == Spec => []Numbered
<1>1. Init => Numbered
  BY DEF Init, QueueInit, Numbered, Accepted
<1>2. TypeOK /\ Numbered /\ [Next]_vars => Numbered'
  BY NumberedNext
<1> QED
  BY <1>1, <1>2, TypeCorrect, PTL DEF Spec

LEMMA ClockGoesOn ==
  ASSUME ~ClockSteps, TypeOK, [Next]_vars PROVE now <= now' /\ now \in Nat /\ now' \in Nat
<1>1. now \in Nat
  BY DEF TypeOK, QueueTypeOK, Time
<1>2. now' \in {now, now + 1}
  <2>1. CASE SenderStep \/ WakeStep \/ SendStep \/ Stop \/ Boot \/ UNCHANGED vars
    BY <2>1 DEF SenderStep, Request, EditText, TakeBack, WakeStep, Enqueued, Changed,
       TimerFires, SendStep, TrackerSettles, Retype, RetrySend, TypedAgain, Stop, Boot, vars,
       paneVars
  <2>2. CASE WorldStep
    BY <2>2 DEF WorldStep, OwnerCancelsSend, TextLost, RowLost, BoxChanges, TargetChanges, Tick,
       TickBack, ClockIs, paneVars
  <2>3. CASE Crash \/ HostCrash \/ LookThrows
    BY <2>3 DEF Crash, HostCrash, LookThrows, paneVars
  <2>4. CASE LookStep
    BY <2>4 DEF LookStep, Begin, ReadFate, SettleOne, SettleDone, Plan, ClearDraft,
       MarkTyping, HandRefused, HandFailed, HandAccept, KeysGo, KeysThrow, PaneRefuses,
       KeptUntyped, Conclude, ConcludeOne, ConcludeLast, Schedule, paneVars
  <2> QED
    BY <2>1, <2>2, <2>3, <2>4, StepKinds
<1> QED
  BY <1>1, <1>2

LEMMA DatedNext ==
  ASSUME ~ClockSteps, TypeOK, Numbered, Dated, [Next]_vars PROVE Dated'
<1>0. /\ position \in [Msg -> Nat] /\ Accepted \subseteq Msg
      /\ \A m \in Msg : enqueuedAt[m] \in Nat
  BY DEF TypeOK, QueueTypeOK, Accepted, Time
<1>1. CASE \A m \in Msg : ~Request(m)
  BY <1>0, <1>1, QueueMoves, ClockGoesOn DEF Dated
<1>2. ASSUME NEW m \in Msg, Request(m) PROVE Dated'
  <2>1. \A n \in Accepted' : n = m \/ (n \in Accepted /\ n \in Msg \ {m})
    BY <1>0, <1>2, NextNumber
  <2>2. \A n \in Accepted' : enqueuedAt'[n] <= now'
    BY <1>0, <1>2, <2>1, NextNumber, ClockGoesOn DEF Dated
  <2>3. \A k, n \in Accepted' :
          position'[k] < position'[n] => enqueuedAt'[k] <= enqueuedAt'[n]
    <3> SUFFICES ASSUME NEW k \in Accepted', NEW n \in Accepted',
                        position'[k] < position'[n]
                 PROVE  enqueuedAt'[k] <= enqueuedAt'[n]
      OBVIOUS
    <3>1. CASE k # m /\ n # m
      BY <1>2, <2>1, <3>1, NextNumber DEF Dated
    <3>2. CASE n = m
      BY <1>0, <1>2, <2>2, <3>2, NextNumber
    <3>3. CASE k = m /\ n # m
      <4>1. position'[k] = Cardinality(Accepted) + 1 /\ position'[n] = position[n]
            /\ position[n] <= Cardinality(Accepted) /\ Cardinality(Accepted) \in Nat
            /\ position[n] \in Nat
        BY <1>0, <1>2, <2>1, <3>3, NextNumber DEF Numbered
      <4> QED
        BY <4>1
    <3> QED
      BY <3>1, <3>2, <3>3
  <2> QED
    BY <2>2, <2>3 DEF Dated
<1> QED
  BY <1>1, <1>2

(* And so are its dates, which delivery goes by first. *)
THEOREM AcceptanceDates == ~ClockSteps => (Spec => []Dated)
<1> SUFFICES ASSUME ~ClockSteps PROVE Spec => []Dated
  OBVIOUS
<1>1. Init => Dated
  BY DEF Init, QueueInit, Dated, Accepted
<1>2. TypeOK /\ Numbered /\ Dated /\ [Next]_vars => Dated'
  BY DatedNext
<1> QED
  BY <1>1, <1>2, TypeCorrect, AcceptanceNumbers, PTL DEF Spec

-----------------------------------------------------------------------------
(* The delivery in hand. *)

LEMMA IdleStands ==
  ASSUME pc' \notin InHand PROVE MembersStand'
BY DEF InHand, MembersStand

LEMMA StandStays ==
  ASSUME MembersStand, UNCHANGED << lookVars, state >> PROVE MembersStand'
BY DEF MembersStand, Members, MembersOf, lookVars

LEMMA CommitStands ==
  ASSUME NEW t, NEW reason, Commit(t, reason), \A m \in MembersOf(t) : state[m] = "queued"
  PROVE  MembersStand'
<1>1. CASE \E S, why : HoldBack(S, why)
  BY <1>1, IdleStands DEF HoldBack, InHand
<1>2. CASE /\ Wait(Deliverable(target), "none")
           /\ pc' = "mark" /\ todo' = MembersOf(t) /\ text' = t
           /\ \E first \in FirstOf(MembersOf(t)) : sendId' = first
  <2>1. Members' = MembersOf(t) /\ sendId' \in MembersOf(t) /\ state' = state
    BY <1>2, FirstOfSubset DEF Members, MembersOf, Wait
  <2> QED
    BY <1>2, <2>1 DEF MembersStand
<1> QED
  BY <1>1, <1>2 DEF Commit

LEMMA AnsweredStands ==
  ASSUME MembersStand, pc \in {"hand", "type"}, UNCHANGED state,
         NEW what, NEW why, Answered(what, why), what = "refused" => why # "none"
  PROVE  MembersStand'
<1>1. Members' = Members /\ pc' = "outcome" /\ todo' = Members /\ sendId' = sendId
      /\ outcome' = what /\ refusedFor' = why
  BY DEF Answered, Members, MembersOf
<1> QED
  BY <1>1 DEF MembersStand

LEMMA MarkStands ==
  ASSUME TypeOK, MembersStand, MarkTyping PROVE MembersStand'
<1>1. PICK m \in FirstOf(todo) :
        /\ Move({m}, "typing", IF Members = {sendId} THEN NoMsg ELSE sendId)
        /\ todo' = todo \ {m}
        /\ pc' = IF todo = {m} THEN "hand" ELSE "mark"
  BY DEF MarkTyping
<1>2. /\ m \in todo /\ m \in Msg /\ sendId \in Members /\ todo \subseteq Members
      /\ Members' = Members /\ sendId' = sendId /\ Members \subseteq Msg
      /\ \A n \in todo : state[n] = "queued"
      /\ \A n \in Members \ todo : state[n] = "typing"
  BY <1>1, FirstOfSubset DEF MarkTyping, MembersStand, Members, MembersOf
<1>3. state'[m] = "typing" /\ \A n \in Msg \ {m} : state'[n] = state[n]
  BY <1>1, <1>2 DEF Move, CanMove, NextStates
<1> QED
  BY <1>1, <1>2, <1>3 DEF MembersStand

LEMMA ConcludeStands ==
  ASSUME TypeOK, MembersStand, ConcludeOne PROVE MembersStand'
<1>1. PICK m \in FirstOf(todo) : Move({m}, OutcomeState, NoMsg) /\ todo' = todo \ {m}
  BY DEF ConcludeOne
<1>2. /\ \A n \in Msg \ {m} : state'[n] = state[n]
      /\ Members' = Members /\ pc = "outcome" /\ pc' = "outcome" /\ sendId' = sendId
      /\ outcome' = outcome /\ refusedFor' = refusedFor /\ todo \subseteq Msg
  BY <1>1 DEF ConcludeOne, Move, Members, MembersOf, TypeOK, LookTypeOK
<1> QED
  BY <1>1, <1>2 DEF MembersStand

LEMMA StandNext ==
  ASSUME TypeOK, MembersStand, [Next]_vars PROVE MembersStand'
<1>1. CASE SenderStep
  <2>1. pc' = "idle"
    BY <1>1 DEF SenderStep, Request, EditText, TakeBack, LockFree, lookVars
  <2> QED
    BY <2>1, IdleStands DEF InHand
<1>2. CASE WakeStep \/ SendStep \/ WorldStep \/ Stop \/ Boot \/ UNCHANGED vars
  <2>1. UNCHANGED queueVars
    BY <1>2 DEF WakeStep, Enqueued, Changed, TimerFires, SendStep, TrackerSettles, Retype,
       RetrySend, TypedAgain, WorldStep, OwnerCancelsSend, TextLost, RowLost, BoxChanges,
       TargetChanges, Tick, TickBack, ClockIs, Stop, Boot, vars
  <2> QED
    BY <1>2, <2>1, Bystanders, StandStays DEF queueVars
<1>3. CASE Crash \/ HostCrash \/ LookThrows \/ Schedule
  <2>1. pc' = "idle"
    BY <1>3, LookEnds DEF LookOver
  <2> QED
    BY <2>1, IdleStands DEF InHand
<1>4. CASE LookStep /\ ~Schedule
  <2>1. CASE Begin \/ ReadFate \/ SettleDone \/ Conclude \/ ConcludeLast
             \/ \E m \in Msg : SettleOne(m)
    <3>1. pc' \in {"settle", "move", "plan", "schedule"}
      BY <2>1 DEF Begin, ReadFate, SettleDone, Conclude, ConcludeLast, SettleOne
    <3> QED
      BY <3>1, IdleStands DEF InHand
  <2>2. CASE Plan
    <3> DEFINE S == PlanMembers(target)
               t == [m \in Msg |-> IF m \in S THEN revision[m] ELSE 0]
    <3>1. \A m \in MembersOf(t) : state[m] = "queued" /\ m \in Msg
      BY PlanFacts DEF MembersOf
    <3>2. CASE \E R, why : HoldBack(R, why)
      BY <3>2, IdleStands DEF HoldBack, InHand
    <3>3. CASE pc' = "draft" /\ text' = t /\ UNCHANGED queueVars
      <4>1. Members' = MembersOf(t) /\ state' = state
        BY <3>3 DEF Members, MembersOf, queueVars
      <4> QED
        BY <3>1, <3>3, <4>1 DEF MembersStand
    <3>4. CASE Commit(t, WaitReasonOf(box, target))
      BY <3>1, <3>4, CommitStands
    <3> QED
      BY <2>2, <3>2, <3>3, <3>4 DEF Plan
  <2>3. CASE ClearDraft
    <3>1. CASE \E R, why : HoldBack(R, why)
      BY <3>1, IdleStands DEF HoldBack, InHand
    <3>2. CASE Commit(text, WaitReasonOf("free", target))
      BY <2>3, <3>2, CommitStands DEF ClearDraft, MembersStand, Members
    <3> QED
      BY <2>3, <3>1, <3>2 DEF ClearDraft
  <2>4. CASE MarkTyping
    BY <2>4, MarkStands
  <2>5. CASE HandAccept /\ pc' = "type"
    <3>1. Members' = Members /\ state' = state /\ sendId' = sendId /\ pc = "hand"
      BY <2>5 DEF HandAccept, Answered, Goto, Members, MembersOf, queueVars
    <3> QED
      BY <2>5, <3>1 DEF MembersStand
  <2>6. CASE HandRefused \/ HandFailed \/ (HandAccept /\ pc' # "type") \/ KeysGo
             \/ KeysThrow \/ PaneRefuses \/ KeptUntyped
    <3>1. UNCHANGED state /\ pc \in {"hand", "type"}
      BY <2>6 DEF HandRefused, HandFailed, HandAccept, KeysGo, KeysThrow, PaneRefuses,
         KeptUntyped, queueVars
    <3>2. \E what, why : Answered(what, why) /\ (what = "refused" => why # "none")
      BY <2>6, DelivererConstants DEF HandRefused, HandFailed, HandAccept, KeysGo, KeysThrow,
         PaneRefuses, KeptUntyped, Refused, Goto
    <3> QED
      BY <3>1, <3>2, AnsweredStands
  <2>7. CASE ConcludeOne
    BY <2>7, ConcludeStands
  <2> QED
    BY <1>4, <2>1, <2>2, <2>3, <2>4, <2>5, <2>6, <2>7 DEF LookStep
<1> QED
  BY <1>1, <1>2, <1>3, <1>4, StepKinds

(* The members in hand stand where the look's step says: waiting until they are
   marked, "typing" from then until the answer moves them, one by one. *)
THEOREM DeliveryStands == Spec => []MembersStand
<1>1. Init => MembersStand
  BY DEF Init, MembersStand
<1>2. TypeOK /\ MembersStand /\ [Next]_vars => MembersStand'
  BY StandNext
<1> QED
  BY <1>1, <1>2, TypeCorrect, PTL DEF Spec

-----------------------------------------------------------------------------
(* Nobody is passed. *)

(* No message left waiting is ahead of one of S, where S may not pass it. *)
NobodyPassed(S) ==
  \A m \in S, w \in Msg \ S :
    state[w] = "queued" /\ (SenderOf[w] = "human" \/ SenderOf[w] = SenderOf[m])
      => ~AheadOf(w, m)

PassesNobody == pc \in {"draft", "mark", "hand"} => NobodyPassed(Members)

(* Among messages of one kind, to be ahead is to be accepted before. *)
LEMMA AheadOfSameKind ==
  ASSUME NEW a \in Msg, NEW b \in Msg, SenderOf[a] = SenderOf[b]
  PROVE  AheadOf(a, b) <=> position[a] < position[b]
<1> DEFINE kinds == << "human", "agent", "daemon" >>
           rank == CHOOSE k \in 1 .. 3 : kinds[k] = SenderOf[b]
<1>1. \E k \in 1 .. 3 : kinds[k] = SenderOf[b]
  BY QueueConstants DEF Senders
<1>2. rank \in 1 .. 3
  BY <1>1
<1> HIDE DEF rank
<1>3. AheadOf(a, b) <=> (rank < rank \/ (rank = rank /\ position[a] < position[b]))
  BY DEF AheadOf, rank
<1> QED
  BY <1>2, <1>3

(* The order of delivery goes on from one message to the next. *)
LEMMA GoesBeforeFacts ==
  ASSUME TypeOK, NEW a \in Msg, NEW b \in Msg, NEW c \in Msg
  PROVE  /\ GoesBefore(a, b) /\ GoesBefore(b, c) => GoesBefore(a, c)
         /\ ~(GoesBefore(a, b) /\ GoesBefore(b, a))
         /\ position[a] # position[b] => GoesBefore(a, b) \/ GoesBefore(b, a)
<1>1. \A s \in Senders : SenderRank(s) \in Nat
  BY DEF Senders, SenderRank
<1>2. \A m \in Msg : SenderRank(SenderOf[m]) \in Nat
  BY <1>1, QueueConstants
<1>3. \A m \in Msg : enqueuedAt[m] \in Nat /\ position[m] \in Nat
  BY DEF TypeOK, QueueTypeOK, Time
<1> QED
  BY <1>2, <1>3 DEF GoesBefore

(* Among messages of one kind, the one accepted before goes before. *)
LEMMA EarlierGoesBefore ==
  ASSUME TypeOK, Dated, NEW a \in Accepted, NEW b \in Accepted, SenderOf[a] = SenderOf[b],
         position[a] < position[b]
  PROVE  GoesBefore(a, b)
<1>1. enqueuedAt[a] <= enqueuedAt[b] /\ enqueuedAt[a] \in Nat /\ enqueuedAt[b] \in Nat
  BY DEF Dated, TypeOK, QueueTypeOK, Time, Accepted
<1> QED
  BY <1>1 DEF GoesBefore

LEMMA FirstPassesNobody ==
  ASSUME TypeOK, Dated, NEW sender, NEW S, S \subseteq Accepted,
         \A m \in S : SenderOf[m] = sender, NEW m \in FirstOf(S), NEW w \in S \ FirstOf(S)
  PROVE  ~(position[w] < position[m])
<1>1. m \in S /\ w # m /\ GoesBefore(m, w) /\ m \in Msg /\ w \in Msg
  BY DEF FirstOf, Accepted
<1> QED
  BY <1>1, EarlierGoesBefore, GoesBeforeFacts

(* A prefix of the order leaves nobody behind who goes before one of it. *)
LEMMA PrefixPassesNobody ==
  ASSUME TypeOK, Dated, NEW sender, NEW S, S \subseteq Accepted, NEW k \in Nat,
         \A m \in S : SenderOf[m] = sender, NEW m \in Prefix(S, k), NEW w \in S \ Prefix(S, k)
  PROVE  ~(position[w] < position[m])
<1> SUFFICES ASSUME position[w] < position[m] PROVE FALSE
  OBVIOUS
<1> DEFINE Before(n) == {j \in S : GoesBefore(j, n)}
<1>1. m \in S /\ m \in Msg /\ w \in Msg /\ S \subseteq Msg
  BY DEF Prefix, Accepted
<1>2. GoesBefore(w, m)
  BY <1>1, EarlierGoesBefore
<1>3. Before(w) \subseteq Before(m)
  BY <1>1, <1>2, GoesBeforeFacts
<1>4. IsFiniteSet(Before(m)) /\ IsFiniteSet(Before(w))
  BY <1>1, QueueConstants, FS_Subset
<1>5. /\ Cardinality(Before(w)) <= Cardinality(Before(m))
      /\ Cardinality(Before(w)) \in Nat /\ Cardinality(Before(m)) \in Nat
  BY <1>3, <1>4, FS_Subset, FS_CardinalityType
<1>6. Cardinality(Before(m)) < k /\ ~(Cardinality(Before(w)) < k)
  BY <1>1 DEF Prefix
<1> QED
  BY <1>5, <1>6

LEMMA PlanPassesNobody ==
  ASSUME TypeOK, Dated PROVE NobodyPassed(PlanMembers(target))
<1> DEFINE S == PlanMembers(target)
<1> SUFFICES ASSUME NEW m \in S, NEW w \in Msg \ S, state[w] = "queued",
                    SenderOf[w] = "human" \/ SenderOf[w] = SenderOf[m]
             PROVE  ~AheadOf(w, m)
  BY DEF NobodyPassed
<1>1. m \in Msg /\ S # {}
  BY PlanFacts
<1>2. \A sender : From(target, sender) \subseteq Accepted
                  /\ \A n \in From(target, sender) : SenderOf[n] = sender
  BY DEF From, Deliverable, Accepted
<1>3. CASE S = FirstOf(From(target, "human"))
  <2>1. m \in From(target, "human") /\ SenderOf[m] = "human" /\ SenderOf[w] = "human"
    BY <1>2, <1>3, FirstOfSubset
  <2>2. w \in From(target, "human")
    BY <2>1 DEF From, Deliverable, BoardOnly
  <2> HIDE DEF S
  <2>3. ~(position[w] < position[m])
    BY <1>2, <1>3, <2>2, FirstPassesNobody
  <2> QED
    BY <1>1, <2>1, <2>3, AheadOfSameKind
<1>4. CASE From(target, "human") = {} /\ S = Flush(target)
  <2>1. \E k \in Nat : S = Prefix(From(target, "agent"), k)
    BY <1>4, QueueConstants DEF Flush
  <2>2. m \in From(target, "agent") /\ SenderOf[m] = "agent"
    BY <1>2, <2>1 DEF Prefix
  <2>3. SenderOf[w] = "agent"
    BY <1>4, <2>2 DEF From, Deliverable, BoardOnly
  <2>4. w \in From(target, "agent")
    BY <2>3 DEF From, Deliverable, BoardOnly
  <2> HIDE DEF S
  <2>5. ~(position[w] < position[m])
    BY <1>2, <2>1, <2>4, PrefixPassesNobody, SMTT(20)
  <2> QED
    BY <1>1, <2>2, <2>3, <2>5, AheadOfSameKind
<1>5. CASE From(target, "human") = {} /\ S = FirstOf(From(target, "daemon"))
  <2>1. m \in From(target, "daemon") /\ SenderOf[m] = "daemon"
    BY <1>2, <1>5, FirstOfSubset
  <2>2. SenderOf[w] = "daemon"
    BY <1>5, <2>1 DEF From, Deliverable, BoardOnly
  <2>3. w \in From(target, "daemon")
    BY <2>1, <2>2 DEF From, Deliverable, BoardOnly
  <2> HIDE DEF S
  <2>4. ~(position[w] < position[m])
    BY <1>2, <1>5, <2>3, FirstPassesNobody
  <2> QED
    BY <1>1, <2>1, <2>2, <2>4, AheadOfSameKind
<1>6. S = FirstOf(From(target, "human")) \/ From(target, "human") = {}
  BY <1>1 DEF PlanMembers
<1>7. From(target, "human") = {} =>
        S = Flush(target) \/ S = FirstOf(From(target, "daemon"))
  BY <1>1 DEF PlanMembers
<1> QED
  BY <1>3, <1>4, <1>5, <1>6, <1>7

LEMMA PassesStays ==
  ASSUME PassesNobody, UNCHANGED << pc, text, position >>,
         \A m \in Msg : state'[m] = "queued" => state[m] = "queued"
  PROVE  PassesNobody'
<1>1. Members' = Members
  BY DEF Members, MembersOf
<1> QED
  BY <1>1 DEF PassesNobody, NobodyPassed, AheadOf

LEMMA CommitPasses ==
  ASSUME NEW t, NEW reason, Commit(t, reason), NobodyPassed(MembersOf(t))
  PROVE  PassesNobody'
<1>1. CASE \E S, why : HoldBack(S, why)
  BY <1>1 DEF HoldBack, PassesNobody
<1>2. CASE /\ Wait(Deliverable(target), "none")
           /\ pc' = "mark" /\ todo' = MembersOf(t) /\ text' = t
           /\ \E first \in FirstOf(MembersOf(t)) : sendId' = first
  <2>1. Members' = MembersOf(t) /\ state' = state /\ position' = position
    BY <1>2 DEF Members, MembersOf, Wait
  <2> QED
    BY <1>2, <2>1 DEF PassesNobody, NobodyPassed, AheadOf
<1> QED
  BY <1>1, <1>2 DEF Commit

(* While the delivery is in hand the queue only shrinks, and nobody is numbered. *)
LEMMA PassesNext ==
  ASSUME TypeOK, Numbered, Dated, PassesNobody, [Next]_vars
  PROVE  PassesNobody'
<1>1. CASE pc' \notin {"draft", "mark", "hand"}
  BY <1>1 DEF PassesNobody
<1>2. ASSUME pc \in {"draft", "mark", "hand"}, UNCHANGED << text >>,
             pc' \in {"draft", "mark", "hand"}
      PROVE  PassesNobody'
  <2>1. \A m \in Msg : ~Request(m)
    BY <1>2 DEF Request, LockFree
  <2>2. UNCHANGED position /\ \A m \in Msg : state'[m] = "queued" => state[m] = "queued"
    BY <1>2, <2>1, QueueMoves
  <2>3. Members' = Members
    BY <1>2 DEF Members, MembersOf
  <2> QED
    BY <1>2, <2>2, <2>3 DEF PassesNobody, NobodyPassed, AheadOf
<1>3. CASE Plan
  <2> DEFINE S == PlanMembers(target)
             t == [m \in Msg |-> IF m \in S THEN revision[m] ELSE 0]
  <2>1. \A m \in S : m \in Msg /\ revision[m] # 0
    BY PlanFacts DEF Numbered, Accepted
  <2>2. MembersOf(t) = S
    BY <2>1, PlanFacts DEF MembersOf
  <2>3. NobodyPassed(MembersOf(t))
    BY <2>2, PlanPassesNobody
  <2>4. CASE \E R, why : HoldBack(R, why)
    BY <2>4 DEF HoldBack, PassesNobody
  <2>5. CASE pc' = "draft" /\ text' = t /\ UNCHANGED queueVars
    <3>1. Members' = MembersOf(t) /\ state' = state /\ position' = position
      BY <2>5 DEF Members, MembersOf, queueVars
    <3> QED
      BY <2>3, <2>5, <3>1 DEF PassesNobody, NobodyPassed, AheadOf
  <2>6. CASE Commit(t, WaitReasonOf(box, target))
    BY <2>3, <2>6, CommitPasses
  <2> QED
    BY <1>3, <2>4, <2>5, <2>6 DEF Plan
<1>4. CASE ClearDraft
  <2>1. CASE \E R, why : HoldBack(R, why)
    BY <2>1 DEF HoldBack, PassesNobody
  <2>2. CASE Commit(text, WaitReasonOf("free", target))
    BY <1>4, <2>2, CommitPasses DEF ClearDraft, PassesNobody, Members
  <2> QED
    BY <1>4, <2>1, <2>2 DEF ClearDraft
<1>5. CASE LookStep /\ ~Plan /\ ~ClearDraft /\ pc' \in {"draft", "mark", "hand"}
  <2>1. MarkTyping
    BY <1>5 DEF LookStep, Begin, ReadFate, SettleOne, SettleDone, HandRefused, HandFailed,
       HandAccept, KeysGo, KeysThrow, PaneRefuses, KeptUntyped, Refused, Answered, Goto,
       Conclude, ConcludeOne, ConcludeLast, Schedule, LookOver
  <2> QED
    BY <1>2, <1>5, <2>1 DEF MarkTyping
<1>6. CASE UNCHANGED lookVars
  BY <1>1, <1>2, <1>6 DEF lookVars
<1>7. CASE LookOver
  BY <1>1, <1>7 DEF LookOver
<1> QED
  BY <1>1, <1>3, <1>4, <1>5, <1>6, <1>7, StepKinds, Bystanders, LookEnds

(* From the plan to the hand-over no message is left waiting that had to go
   before a member, although senders and the session move meanwhile. *)
THEOREM NobodyIsPassed == ~ClockSteps => (Spec => []PassesNobody)
<1> SUFFICES ASSUME ~ClockSteps PROVE Spec => []PassesNobody
  OBVIOUS
<1>1. Init => PassesNobody
  BY DEF Init, PassesNobody
<1>2. TypeOK /\ Numbered /\ Dated /\ PassesNobody /\ [Next]_vars => PassesNobody'
  BY PassesNext
<1> QED
  BY <1>1, <1>2, TypeCorrect, AcceptanceNumbers, AcceptanceDates, PTL DEF Spec

(* When a delivery reaches the ledger nobody who should have gone before it is
   still waiting, whatever moved while the look ran. *)
THEOREM OrderIsKept == ~ClockSteps => (Spec => OrderKept)
<1> SUFFICES ASSUME ~ClockSteps PROVE Spec => OrderKept
  OBVIOUS
<1> DEFINE Kept == RowWritten =>
                     \A m \in Members, w \in Msg :
                       state[w] = "queued" /\ (SenderOf[w] = "human" \/ SenderOf[w] = SenderOf[m])
                         => ~AheadOf(w, m)
<1>1. PassesNobody /\ MembersStand => Kept
  BY DEF RowWritten, PassesNobody, NobodyPassed, MembersStand
<1>2. PassesNobody /\ MembersStand => [Kept]_vars
  BY <1>1
<1> QED
  BY <1>2, NobodyIsPassed, DeliveryStands, PTL DEF OrderKept

-----------------------------------------------------------------------------
(* The plan leaves nothing out.                                              *)

(* Among finitely many numbers one is the least. *)
LEMMA LeastOf ==
  ASSUME NEW S, S # {}, NEW f, \A m \in S : f[m] \in Nat
  PROVE  \E m \in S : \A n \in S : f[m] <= f[n]
<1> DEFINE Values == {f[m] : m \in S}
           Less == OpToRel(<, Nat)
<1>1. Values # {} /\ Values \subseteq Nat
  OBVIOUS
<1>2. IsWellFoundedOn(Less, Nat)
  BY NatLessThanWellFounded
<1>3. \A v, w \in Nat : << w, v >> \in Less <=> w < v
  BY DEF OpToRel
<1> HIDE DEF Less
<1>4. \E v \in Values : \A w \in Values : ~(<< w, v >> \in Less)
  BY <1>1, <1>2, WFMin
<1>5. PICK v \in Values : \A w \in Values : ~(<< w, v >> \in Less)
  BY <1>4
<1>6. \A w \in Values : ~(w < v) /\ v \in Nat /\ w \in Nat
  <2> HIDE DEF Values
  <2> QED
    BY <1>1, <1>3, <1>5
<1>7. \A w \in Values : v <= w
  <2> HIDE DEF Values
  <2> QED
    BY <1>6
<1> QED
  BY <1>5, <1>7

(* Of messages accepted and waiting one always goes first. *)
LEMMA FirstExists ==
  ASSUME TypeOK, Numbered, NEW S, S \subseteq Accepted, S # {}
  PROVE  FirstOf(S) # {}
<1> DEFINE rank == [m \in Msg |-> SenderRank(SenderOf[m])]
<1>1. S \subseteq Msg
  BY DEF Accepted
<1>2. \A m \in Msg : rank[m] \in Nat /\ enqueuedAt[m] \in Nat /\ position[m] \in Nat
  <2>1. \A s \in Senders : SenderRank(s) \in Nat
    BY DEF Senders, SenderRank
  <2> QED
    BY <2>1, QueueConstants DEF TypeOK, QueueTypeOK, Time
<1>3. \A m \in Msg : rank[m] = SenderRank(SenderOf[m])
  OBVIOUS
<1> HIDE DEF rank
<1>4. PICK r \in S : \A n \in S : rank[r] <= rank[n]
  BY <1>1, <1>2, LeastOf
<1> DEFINE R == {m \in S : rank[m] = rank[r]}
<1>5. R # {} /\ R \subseteq S
  OBVIOUS
<1>6. PICK e \in R : \A n \in R : enqueuedAt[e] <= enqueuedAt[n]
  <2> HIDE DEF R
  <2> QED
    BY <1>1, <1>2, <1>5, LeastOf
<1> DEFINE E == {m \in R : enqueuedAt[m] = enqueuedAt[e]}
<1>7. E # {} /\ E \subseteq S
  BY <1>5
<1>8. PICK m \in E : \A n \in E : position[m] <= position[n]
  <2> HIDE DEF E
  <2> QED
    BY <1>1, <1>2, <1>7, LeastOf
<1>9. m \in FirstOf(S)
  <2> SUFFICES ASSUME NEW n \in S \ {m} PROVE GoesBefore(m, n)
    BY <1>7 DEF FirstOf
  <2>1. m \in S /\ m \in Msg /\ n \in Msg /\ rank[m] = rank[r] /\ enqueuedAt[m] = enqueuedAt[e]
    BY <1>1, <1>8
  <2>2. position[m] # position[n]
    BY <2>1 DEF Numbered
  <2>3. rank[m] <= rank[n]
    BY <1>4, <2>1
  <2>4. rank[n] = rank[m] => enqueuedAt[m] <= enqueuedAt[n]
    BY <1>6, <2>1
  <2>5. rank[n] = rank[m] /\ enqueuedAt[n] = enqueuedAt[m] => position[m] <= position[n]
    BY <1>8, <2>1
  <2> QED
    BY <1>2, <1>3, <2>1, <2>2, <2>3, <2>4, <2>5 DEF GoesBefore
<1> QED
  BY <1>9

LEMMA PrefixExists ==
  ASSUME TypeOK, Numbered, NEW S, S \subseteq Accepted, S # {}, NEW k \in Nat, k >= 1
  PROVE  Prefix(S, k) # {}
<1>1. PICK m \in FirstOf(S) : TRUE
  BY FirstExists
<1>2. m \in S /\ m \in Msg /\ S \subseteq Msg
  BY FirstOfSubset DEF Accepted
<1>3. \A n \in S : ~GoesBefore(n, m)
  BY <1>2, GoesBeforeFacts DEF FirstOf
<1>4. {n \in S : GoesBefore(n, m)} = {}
  BY <1>3
<1>5. Cardinality({n \in S : GoesBefore(n, m)}) < k
  BY <1>4, FS_EmptySet
<1> QED
  BY <1>2, <1>5 DEF Prefix

(* When nothing goes and nothing is on its way, what waits is a ferret's held
   message, or all of it is written down as waiting for the session to start. *)
LEMMA NothingGoes ==
  ASSUME TypeOK, Numbered, PlanMembers(target) = {}, \A m \in Msg : state[m] # "typing",
         NEW w \in Deliverable(target), HoldReason(target) = "none"
  PROVE  SenderOf[w] = "agent" /\ holdUntil[w] > now
<1>1. \A sender : From(target, sender) \subseteq Accepted
  BY DEF From, Deliverable, Accepted
<1>2. From(target, "human") = {}
  BY <1>1, FirstExists DEF PlanMembers
<1>3. ~AnyDue(target)
  <2> SUFFICES ASSUME AnyDue(target) PROVE FALSE
    OBVIOUS
  <2>1. ~StoppedFyis(target)
    BY DEF HoldReason
  <2>2. Flush(target) = {} /\ From(target, "agent") # {}
    BY <1>2, <2>1 DEF PlanMembers, AnyDue
  <2>3. \E k \in Nat : k >= 1 /\ Flush(target) = Prefix(From(target, "agent"), k)
    BY QueueConstants DEF Flush
  <2> QED
    BY <1>1, <2>2, <2>3, PrefixExists
<1>4. From(target, "daemon") = {}
  BY <1>1, <1>2, <1>3, FirstExists DEF PlanMembers
<1>5. w \in Msg /\ SenderOf[w] \in Senders
  BY QueueConstants DEF Deliverable
<1>6. SenderOf[w] = "agent"
  BY <1>2, <1>4, <1>5 DEF From, Senders
<1>7. ~IsDue(w, target)
  BY <1>3, <1>6 DEF AnyDue, From
<1>8. EffectiveLabel(w, target) \in Labels
  BY <1>5, QueueConstants DEF EffectiveLabel, StoredLabel, Labels
<1>9. ~HoldOver(w)
  BY <1>7, <1>8 DEF IsDue, Labels
<1> QED
  BY <1>5, <1>6, <1>9 DEF HoldOver, TypeOK, QueueTypeOK, Time, NoTime

-----------------------------------------------------------------------------
(* Waking up. *)

(* When a look comes to its schedule, each message it leaves waiting is one it
   will look at again for a reason it can see. *)
WaitsAreKnown ==
  pc = "schedule" =>
    \A w \in Deliverable(target) :
      \/ more \/ waitReason[w] # "none"
      \/ \E m \in Msg : state[m] = "typing"
      \/ SenderOf[w] = "agent" /\ holdUntil[w] > now

LEMMA WaitsStay ==
  ASSUME WaitsAreKnown, target'.interactive = target.interactive,
         UNCHANGED << pc, more, state, waitReason, holdUntil, now >>
  PROVE  WaitsAreKnown'
BY DEF WaitsAreKnown, Deliverable, BoardOnly

LEMMA HoldBackKnown ==
  ASSUME TypeOK, UNCHANGED << target, now >>, NEW S, NEW reason, HoldBack(S, reason),
         \A w \in Deliverable(target) :
           \/ w \in S /\ reason # "none"
           \/ \E m \in Msg : state[m] = "typing"
           \/ SenderOf[w] = "agent" /\ holdUntil[w] > now
  PROVE  WaitsAreKnown'
<1>1. /\ waitReason' = [m \in Msg |-> IF m \in S /\ state[m] = "queued" THEN reason
                                      ELSE waitReason[m]]
      /\ UNCHANGED << state, holdUntil >>
  BY DEF HoldBack, Wait
<1>2. Deliverable(target)' = Deliverable(target)
  BY <1>1 DEF Deliverable, BoardOnly
<1>3. \A w \in Deliverable(target) : w \in Msg /\ state[w] = "queued"
  BY DEF Deliverable
<1> QED
  BY <1>1, <1>2, <1>3 DEF WaitsAreKnown

LEMMA CommitKnown ==
  ASSUME TypeOK, UNCHANGED << target, now >>, NEW t, NEW reason, Commit(t, reason)
  PROVE  WaitsAreKnown'
<1>1. CASE \E why : why # "none" /\ HoldBack(Deliverable(target), why)
  BY <1>1, HoldBackKnown
<1>2. CASE pc' = "mark"
  BY <1>2 DEF WaitsAreKnown
<1> QED
  BY <1>1, <1>2 DEF Commit

LEMMA PlanKnown ==
  ASSUME TypeOK, Numbered, Plan PROVE WaitsAreKnown'
<1>1. UNCHANGED << target, now >>
  BY DEF Plan, paneVars
<1>2. \A w \in Deliverable(target) : w \in Msg
  BY DEF Deliverable
<1>3. CASE HoldBack(Msg, "unreadable")
  BY <1>1, <1>2, <1>3, HoldBackKnown
<1>4. CASE HoldBack({}, "none") /\ \E m \in Msg : state[m] = "typing"
  BY <1>1, <1>4, HoldBackKnown
<1>5. CASE /\ HoldBack(Deliverable(target), HoldReason(target))
           /\ PlanMembers(target) = {} /\ \A m \in Msg : state[m] # "typing"
  <2>1. \A w \in Deliverable(target) :
          HoldReason(target) # "none" \/ (SenderOf[w] = "agent" /\ holdUntil[w] > now)
    BY <1>5, NothingGoes
  <2> QED
    BY <1>1, <1>5, <2>1, HoldBackKnown
<1>6. CASE pc' = "draft"
  BY <1>6 DEF WaitsAreKnown
<1>7. CASE \E t, why : Commit(t, why)
  BY <1>1, <1>7, CommitKnown
<1> QED
  BY <1>3, <1>4, <1>5, <1>6, <1>7 DEF Plan

LEMMA DraftKnown ==
  ASSUME TypeOK, ClearDraft PROVE WaitsAreKnown'
<1>1. UNCHANGED << target, now >>
  BY DEF ClearDraft
<1>2. \A w \in Deliverable(target) : w \in Msg
  BY DEF Deliverable
<1>3. CASE HoldBack(Msg, "unreadable") \/ HoldBack(Deliverable(target), "draft")
  BY <1>1, <1>2, <1>3, HoldBackKnown
<1>4. CASE \E t, why : Commit(t, why)
  BY <1>1, <1>4, CommitKnown
<1> QED
  BY <1>3, <1>4 DEF ClearDraft

LEMMA ConcludeKnown ==
  ASSUME TypeOK, MembersStand, Conclude \/ ConcludeLast PROVE WaitsAreKnown'
<1>1. CASE Conclude
  <2>1. sendId \in Members /\ state[sendId] = "typing" /\ sendId \in Msg
    BY <1>1 DEF Conclude, MembersStand, Members, MembersOf
  <2>2. state'[sendId] = "typing"
    BY <1>1, <2>1 DEF Conclude, queueVars
  <2> QED
    BY <2>1, <2>2 DEF WaitsAreKnown
<1>2. CASE ConcludeLast /\ outcome = "refused"
  <2>1. refusedFor # "none" /\ Wait(Deliverable(target), refusedFor) /\ target' = target
    BY <1>2 DEF ConcludeLast, MembersStand, paneVars
  <2>2. \A w \in Deliverable(target) : waitReason'[w] # "none"
    BY <2>1 DEF Wait, Deliverable
  <2>3. Deliverable(target)' = Deliverable(target)
    BY <2>1 DEF Wait, Deliverable, BoardOnly
  <2> QED
    BY <2>2, <2>3 DEF WaitsAreKnown
<1>3. CASE ConcludeLast /\ outcome # "refused"
  BY <1>3 DEF ConcludeLast, WaitsAreKnown
<1> QED
  BY <1>1, <1>2, <1>3

(* No time passes between the plan and the schedule. *)
LEMMA KnownNext ==
  ASSUME ~LookTakesTime, TypeOK, Numbered, MembersStand, WaitsAreKnown, [Next]_vars
  PROVE  WaitsAreKnown'
<1>1. CASE pc' # "schedule"
  BY <1>1 DEF WaitsAreKnown
<1>2. CASE SenderStep
  <2>1. pc' = "idle"
    BY <1>2 DEF SenderStep, Request, EditText, TakeBack, LockFree, lookVars
  <2> QED
    BY <1>1, <2>1
<1>3. CASE WakeStep \/ SendStep \/ Stop \/ Boot \/ UNCHANGED vars
  <2>1. UNCHANGED << pc, more, state, waitReason, holdUntil, target, now >>
    BY <1>3 DEF WakeStep, Enqueued, Changed, TimerFires, SendStep, TrackerSettles, Retype,
       RetrySend, TypedAgain, Stop, Boot, vars, queueVars, paneVars, lookVars
  <2> QED
    BY <2>1, WaitsStay
<1>4. CASE WorldStep /\ pc' = "schedule"
  <2>1. UNCHANGED << pc, more, state, waitReason, holdUntil >>
    BY <1>4 DEF WorldStep, OwnerCancelsSend, TextLost, RowLost, BoxChanges, TargetChanges, Tick,
       TickBack, ClockIs, queueVars, lookVars
  <2>2. target'.interactive = target.interactive
    BY <1>4 DEF WorldStep, OwnerCancelsSend, TextLost, RowLost, BoxChanges, TargetChanges, Tick,
       TickBack, ClockIs, paneVars, TypeOK, PaneTypeOK
  <2>3. now' = now
    BY <1>4, <2>1 DEF WorldStep, OwnerCancelsSend, TextLost, RowLost, BoxChanges, TargetChanges, Tick,
       TickBack, ClockIs, paneVars
  <2> QED
    BY <2>1, <2>2, <2>3, WaitsStay
<1>5. CASE Crash \/ HostCrash \/ LookThrows \/ Schedule
  <2>1. pc' = "idle"
    BY <1>5, LookEnds DEF LookOver
  <2> QED
    BY <1>1, <2>1
<1>6. CASE Plan \/ ClearDraft \/ Conclude \/ ConcludeLast
  BY <1>6, PlanKnown, DraftKnown, ConcludeKnown
<1>7. CASE LookStep /\ ~(Plan \/ ClearDraft \/ Conclude \/ ConcludeLast \/ Schedule)
  <2>1. pc' # "schedule"
    BY <1>7 DEF LookStep, Begin, ReadFate, SettleOne, SettleDone, MarkTyping, HandRefused,
       HandFailed, HandAccept, KeysGo, KeysThrow, PaneRefuses, KeptUntyped, Refused, Answered,
       Goto, ConcludeOne
  <2> QED
    BY <1>1, <2>1
<1> QED
  BY <1>1, <1>2, <1>3, <1>4, <1>5, <1>6, <1>7, StepKinds

(* A look that leaves work sets a timer. *)
LEMMA ScheduleWakes ==
  ASSUME TypeOK, WaitsAreKnown, Schedule, HasWork' PROVE timer' # NoTime
<1> DEFINE polls == more \/ \E m \in Msg : Unsettled(m)
           due == HoldEnds \cup (IF polls THEN {Min2(now + LookMs, Horizon)} ELSE {})
<1>1. /\ pc = "schedule" /\ UNCHANGED << state, target >>
      /\ IF due = {} THEN open' = FALSE /\ UNCHANGED timer
         ELSE /\ open' = TRUE
              /\ \E t \in due : timer' = t /\ \A u \in due : t <= u
  BY DEF Schedule, queueVars, paneVars
<1>2. HasWork
  BY <1>1 DEF HasWork, BoardOnly
<1>3. polls \/ HoldEnds # {}
  <2>1. CASE \E m \in Msg : state[m] = "typing"
    BY <2>1 DEF Unsettled
  <2>2. ASSUME NEW w \in Msg, state[w] = "queued", ~BoardOnly(w, target) PROVE polls \/ HoldEnds # {}
    <3>1. w \in Deliverable(target)
      BY <2>2 DEF Deliverable
    <3>2. CASE more \/ waitReason[w] # "none" \/ \E m \in Msg : state[m] = "typing"
      BY <2>2, <3>2 DEF Unsettled
    <3>3. CASE SenderOf[w] = "agent" /\ holdUntil[w] > now
      BY <2>2, <3>3 DEF HoldEnds
    <3> QED
      BY <1>1, <3>1, <3>2, <3>3 DEF WaitsAreKnown
  <2> QED
    BY <1>2, <2>1, <2>2 DEF HasWork
<1>4. \A t \in HoldEnds : t # NoTime
  BY DEF HoldEnds, TypeOK, QueueTypeOK, Time, NoTime
<1>5. Min2(now + LookMs, Horizon) # NoTime
  BY TimeFacts, DelivererConstants DEF TypeOK, QueueTypeOK
<1>6. due # {} /\ \A t \in due : t # NoTime
  BY <1>3, <1>4, <1>5
<1> QED
  BY <1>1, <1>6

LEMMA WakeNext ==
  ASSUME MaxFaults = 0, TypeOK, WaitsAreKnown, WakeUpComing, [Next]_vars
  PROVE  WakeUpComing'
<1>1. ~LookThrows
  BY DEF LookThrows, TypeOK, GhostTypeOK
<1>2. ASSUME UNCHANGED wakeVars, UNCHANGED << pc, target >>,
             \A m \in Msg : state'[m] \in {"typing", "queued"} => state'[m] = state[m]
      PROVE  WakeUpComing'
  BY <1>2 DEF WakeUpComing, HasWork, BoardOnly, wakeVars
<1>3. ASSUME NEW m \in Msg, Request(m) PROVE WakeUpComing'
  BY <1>3 DEF Request, WakeUpComing
<1>4. ASSUME NEW m \in Msg, EditText(m) \/ TakeBack(m) PROVE WakeUpComing'
  <2>1. \A n \in Msg : state'[n] \in {"typing", "queued"} => state'[n] = state[n]
    BY <1>4 DEF EditText, Edit, TakeBack, Cancel, Move, TypeOK, QueueTypeOK
  <2> QED
    BY <1>2, <1>4, <2>1 DEF EditText, TakeBack, paneVars, lookVars
<1>5. CASE WakeStep \/ Stop \/ Boot
  <2>1. CASE Enqueued
    <3>1. stopped' = stopped /\ pending' = (pending \/ ~stopped)
      BY <2>1 DEF Enqueued
    <3> QED
      BY <3>1, Zenon DEF WakeUpComing
  <2>2. CASE Changed \/ TimerFires \/ Boot
    BY <2>2 DEF Changed, TimerFires, Boot, WakeUpComing
  <2>3. CASE Stop
    BY <2>3 DEF Stop, WakeUpComing
  <2> QED
    BY <1>5, <2>1, <2>2, <2>3 DEF WakeStep
<1>6. CASE SendStep \/ UNCHANGED vars
  <2>1. UNCHANGED << wakeVars, pc, target, state >>
    BY <1>6 DEF SendStep, TrackerSettles, Retype, RetrySend, TypedAgain, vars, queueVars,
       paneVars, lookVars
  <2> QED
    BY <1>2, <2>1
<1>7. CASE WorldStep
  <2>1. UNCHANGED << wakeVars, pc, state >> /\ target'.interactive = target.interactive
    BY <1>7 DEF WorldStep, OwnerCancelsSend, TextLost, RowLost, BoxChanges, TargetChanges, Tick,
       TickBack, ClockIs, queueVars, paneVars, lookVars, TypeOK, PaneTypeOK
  <2> QED
    BY <2>1 DEF WakeUpComing, HasWork, BoardOnly, wakeVars
<1>8. CASE Crash \/ HostCrash
  BY <1>8 DEF Crash, HostCrash, MemoryLost, WakeUpComing
<1>9. CASE Schedule
  BY <1>9, ScheduleWakes DEF WakeUpComing
<1>10. CASE LookStep /\ ~Schedule
  <2>1. pc' # "idle"
    BY <1>10 DEF LookStep, Begin, ReadFate, SettleOne, SettleDone, Plan, ClearDraft, Commit,
       HoldBack, MarkTyping, HandRefused, HandFailed, HandAccept, KeysGo, KeysThrow,
       PaneRefuses, KeptUntyped, Refused, Answered, Goto, Conclude, ConcludeOne, ConcludeLast
  <2> QED
    BY <2>1 DEF WakeUpComing
<1> QED
  BY <1>1, <1>3, <1>4, <1>5, <1>6, <1>7, <1>8, <1>9, <1>10, StepKinds DEF SenderStep

(* A session at rest with work has a look coming, as long as no look throws
   and none is slow enough for a hold to end under it. *)
THEOREM WakeUpIsComing == MaxFaults = 0 /\ ~LookTakesTime => (Spec => []WakeUpComing)
<1> SUFFICES ASSUME MaxFaults = 0, ~LookTakesTime PROVE Spec => []WakeUpComing
  OBVIOUS
<1>1. Init => WaitsAreKnown /\ WakeUpComing
  BY DEF Init, QueueInit, WaitsAreKnown, WakeUpComing, HasWork
<1>2. TypeOK /\ Numbered /\ MembersStand /\ WaitsAreKnown /\ [Next]_vars => WaitsAreKnown'
  BY KnownNext
<1>3. TypeOK /\ WaitsAreKnown /\ WakeUpComing /\ [Next]_vars => WakeUpComing'
  BY WakeNext
<1> QED
  BY <1>1, <1>2, <1>3, TypeCorrect, AcceptanceNumbers, DeliveryStands, PTL DEF Spec

-----------------------------------------------------------------------------
(* "failed" is said only of what the agent does not have. It needs that nobody *)
(* types a timed-out send again: a person's retry between the reading of a     *)
(* fate and the move it causes would.                                          *)

NoRetry == MaxRetries = 0

(* A row times out only once its text is proven absent, and none is typed
   under a row that has: not by the hand-over, whose row is open, and not while
   a look acts on the fate it read. *)
AbsenceProven ==
  /\ \A s \in Msg : fate[s] = "timed_out" => ~HasText(s)
  /\ pc = "type" => fate[sendId] = "accepted"
  /\ pc = "move" =>
       /\ seen.of \in Msg
       /\ seen.fate = "timed_out" =>
            /\ fate[SendIdOf(seen.of)] \in {"timed_out", "cancelled"}
            /\ ~HasText(SendIdOf(seen.of))

(* A row whose text is not typed now stays without it. *)
LEMMA TextStaysAbsent ==
  ASSUME TypeOK, Inductive, NEW s \in Msg, NEW r \in Msg, r # s, Live(r),
         \A m \in MembersOf(carried[s]) : SendIdOf(m) = s,
         Typed(carried[s]), UNCHANGED carried, ~HasText(r)
  PROVE  ~HasText(r)'
<1> SUFFICES ASSUME NEW m \in MembersOf(carried[r]), copies'[m] > 0 PROVE FALSE
  BY DEF HasText, MembersOf
<1>1. m \in Msg /\ Carries(r, m)
  BY DEF Carries, MembersOf
<1>2. SendIdOf(m) = r
  BY <1>1 DEF Inductive, RowsMatch
<1>3. carried[s][m] = 0
  BY <1>1, <1>2 DEF MembersOf
<1>4. copies'[m] = copies[m]
  BY <1>1, <1>3 DEF Typed
<1> QED
  BY <1>4 DEF HasText

LEMMA AbsenceStays ==
  ASSUME AbsenceProven, UNCHANGED << fate, carried, copies >>,
         \/ pc' \notin {"move", "type"}
         \/ UNCHANGED << pc, sendId, seen, deliveredAs >>
  PROVE  AbsenceProven'
<1>1. \A s \in Msg : HasText(s)' <=> HasText(s)
  BY DEF HasText, MembersOf
<1>2. \A s \in Msg : fate'[s] = "timed_out" => ~HasText(s)'
  BY <1>1 DEF AbsenceProven
<1>3. CASE pc' \notin {"move", "type"}
  BY <1>2, <1>3 DEF AbsenceProven
<1>4. CASE UNCHANGED << pc, sendId, seen, deliveredAs >>
  BY <1>2, <1>4 DEF AbsenceProven, HasText, SendIdOf, MembersOf
<1> QED
  BY <1>3, <1>4

LEMMA AbsenceRead ==
  ASSUME TypeOK, AbsenceProven, ReadFate PROVE AbsenceProven'
<1>1. UNCHANGED << fate, carried, copies, deliveredAs >> /\ pc' = "move"
  BY DEF ReadFate, queueVars, ledgerVars, ghostVars
<1>2. PICK m \in Oldest(todo) : seen' = [of |-> m, fate |-> fate[SendIdOf(m)]]
  BY DEF ReadFate
<1>3. m \in Msg
  BY DEF Oldest, TypeOK, LookTypeOK
<1>4. SendIdOf(m) \in Msg /\ SendIdOf(m)' = SendIdOf(m)
  BY <1>1, <1>3 DEF SendIdOf, TypeOK, QueueTypeOK
<1>5. \A s \in Msg : HasText(s)' <=> HasText(s)
  BY <1>1 DEF HasText, MembersOf
<1>6. \A s \in Msg : fate'[s] = "timed_out" => ~HasText(s)'
  BY <1>1, <1>5 DEF AbsenceProven
<1>7. seen'.of = m /\ seen'.fate = fate[SendIdOf(m)]
  BY <1>2
<1>8. SendIdOf(seen.of)' = SendIdOf(m)
  BY <1>4, <1>7 DEF SendIdOf
<1>9. HasText(SendIdOf(seen.of))' <=> HasText(SendIdOf(m))'
  BY <1>4, <1>8 DEF HasText, MembersOf
<1> QED
  BY <1>1, <1>3, <1>4, <1>6, <1>7, <1>8, <1>9 DEF AbsenceProven

LEMMA AbsenceAccepted ==
  ASSUME TypeOK, Inductive, AbsenceProven, HandAccept PROVE AbsenceProven'
<1>1. CASE Live(sendId)
  BY <1>1, AbsenceStays DEF HandAccept, Answered, ledgerVars, ghostVars
<1>2. CASE ~Live(sendId)
  <2>1. /\ fate' = [fate EXCEPT ![sendId] = "accepted"]
        /\ carried' = [carried EXCEPT ![sendId] = text]
        /\ pc' = "type" /\ sendId' = sendId /\ copies' = copies
    BY <1>2 DEF HandAccept, Goto, ghostVars
  <2>2. sendId \in Msg
    BY DEF HandAccept, Inductive, LookKnows, Members, MembersOf
  <2>3. fate \in [Msg -> Fates] /\ carried \in [Msg -> [Msg -> Nat]]
    BY DEF TypeOK, LedgerTypeOK
  <2>4. \A s \in Msg : fate'[s] = "timed_out" =>
          s # sendId /\ fate[s] = "timed_out" /\ carried'[s] = carried[s]
    BY <2>1, <2>2, <2>3
  <2>5. \A s \in Msg : fate'[s] = "timed_out" => ~HasText(s)'
    BY <2>1, <2>4 DEF AbsenceProven, HasText, MembersOf
  <2>6. fate'[sendId'] = "accepted"
    BY <2>1, <2>2, <2>3
  <2> QED
    BY <2>1, <2>5, <2>6 DEF AbsenceProven
<1> QED
  BY <1>1, <1>2

LEMMA AbsenceKeys ==
  ASSUME TypeOK, Inductive, AbsenceProven, KeysGo \/ KeysThrow \/ PaneRefuses \/ KeptUntyped
  PROVE  AbsenceProven'
<1>1. carried' = carried /\ pc = "type" /\ pc' = "outcome"
  BY DEF KeysGo, KeysThrow, PaneRefuses, KeptUntyped, Refused, Answered, ledgerVars
<1>2. /\ sendId \in Msg /\ carried[sendId] = text /\ fate[sendId] = "accepted"
      /\ \A m \in MembersOf(carried[sendId]) : SendIdOf(m) = sendId
  BY <1>1 DEF Inductive, LookKnows, Members, MembersOf, InDelivery, AbsenceProven
<1>3. fate \in [Msg -> Fates]
  BY DEF TypeOK, LedgerTypeOK
<1>4. \E f \in {"accepted", "queued", "unaccounted", "withdrawn"} :
        fate' = [fate EXCEPT ![sendId] = f]
  <2>1. CASE KeysGo \/ PaneRefuses
    BY <2>1 DEF KeysGo, PaneRefuses
  <2>2. CASE KeysThrow \/ KeptUntyped
    BY <1>2, <1>3, <2>2 DEF KeysThrow, KeptUntyped, ledgerVars
  <2> QED
    BY <2>1, <2>2
<1>5. Typed(carried[sendId]) \/ copies' = copies
  BY <1>2 DEF KeysGo, KeysThrow, PaneRefuses, KeptUntyped, ghostVars
<1>6. ASSUME NEW s \in Msg, fate'[s] = "timed_out" PROVE ~HasText(s)'
  <2>1. s # sendId /\ fate[s] = "timed_out"
    BY <1>2, <1>3, <1>4, <1>6
  <2>2. ~HasText(s) /\ Live(s)
    BY <2>1 DEF AbsenceProven, Live, NeverTyped
  <2>3. CASE Typed(carried[sendId])
    BY <1>1, <1>2, <2>1, <2>2, <2>3, TextStaysAbsent
  <2>4. CASE copies' = copies
    BY <1>1, <2>2, <2>4 DEF HasText, MembersOf
  <2> QED
    BY <1>5, <2>3, <2>4
<1> QED
  BY <1>1, <1>6 DEF AbsenceProven

(* A step of the tracker or of the owner on the row of s. *)
LEMMA AbsenceOnRow ==
  ASSUME TypeOK, Inductive, AbsenceProven, NEW s \in Msg,
         TrackerSettles(s) \/ Retype(s) \/ OwnerCancelsSend(s)
  PROVE  AbsenceProven'
<1>1. UNCHANGED << carried, deliveredAs, lookVars >> /\ ~HandingOver(s) /\ Live(s)
  BY DEF TrackerSettles, Retype, TypedAgain, OwnerCancelsSend, queueVars, Live, NeverTyped
<1>2. fate \in [Msg -> Fates]
  BY DEF TypeOK, LedgerTypeOK
<1>3. PICK f : /\ fate' = [fate EXCEPT ![s] = f]
               /\ f = "timed_out" => ~HasText(s) /\ copies' = copies
               /\ f # "cancelled" /\ ~HasText(s) => fate[s] \in {"accepted", "queued"}
  <2>1. CASE TrackerSettles(s)
    BY <2>1 DEF TrackerSettles, ghostVars
  <2>2. CASE Retype(s)
    BY <2>2 DEF Retype, TypedAgain
  <2>3. CASE OwnerCancelsSend(s)
    BY <2>3 DEF OwnerCancelsSend
  <2> QED
    BY <2>1, <2>2, <2>3
<1>4. /\ fate'[s] = f
      /\ \A r \in Msg \ {s} : fate'[r] = fate[r]
  BY <1>2, <1>3
<1>5. copies' = copies \/ (Typed(carried[s]) /\ fate[s] \in {"accepted", "queued"})
  BY DEF TrackerSettles, Retype, TypedAgain, OwnerCancelsSend, ghostVars
<1>6. \A m \in MembersOf(carried[s]) : SendIdOf(m) = s
  BY <1>1 DEF MembersOf, Inductive, RowsMatch, Carries
<1>7. ASSUME NEW r \in Msg, ~HasText(r), Live(r), r # s \/ copies' = copies
      PROVE  ~HasText(r)'
  <2>1. CASE copies' = copies
    BY <1>1, <1>7, <2>1 DEF HasText, MembersOf
  <2>2. CASE r # s /\ Typed(carried[s])
    BY <1>1, <1>6, <1>7, <2>2, TextStaysAbsent
  <2> QED
    BY <1>5, <1>7, <2>1, <2>2
<1>8. \A r \in Msg : fate'[r] = "timed_out" => ~HasText(r)'
  <2> SUFFICES ASSUME NEW r \in Msg, fate'[r] = "timed_out" PROVE ~HasText(r)'
    OBVIOUS
  <2>1. CASE r = s
    BY <1>1, <1>3, <1>4, <1>7, <2>1
  <2>2. CASE r # s
    BY <1>4, <1>7, <2>2 DEF AbsenceProven, Live, NeverTyped
  <2> QED
    BY <2>1, <2>2
<1>9. pc = "type" => fate'[sendId] = "accepted"
  <2> SUFFICES ASSUME pc = "type" PROVE fate'[sendId] = "accepted"
    OBVIOUS
  <2>1. sendId # s /\ sendId \in Msg /\ fate[sendId] = "accepted"
    BY <1>1 DEF HandingOver, AbsenceProven, Inductive, LookKnows, Members, MembersOf
  <2> QED
    BY <1>4, <2>1
<1>10. ASSUME pc = "move", seen.fate = "timed_out"
       PROVE  /\ fate'[SendIdOf(seen.of)] \in {"timed_out", "cancelled"}
              /\ ~HasText(SendIdOf(seen.of))'
  <2> DEFINE r == SendIdOf(seen.of)
  <2>1. /\ r \in Msg /\ r' = r /\ ~HasText(r)
        /\ fate[r] \in {"timed_out", "cancelled"}
    BY <1>1, <1>10 DEF AbsenceProven, SendIdOf, lookVars, TypeOK, QueueTypeOK
  <2>2. CASE r # s
    <3>1. ~HasText(r)'
      BY <1>7, <2>1, <2>2 DEF Live, NeverTyped
    <3> QED
      BY <1>4, <2>1, <2>2, <3>1
  <2>3. CASE r = s
    <3>1. f = "cancelled" /\ copies' = copies
      BY <1>3, <1>5, <2>1, <2>3
    <3>2. ~HasText(r)'
      BY <1>1, <1>7, <2>1, <2>3, <3>1
    <3> QED
      BY <1>4, <2>1, <2>3, <3>1, <3>2
  <2> QED
    BY <2>2, <2>3
<1>11. /\ pc' = pc /\ sendId' = sendId /\ seen' = seen /\ SendIdOf(seen.of)' = SendIdOf(seen.of)
  BY <1>1 DEF lookVars, SendIdOf
<1> QED
  BY <1>8, <1>9, <1>10, <1>11 DEF AbsenceProven

LEMMA AbsenceLost ==
  ASSUME TypeOK, AbsenceProven, NEW s \in Msg, TextLost(s) PROVE AbsenceProven'
<1>1. /\ UNCHANGED << fate, carried, deliveredAs, pc, sendId, seen >>
      /\ \A m \in Msg : copies'[m] \in {0, copies[m]}
  BY DEF TextLost, queueVars, ledgerVars, lookVars
<1>2. \A r \in Msg : HasText(r)' => HasText(r)
  BY <1>1 DEF HasText, MembersOf
<1>3. pc = "move" /\ seen.fate = "timed_out" => SendIdOf(seen.of) \in Msg
  BY DEF AbsenceProven, SendIdOf, TypeOK, QueueTypeOK
<1>4. SendIdOf(seen.of)' = SendIdOf(seen.of)
  BY <1>1 DEF SendIdOf
<1>5. HasText(SendIdOf(seen.of))' /\ SendIdOf(seen.of) \in Msg => HasText(SendIdOf(seen.of))
  BY <1>1, <1>2, <1>4 DEF HasText, MembersOf
<1> QED
  BY <1>1, <1>2, <1>3, <1>4, <1>5 DEF AbsenceProven

LEMMA AbsenceNext ==
  ASSUME NoRowLost, NoRetry, TypeOK, Inductive, AbsenceProven, [Next]_vars
  PROVE  AbsenceProven'
<1>1. ~HostCrash /\ \A s \in Msg : ~RetrySend(s) /\ ~RowLost(s)
  BY DEF NoRowLost, NoRetry, HostCrash, RetrySend, RowLost, TypeOK, GhostTypeOK
<1>2. CASE SenderStep
  BY <1>2, AbsenceStays DEF SenderStep, Request, EditText, TakeBack, LockFree, ledgerVars,
     ghostVars, lookVars
<1>3. CASE WakeStep \/ Stop \/ Boot \/ UNCHANGED vars
  BY <1>3, AbsenceStays DEF WakeStep, Enqueued, Changed, TimerFires, Stop, Boot, vars,
     queueVars, ledgerVars, ghostVars, lookVars
<1>4. CASE BoxChanges \/ TargetChanges \/ Tick \/ TickBack
  BY <1>4, AbsenceStays DEF BoxChanges, TargetChanges, Tick, TickBack, ClockIs,
     queueVars, ledgerVars, ghostVars, lookVars
<1>5. CASE Crash \/ LookThrows \/ Schedule
  BY <1>5, LookEnds, AbsenceStays DEF Crash, LookThrows, Schedule, LookOver, ledgerVars,
     ghostVars
<1>6. CASE SendStep \/ \E s \in Msg : OwnerCancelsSend(s) \/ TextLost(s)
  BY <1>1, <1>6, AbsenceOnRow, AbsenceLost DEF SendStep
<1>7. CASE LookStep /\ ~Schedule
  <2>1. CASE Begin \/ SettleDone \/ Plan \/ ClearDraft \/ MarkTyping \/ HandRefused
             \/ HandFailed \/ Conclude \/ ConcludeOne \/ ConcludeLast
             \/ \E m \in Msg : SettleOne(m)
    <3>1. UNCHANGED << fate, carried, copies >>
      BY <2>1 DEF Begin, SettleDone, Plan, ClearDraft, MarkTyping, HandRefused, HandFailed,
         Conclude, ConcludeOne, ConcludeLast, SettleOne, ledgerVars, ghostVars
    <3>2. pc' \notin {"move", "type"}
      BY <2>1 DEF Begin, SettleDone, Plan, ClearDraft, Commit, HoldBack, MarkTyping,
         HandRefused, HandFailed, Refused, Answered, Conclude, ConcludeOne, ConcludeLast,
         SettleOne
    <3> QED
      BY <3>1, <3>2, AbsenceStays
  <2>2. CASE ReadFate
    BY <2>2, AbsenceRead
  <2>3. CASE HandAccept
    BY <2>3, AbsenceAccepted
  <2>4. CASE KeysGo \/ KeysThrow \/ PaneRefuses \/ KeptUntyped
    BY <2>4, AbsenceKeys
  <2> QED
    BY <1>7, <2>1, <2>2, <2>3, <2>4 DEF LookStep
<1> QED
  BY <1>1, <1>2, <1>3, <1>4, <1>5, <1>6, <1>7, StepKinds DEF WorldStep

(* What is moved to "failed" is not with the agent. *)
LEMMA FailsAbsent ==
  ASSUME TypeOK, Inductive, AbsenceProven, [Next]_vars, NEW m \in Msg,
         state[m] # "failed", state'[m] = "failed"
  PROVE  copies[m] = 0 \/ seen.fate = "cancelled"
<1>0. state \in [Msg -> MessageStates]
  BY DEF TypeOK, QueueTypeOK
<1>1. ASSUME UNCHANGED state PROVE FALSE
  BY <1>1
<1>2. CASE SenderStep
  <2>1. ASSUME NEW n \in Msg, Request(n) \/ EditText(n) \/ TakeBack(n) PROVE FALSE
    BY <1>0, <2>1 DEF Request, Enqueue, EditText, Edit, TakeBack, Cancel, Move
  <2> QED
    BY <1>2, <2>1 DEF SenderStep
<1>3. CASE \/ WakeStep \/ SendStep \/ WorldStep \/ Stop \/ Boot \/ UNCHANGED vars
           \/ Crash \/ HostCrash \/ LookThrows
  BY <1>1, <1>3, LookEnds DEF WakeStep, Enqueued, Changed, TimerFires, SendStep,
     TrackerSettles, Retype, RetrySend, TypedAgain, WorldStep, OwnerCancelsSend, TextLost, RowLost,
     BoxChanges, TargetChanges, Tick, TickBack, ClockIs, Stop, Boot, vars, queueVars
<1>4. ASSUME NEW n \in Msg, SettleOne(n) PROVE copies[m] = 0 \/ seen.fate = "cancelled"
  <2>1. n = m /\ pc = "move" /\ seen.of = m /\ MovesFrom(state[m], seen.fate) = "failed"
    BY <1>0, <1>4 DEF SettleOne
  <2>2. seen.fate \in {"timed_out", "cancelled"}
    BY <1>0, <2>1 DEF MovesFrom, MessageStates
  <2>3. CASE seen.fate = "timed_out"
    <3>1. ~HasText(SendIdOf(m))
      BY <2>1, <2>3 DEF AbsenceProven
    <3>2. copies[m] # 0 => copies[m] > 0 /\ Carries(SendIdOf(m), m)
      BY DEF Inductive, TypedHasRow
    <3> QED
      BY <3>1, <3>2 DEF HasText, Carries, MembersOf
  <2> QED
    BY <2>2, <2>3
<1>5. CASE ConcludeOne
  <2>1. PICK n \in FirstOf(todo) : Move({n}, OutcomeState, NoMsg)
    BY <1>5 DEF ConcludeOne
  <2>2. n = m /\ OutcomeState = "failed" /\ m \in todo
    BY <1>0, <2>1, FirstOfSubset DEF Move
  <2>3. outcome \in {"landed", "refused", "failed"}
    BY <1>5 DEF ConcludeOne, LeftTyping, Inductive, LookKnows, TypeOK, LookTypeOK
  <2>4. outcome = "failed"
    BY <2>2, <2>3 DEF OutcomeState
  <2>5. fate[sendId] = "none"
    BY <1>5, <2>4 DEF ConcludeOne, LeftTyping
  <2>6. SendIdOf(m) = sendId
    BY <1>5, <2>2 DEF ConcludeOne, Inductive, LookKnows, InDelivery
  <2>7. ~Carries(SendIdOf(m), m)
    BY <2>5, <2>6 DEF Carries, Live, NeverTyped
  <2> QED
    BY <2>7 DEF Inductive, TypedHasRow
<1>6. CASE MarkTyping
  BY <1>0, <1>6 DEF MarkTyping, Move
<1>7. CASE LookStep /\ ~MarkTyping /\ ~ConcludeOne /\ \A n \in Msg : ~SettleOne(n)
  <2>1. UNCHANGED state
    BY <1>7 DEF LookStep, Begin, ReadFate, SettleDone, Plan, ClearDraft, Commit, HoldBack,
       Wait, HandRefused, HandFailed, HandAccept, KeysGo, KeysThrow, PaneRefuses, KeptUntyped,
       Conclude, ConcludeLast, Schedule, queueVars
  <2> QED
    BY <1>1, <2>1
<1> QED
  BY <1>2, <1>3, <1>4, <1>5, <1>6, <1>7, StepKinds

(* "failed" is final, so it is said only of a message the agent does not have,
   or whose send a person cancelled. *)
THEOREM FailedHasNone == NoRowLost /\ NoRetry => (Spec => FailedIsAbsent)
<1> SUFFICES ASSUME NoRowLost, NoRetry PROVE Spec => FailedIsAbsent
  OBVIOUS
<1> DEFINE Absent == \A m \in Msg : state[m] # "failed" /\ state'[m] = "failed" =>
                       copies[m] = 0 \/ seen.fate = "cancelled"
<1>1. Init => AbsenceProven
  BY DEF Init, AbsenceProven
<1>2. TypeOK /\ Inductive /\ AbsenceProven /\ [Next]_vars => AbsenceProven'
  BY AbsenceNext
<1>3. TypeOK /\ Inductive /\ AbsenceProven /\ [Next]_vars => [Absent]_vars
  BY FailsAbsent
<1> QED
  BY <1>1, <1>2, <1>3, TypeCorrect, InvariantHolds, PTL DEF Spec, FailedIsAbsent
=============================================================================
