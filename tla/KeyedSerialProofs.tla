------------------------- MODULE KeyedSerialProofs -------------------------
(***************************************************************************)
(* Proofs about KeyedSerial for any calls, keys and limit. Chained is the  *)
(* inductive invariant: what a call waits for, and what those wait for,    *)
(* are all the calls in its way, because each entry of keyTails, and the   *)
(* barrier, stands behind every unfinished call it replaced. From it       *)
(* follow exclusion, what runIfIdle may read off the entries, and that     *)
(* every step is a step of SerialLanes or none of its business.            *)
(***************************************************************************)
EXTENDS KeyedSerial, FiniteSetTheorems, TLAPS

(* Each kind of call is one of three steps. *)
LEMMA AskKinds ==
  ASSUME NEW j \in Job, Ask(j)
  PROVE  \/ j \in Keyed /\ RunKeyed(j)
         \/ j \in Exclusive /\ phase[j] = "idle" /\ Claim(j)
         \/ j \in Exclusive /\ phase[j] = "idle" /\ StepAside(j)
            /\ step' = [step EXCEPT ![j] = 1]
PROOF
<1>1. ASSUME Cardinality(KeysOf[j]) # 0 PROVE KeysOf[j] # {}
  BY <1>1, FS_EmptySet
<1>2. CASE Run(j)
  BY <1>1, <1>2 DEF Run, Keyed, Exclusive
<1>3. CASE RunAcross(j)
  BY <1>1, <1>3 DEF RunAcross, Keyed, Exclusive
<1>4. CASE RunIfIdle(j)
  BY <1>1, <1>4 DEF RunIfIdle, Run, Keyed, Exclusive
<1>5. CASE RunExclusive(j)
  BY <1>5 DEF RunExclusive
<1>6. CASE RunExclusiveYielding(j)
  BY <1>6 DEF RunExclusiveYielding
<1> QED BY <1>2, <1>3, <1>4, <1>5, <1>6 DEF Ask

(* A step is a keyed call accepted, an exclusive one that claims, one that
   steps aside, a start or a finish. *)
LEMMA StepKinds ==
  ASSUME TypeOK, Chained, Next
  PROVE  \E j \in Job :
           \/ j \in Keyed /\ RunKeyed(j)
           \/ /\ j \in Exclusive /\ phase[j] \in {"idle", "yielding"}
              /\ \/ Claim(j)
                 \/ StepAside(j) /\ step' = [step EXCEPT ![j] = 1]
                 \/ /\ StepAside(j) /\ step[j] < YieldLimit
                    /\ step' = [step EXCEPT ![j] = @ + 1]
           \/ Start(j)
           \/ Finish(j)
PROOF
<1>1. PICK j \in Job : Ask(j) \/ LookAgain(j) \/ Start(j) \/ Finish(j)
  BY DEF Next
<1>2. CASE Ask(j)
  BY <1>2, AskKinds
<1>3. CASE LookAgain(j)
  BY <1>3 DEF LookAgain, Chained, OnlyAcceptedCount
<1> QED BY <1>1, <1>2, <1>3

-----------------------------------------------------------------------------
(* Types. *)

LEMMA TypeStep ==
  ASSUME TypeOK, Chained, PendingIsCounted, [Next]_vars
  PROVE  TypeOK'
PROOF
<1> USE KeyedConstants
<1>1. CASE UNCHANGED vars
  BY <1>1 DEF vars, TypeOK, Exclusive
<1>2. CASE Next
  <2>1. PICK j \in Job :
           \/ j \in Keyed /\ RunKeyed(j)
           \/ /\ j \in Exclusive /\ phase[j] \in {"idle", "yielding"}
              /\ \/ Claim(j)
                 \/ StepAside(j) /\ step' = [step EXCEPT ![j] = 1]
                 \/ /\ StepAside(j) /\ step[j] < YieldLimit
                    /\ step' = [step EXCEPT ![j] = @ + 1]
           \/ Start(j)
           \/ Finish(j)
    BY <1>2, StepKinds
  <2>2. /\ \A keys \in SUBSET Key : TailsOf(keys) \subseteq Job
        /\ Barrier \subseteq Job
        /\ KeysOf[j] \subseteq Key /\ Accepted \subseteq Job
    BY DEF TailsOf, Barrier, TypeOK, Accepted, Exclusive
  <2>3. CASE RunKeyed(j)
    <3>1. waits' \in [Job -> SUBSET Job]
      BY <2>2, <2>3 DEF RunKeyed, KeyedWaits, TypeOK
    <3>2. /\ phase' \in [Job -> {"idle", "yielding", "queued", "running"}]
          /\ keyTails' \in [Key -> Job \cup {NoJob}]
          /\ ahead' \in [Job -> SUBSET Job]
      BY <2>2, <2>3 DEF RunKeyed, TypeOK
    <3> QED BY <2>3, <3>1, <3>2 DEF RunKeyed, TypeOK, Exclusive
  <2>4. CASE j \in Exclusive /\ Claim(j)
    <3>1. waits' \in [Job -> SUBSET Job]
      BY <2>2, <2>4 DEF Claim, ExclusiveWaits, TypeOK
    <3>2. /\ phase' \in [Job -> {"idle", "yielding", "queued", "running"}]
          /\ barrier' \in Exclusive \cup {NoJob}
          /\ exclusivePending' \in Nat
          /\ step' \in [Job -> 0 .. YieldLimit]
          /\ overtaken' \in [Job -> BOOLEAN]
          /\ ahead' \in [Job -> SUBSET Job]
      BY <2>2, <2>4 DEF Claim, TypeOK
    <3> QED BY <2>4, <3>1, <3>2 DEF Claim, TypeOK, Exclusive
  <2>5. CASE /\ StepAside(j)
             /\ \/ step' = [step EXCEPT ![j] = 1]
                \/ step[j] < YieldLimit /\ step' = [step EXCEPT ![j] = @ + 1]
    <3>1. waits' \in [Job -> SUBSET Job]
      BY <2>2, <2>5 DEF StepAside, ExclusiveWaits, TypeOK
    <3>2. step' \in [Job -> 0 .. YieldLimit]
      BY <2>5 DEF TypeOK
    <3>3. /\ phase' \in [Job -> {"idle", "yielding", "queued", "running"}]
          /\ overtaken' \in [Job -> BOOLEAN]
      BY <2>5 DEF StepAside, TypeOK
    <3> QED BY <2>5, <3>1, <3>2, <3>3 DEF StepAside, TypeOK, Exclusive
  <2>6. CASE Start(j)
    BY <2>6 DEF Start, TypeOK, Exclusive
  <2>7. CASE Finish(j)
    <3>1. /\ keyTails' \in [Key -> Job \cup {NoJob}]
          /\ waits' \in [Job -> SUBSET Job]
          /\ ahead' \in [Job -> SUBSET Job]
      BY <2>7 DEF Finish, TailsAfter, TypeOK
    <3>2. exclusivePending' \in Nat
      <4>1. CASE j \in Exclusive
        <5>1. /\ IsFiniteSet(Accepted \cap Exclusive)
              /\ j \in Accepted \cap Exclusive
          BY <2>7, <4>1, FS_Subset DEF Finish, Accepted, Exclusive
        <5>2. /\ Cardinality(Accepted \cap Exclusive) \in Nat
              /\ Cardinality(Accepted \cap Exclusive) # 0
          BY <5>1, FS_CardinalityType, FS_EmptySet
        <5> QED BY <2>7, <4>1, <5>2 DEF Finish, PendingIsCounted
      <4>2. CASE j \notin Exclusive
        BY <2>7, <4>2 DEF Finish, TypeOK
      <4> QED BY <4>1, <4>2
    <3> QED BY <2>7, <3>1, <3>2 DEF Finish, TypeOK, Exclusive
  <2> QED BY <2>1, <2>3, <2>4, <2>5, <2>6, <2>7
<1> QED BY <1>1, <1>2

(* exclusivePending goes up and down with the exclusive calls. *)
LEMMA PendingStep ==
  ASSUME TypeOK, Chained, PendingIsCounted, [Next]_vars
  PROVE  PendingIsCounted'
PROOF
<1> USE KeyedConstants
<1> DEFINE E == Accepted \cap Exclusive
<1>0. IsFiniteSet(E)
  BY FS_Subset DEF Accepted
<1>1. CASE UNCHANGED vars
  BY <1>1 DEF vars, PendingIsCounted, Accepted, Exclusive
<1>2. CASE Next
  <2>1. PICK j \in Job :
           \/ j \in Keyed /\ RunKeyed(j)
           \/ /\ j \in Exclusive /\ phase[j] \in {"idle", "yielding"}
              /\ \/ Claim(j)
                 \/ StepAside(j) /\ step' = [step EXCEPT ![j] = 1]
                 \/ /\ StepAside(j) /\ step[j] < YieldLimit
                    /\ step' = [step EXCEPT ![j] = @ + 1]
           \/ Start(j)
           \/ Finish(j)
    BY <1>2, StepKinds
  <2>2. CASE j \in Keyed /\ RunKeyed(j)
    <3>1. E' = E
      BY <2>2 DEF RunKeyed, Accepted, Exclusive, Keyed, TypeOK
    <3> QED BY <2>2, <3>1 DEF RunKeyed, PendingIsCounted
  <2>3. CASE j \in Exclusive /\ phase[j] \in {"idle", "yielding"} /\ Claim(j)
    <3>1. E' = E \cup {j} /\ j \notin E
      BY <2>3 DEF Claim, Accepted, Exclusive, TypeOK
    <3>2. Cardinality(E \cup {j}) = Cardinality(E) + 1
      BY <1>0, <3>1, FS_AddElement
    <3> QED BY <2>3, <3>1, <3>2 DEF Claim, PendingIsCounted
  <2>4. CASE phase[j] \in {"idle", "yielding"} /\ StepAside(j)
    <3>1. E' = E
      BY <2>4 DEF StepAside, Accepted, Exclusive, TypeOK
    <3> QED BY <2>4, <3>1 DEF StepAside, PendingIsCounted
  <2>5. CASE Start(j)
    <3>1. E' = E
      BY <2>5 DEF Start, Accepted, Exclusive, TypeOK
    <3> QED BY <2>5, <3>1 DEF Start, PendingIsCounted
  <2>6. CASE Finish(j) /\ j \in Exclusive
    <3>1. E' = E \ {j} /\ j \in E
      BY <2>6 DEF Finish, Accepted, Exclusive, TypeOK
    <3>2. Cardinality(E \ {j}) = Cardinality(E) - 1
      BY <1>0, <3>1, FS_RemoveElement
    <3> QED BY <2>6, <3>1, <3>2 DEF Finish, PendingIsCounted
  <2>7. CASE Finish(j) /\ j \notin Exclusive
    <3>1. E' = E
      BY <2>7 DEF Finish, Accepted, Exclusive, TypeOK
    <3> QED BY <2>7, <3>1 DEF Finish, PendingIsCounted
  <2> QED BY <2>1, <2>2, <2>3, <2>4, <2>5, <2>6, <2>7
<1> QED BY <1>1, <1>2

-----------------------------------------------------------------------------
(* The chain. *)

(* Accepting a call behind the entries of its keys and the barrier puts it
   behind every unfinished call in its way. *)
LEMMA BehindTails ==
  ASSUME TypeOK, Chained, NEW j \in Keyed, NEW i \in Accepted, Conflict(i, j)
  PROVE  i \in KeyedWaits(j) \/ \E m \in KeyedWaits(j) : i \in ahead[m]
PROOF
<1>1. CASE i \in Exclusive
  <2>1. barrier # NoJob /\ (barrier = i \/ i \in ahead[barrier])
    BY <1>1 DEF Chained, BarrierStandsBehind
  <2> QED BY <2>1 DEF KeyedWaits, Barrier
<1>2. CASE i \notin Exclusive
  <2>1. PICK k \in KeysOf[i] \cap KeysOf[j] : TRUE
    BY <1>2 DEF Conflict, Keyed
  <2>2. keyTails[k] # NoJob /\ (keyTails[k] = i \/ i \in ahead[keyTails[k]])
    BY <2>1 DEF Chained, TailsStandBehind
  <2>3. keyTails[k] \in KeyedWaits(j)
    BY <2>1, <2>2 DEF KeyedWaits, TailsOf
  <2> QED BY <2>2, <2>3
<1> QED BY <1>1, <1>2

LEMMA BehindEverything ==
  ASSUME TypeOK, Chained, NEW i \in Accepted
  PROVE  i \in ExclusiveWaits \/ \E m \in ExclusiveWaits : i \in ahead[m]
PROOF
<1>1. CASE i \in Exclusive
  <2>1. barrier # NoJob /\ (barrier = i \/ i \in ahead[barrier])
    BY <1>1 DEF Chained, BarrierStandsBehind
  <2> QED BY <2>1 DEF ExclusiveWaits, Barrier
<1>2. CASE i \notin Exclusive
  <2>1. PICK k \in KeysOf[i] : k \in Key
    BY <1>2, KeyedConstants DEF Exclusive, Accepted
  <2>2. keyTails[k] # NoJob /\ (keyTails[k] = i \/ i \in ahead[keyTails[k]])
    BY <2>1 DEF Chained, TailsStandBehind
  <2>3. keyTails[k] \in ExclusiveWaits
    BY <2>1, <2>2 DEF ExclusiveWaits, TailsOf
  <2> QED BY <2>2, <2>3
<1> QED BY <1>1, <1>2

(* Whatever a call waits for is accepted and unfinished. *)
LEMMA WaitsAreAccepted ==
  ASSUME TypeOK, Chained
  PROVE  /\ ExclusiveWaits \subseteq Accepted
         /\ \A j \in Job : KeyedWaits(j) \subseteq Accepted
PROOF
  BY KeyedConstants
     DEF Chained, TailsAreAccepted, BarrierStandsBehind, ExclusiveWaits, KeyedWaits, TailsOf, Barrier

(* A running call has nothing ahead of it. *)
LEMMA RunningIsFirst ==
  ASSUME TypeOK, Chained, NEW j \in Job, j \in Accepted, waits[j] = {}
  PROVE  ahead[j] = {}
PROOF
  BY DEF Chained, AllAheadAreReached

LEMMA ChainedRunKeyed ==
  ASSUME TypeOK, Chained, NEW j \in Keyed, RunKeyed(j)
  PROVE  Chained'
PROOF
<1> USE KeyedConstants
<1> DEFINE Ahead == {i \in Accepted : Conflict(i, j)}
<1>1. /\ j \in Job /\ j \notin Accepted /\ phase[j] = "idle"
      /\ Accepted' = Accepted \cup {j}
      /\ ahead' = [ahead EXCEPT ![j] = Ahead]
      /\ waits' = [waits EXCEPT ![j] = KeyedWaits(j)]
      /\ keyTails' = [k \in Key |-> IF k \in KeysOf[j] THEN j ELSE keyTails[k]]
      /\ barrier' = barrier
  BY DEF RunKeyed, Accepted, Keyed, TypeOK
<1>2. /\ ahead'[j] = Ahead /\ waits'[j] = KeyedWaits(j)
      /\ \A i \in Job \ {j} : ahead'[i] = ahead[i] /\ waits'[i] = waits[i]
      /\ Accepted \subseteq Job
  BY <1>1 DEF TypeOK, Accepted
<1>3. OnlyAcceptedCount'
  <2>1. KeyedWaits(j) \subseteq Accepted
    BY <1>1, WaitsAreAccepted
  <2>2. \A i \in Job \ {j} : phase'[i] = phase[i]
    BY DEF RunKeyed, TypeOK
  <2>3. phase'[j] = "queued"
    BY <1>1 DEF RunKeyed, TypeOK
  <2> QED BY <1>1, <1>2, <2>1, <2>2, <2>3 DEF Chained, OnlyAcceptedCount, Exclusive
<1>4. AllAheadAreReached'
  <2>1. \A i \in Ahead : i \in KeyedWaits(j) \/ \E m \in KeyedWaits(j) : i \in ahead[m]
    BY BehindTails
  <2>2. KeyedWaits(j) \subseteq Accepted
    BY <1>1, WaitsAreAccepted
  <2>3. \A i \in Job : waits[i] \subseteq Accepted
    BY DEF Chained, OnlyAcceptedCount
  <2> QED BY <1>1, <1>2, <2>1, <2>2, <2>3 DEF Chained, AllAheadAreReached
<1>5. ConflictsAreOrdered'
  BY <1>1, <1>2 DEF Chained, ConflictsAreOrdered, Conflict, Exclusive
<1>6. TailsAreAccepted'
  BY <1>1 DEF Chained, TailsAreAccepted
<1>7. TailsStandBehind'
  <2> SUFFICES ASSUME NEW i \in Accepted', NEW k \in KeysOf[i]
               PROVE  keyTails'[k] # NoJob /\ (keyTails'[k] = i \/ i \in ahead'[keyTails'[k]])
    BY DEF TailsStandBehind
  <2>1. k \in Key /\ i \in Job
    BY <1>1, <1>2
  <2>2. CASE k \in KeysOf[j]
    BY <1>1, <1>2, <2>1, <2>2 DEF Conflict
  <2>3. CASE k \notin KeysOf[j]
    BY <1>1, <1>2, <2>1, <2>3 DEF Chained, TailsStandBehind, TailsAreAccepted
  <2> QED BY <2>2, <2>3
<1>8. BarrierStandsBehind'
  BY <1>1, <1>2 DEF Chained, BarrierStandsBehind, Keyed, Exclusive
<1> QED BY <1>3, <1>4, <1>5, <1>6, <1>7, <1>8 DEF Chained

LEMMA ChainedClaim ==
  ASSUME TypeOK, Chained, NEW j \in Exclusive, phase[j] \in {"idle", "yielding"}, Claim(j)
  PROVE  Chained'
PROOF
<1> USE KeyedConstants
<1>1. /\ j \in Job /\ j \notin Accepted
      /\ Accepted' = Accepted \cup {j}
      /\ ahead' = [ahead EXCEPT ![j] = Accepted]
      /\ waits' = [waits EXCEPT ![j] = ExclusiveWaits]
      /\ keyTails' = keyTails
      /\ barrier' = j
  BY DEF Claim, Accepted, Exclusive, TypeOK
<1>2. /\ ahead'[j] = Accepted /\ waits'[j] = ExclusiveWaits
      /\ \A i \in Job \ {j} : ahead'[i] = ahead[i] /\ waits'[i] = waits[i]
      /\ Accepted \subseteq Job
  BY <1>1 DEF TypeOK, Accepted
<1>3. OnlyAcceptedCount'
  <2>1. ExclusiveWaits \subseteq Accepted
    BY WaitsAreAccepted
  <2>2. \A i \in Job \ {j} : phase'[i] = phase[i]
    BY DEF Claim, TypeOK
  <2>3. phase'[j] = "queued"
    BY <1>1 DEF Claim, TypeOK
  <2> QED BY <1>1, <1>2, <2>1, <2>2, <2>3 DEF Chained, OnlyAcceptedCount, Exclusive
<1>4. AllAheadAreReached'
  <2>1. \A i \in Accepted : i \in ExclusiveWaits \/ \E m \in ExclusiveWaits : i \in ahead[m]
    BY BehindEverything
  <2>2. ExclusiveWaits \subseteq Accepted
    BY WaitsAreAccepted
  <2>3. \A i \in Job : waits[i] \subseteq Accepted
    BY DEF Chained, OnlyAcceptedCount
  <2> QED BY <1>1, <1>2, <2>1, <2>2, <2>3 DEF Chained, AllAheadAreReached
<1>5. ConflictsAreOrdered'
  BY <1>1, <1>2 DEF Chained, ConflictsAreOrdered, Conflict, Exclusive
<1>6. TailsAreAccepted'
  BY <1>1 DEF Chained, TailsAreAccepted
<1>7. TailsStandBehind'
  BY <1>1, <1>2 DEF Chained, TailsStandBehind, TailsAreAccepted, Exclusive
<1>8. BarrierStandsBehind'
  BY <1>1, <1>2 DEF Chained, BarrierStandsBehind, Exclusive
<1> QED BY <1>3, <1>4, <1>5, <1>6, <1>7, <1>8 DEF Chained

LEMMA ChainedStepAside ==
  ASSUME TypeOK, Chained, NEW j \in Exclusive, phase[j] \in {"idle", "yielding"}, StepAside(j)
  PROVE  Chained'
PROOF
<1>1. /\ j \in Job /\ j \notin Accepted /\ Accepted' = Accepted
      /\ \A i \in Job \ {j} : waits'[i] = waits[i] /\ phase'[i] = phase[i]
      /\ waits'[j] = ExclusiveWaits /\ phase'[j] = "yielding"
      /\ UNCHANGED << keyTails, barrier, ahead >>
  BY DEF StepAside, Accepted, Exclusive, TypeOK
<1>2. OnlyAcceptedCount'
  BY <1>1, WaitsAreAccepted DEF Chained, OnlyAcceptedCount, Exclusive
<1>3. AllAheadAreReached'
  BY <1>1 DEF Chained, AllAheadAreReached, Accepted
<1>4. ConflictsAreOrdered' /\ TailsAreAccepted' /\ TailsStandBehind' /\ BarrierStandsBehind'
  BY <1>1 DEF Chained, ConflictsAreOrdered, TailsAreAccepted, TailsStandBehind,
              BarrierStandsBehind, Conflict, Exclusive
<1> QED BY <1>2, <1>3, <1>4 DEF Chained

LEMMA ChainedStart ==
  ASSUME TypeOK, Chained, NEW j \in Job, Start(j)
  PROVE  Chained'
PROOF
<1>1. /\ j \in Accepted /\ waits[j] = {} /\ Accepted' = Accepted
      /\ \A i \in Job \ {j} : phase'[i] = phase[i]
      /\ phase'[j] = "running"
      /\ UNCHANGED << waits, keyTails, barrier, ahead >>
  BY DEF Start, Accepted, TypeOK
<1> QED BY <1>1 DEF Chained, OnlyAcceptedCount, AllAheadAreReached, ConflictsAreOrdered,
             TailsAreAccepted, TailsStandBehind, BarrierStandsBehind, Conflict, Exclusive

LEMMA ChainedFinish ==
  ASSUME TypeOK, Chained, NEW j \in Job, Finish(j)
  PROVE  Chained'
PROOF
<1> USE KeyedConstants
<1>1. /\ j \in Accepted /\ waits[j] = {}
      /\ Accepted' = Accepted \ {j}
      /\ \A i \in Job \ {j} : phase'[i] = phase[i]
      /\ phase'[j] = "idle"
      /\ \A i \in Job : ahead'[i] = ahead[i] \ {j} /\ waits'[i] = waits[i] \ {j}
      /\ keyTails' = [k \in Key |-> IF keyTails[k] = j THEN NoJob ELSE keyTails[k]]
      /\ barrier' = IF barrier = j THEN NoJob ELSE barrier
  BY DEF Finish, TailsAfter, Accepted, TypeOK, Chained, OnlyAcceptedCount
<1>2. ahead[j] = {}
  BY <1>1, RunningIsFirst
<1>3. OnlyAcceptedCount'
  BY <1>1, <1>2 DEF Chained, OnlyAcceptedCount, Exclusive
<1>4. AllAheadAreReached'
  <2> SUFFICES ASSUME NEW i \in Accepted', NEW h \in ahead'[i]
               PROVE  h \in waits'[i] \/ \E m \in waits'[i] : h \in ahead'[m]
    BY DEF AllAheadAreReached
  <2>1. i \in Accepted /\ h \in ahead[i] /\ h # j /\ i \in Job
    BY <1>1 DEF Accepted
  <2>2. CASE h \in waits[i]
    BY <1>1, <2>1, <2>2
  <2>3. CASE h \notin waits[i]
    <3>1. PICK m \in waits[i] : h \in ahead[m]
      BY <2>1, <2>3 DEF Chained, AllAheadAreReached
    <3>2. m # j /\ m \in Job
      BY <1>2, <2>1, <3>1 DEF TypeOK
    <3> QED BY <1>1, <2>1, <3>1, <3>2
  <2> QED BY <2>2, <2>3
<1>5. ConflictsAreOrdered'
  BY <1>1 DEF Chained, ConflictsAreOrdered, Conflict, Exclusive, Accepted
<1>6. TailsAreAccepted'
  BY <1>1 DEF Chained, TailsAreAccepted
<1>7. TailsStandBehind'
  <2> SUFFICES ASSUME NEW i \in Accepted', NEW k \in KeysOf[i]
               PROVE  keyTails'[k] # NoJob /\ (keyTails'[k] = i \/ i \in ahead'[keyTails'[k]])
    BY DEF TailsStandBehind
  <2>1. i \in Accepted /\ i # j /\ i \in Job /\ k \in Key
    BY <1>1 DEF Accepted
  <2>2. keyTails[k] # NoJob /\ (keyTails[k] = i \/ i \in ahead[keyTails[k]])
    BY <2>1 DEF Chained, TailsStandBehind
  <2>3. keyTails[k] # j /\ keyTails[k] \in Job
    BY <1>2, <2>1, <2>2 DEF TypeOK
  <2> QED BY <1>1, <2>1, <2>2, <2>3
<1>8. BarrierStandsBehind'
  <2>1. barrier' # NoJob => barrier' \in Accepted'
    BY <1>1 DEF Chained, BarrierStandsBehind
  <2> SUFFICES ASSUME NEW i \in Accepted' \cap Exclusive'
               PROVE  barrier' # NoJob /\ (barrier' = i \/ i \in ahead'[barrier'])
    BY <2>1 DEF BarrierStandsBehind
  <2>2. i \in Accepted \cap Exclusive /\ i # j
    BY <1>1 DEF Exclusive
  <2>3. barrier # NoJob /\ (barrier = i \/ i \in ahead[barrier])
    BY <2>2 DEF Chained, BarrierStandsBehind
  <2>4. barrier # j /\ barrier \in Job
    BY <1>2, <2>2, <2>3 DEF TypeOK, Exclusive
  <2> QED BY <1>1, <2>2, <2>3, <2>4
<1> QED BY <1>3, <1>4, <1>5, <1>6, <1>7, <1>8 DEF Chained

LEMMA ChainedStep ==
  ASSUME TypeOK, Chained, [Next]_vars
  PROVE  Chained'
PROOF
<1>1. CASE UNCHANGED vars
  BY <1>1 DEF vars, Chained, OnlyAcceptedCount, AllAheadAreReached, ConflictsAreOrdered,
              TailsAreAccepted, TailsStandBehind, BarrierStandsBehind, Accepted, Conflict,
              Exclusive
<1>2. CASE Next
  BY <1>2, StepKinds, ChainedRunKeyed, ChainedClaim, ChainedStepAside, ChainedStart,
     ChainedFinish
<1> QED BY <1>1, <1>2

-----------------------------------------------------------------------------
(* The theorems. *)

LEMMA InitHolds == Init => TypeOK /\ Chained /\ PendingIsCounted
PROOF
<1> SUFFICES ASSUME Init PROVE TypeOK /\ Chained /\ PendingIsCounted
  OBVIOUS
<1>1. TypeOK
  BY KeyedConstants DEF Init, TypeOK, Exclusive
<1>2. Accepted = {}
  BY DEF Init, Accepted
<1>3. Chained
  BY <1>2 DEF Init, Chained, OnlyAcceptedCount, AllAheadAreReached, ConflictsAreOrdered,
              TailsAreAccepted, TailsStandBehind, BarrierStandsBehind
<1>4. PendingIsCounted
  BY <1>2, FS_EmptySet DEF Init, PendingIsCounted
<1> QED BY <1>1, <1>3, <1>4

(* The inductive invariant: a call's promises reach every call in its way,
   and exclusivePending counts the exclusive calls that are unfinished. *)
THEOREM ChainHolds == Safe => [](TypeOK /\ Chained /\ PendingIsCounted)
PROOF
<1>1. TypeOK /\ Chained /\ PendingIsCounted /\ [Next]_vars
      => (TypeOK /\ Chained /\ PendingIsCounted)'
  BY TypeStep, ChainedStep, PendingStep
<1> QED BY InitHolds, <1>1, PTL DEF Safe

(* Calls that share a key never run at once and an exclusive call runs alone,
   for any number of calls and keys. *)
THEOREM RunsAlone == Safe => []Exclusion
PROOF
<1>1. TypeOK /\ Chained => Exclusion
  <2> SUFFICES ASSUME TypeOK, Chained, NEW i \in Job, NEW j \in Job, i # j,
                      phase[i] = "running", phase[j] = "running"
               PROVE  ~Conflict(i, j)
    BY DEF Exclusion
  <2>1. i \in Accepted /\ j \in Accepted
    BY DEF Accepted
  <2>2. waits[i] = {} /\ waits[j] = {}
    BY DEF Chained, OnlyAcceptedCount
  <2>3. ahead[i] = {} /\ ahead[j] = {}
    BY <2>1, <2>2, RunningIsFirst
  <2> QED BY <2>1, <2>3 DEF Chained, ConflictsAreOrdered
<1> QED BY <1>1, ChainHolds, PTL

(* What runIfIdle reads is what is going on. *)
THEOREM EntriesTell == Safe => []IdleIsKnown
PROOF
<1>1. TypeOK /\ Chained /\ PendingIsCounted => IdleIsKnown
  BY DEF IdleIsKnown, Chained, TailsAreAccepted, TailsStandBehind
<1> QED BY <1>1, ChainHolds, PTL

(* A call of observation that is not refused has nothing to wait for. *)
THEOREM ObservationRunsNow == Safe => ObservationNeverQueues
PROOF
<1>1. ASSUME TypeOK, Chained, PendingIsCounted, NEW j \in Job, RunIfIdle(j)
      PROVE  waits'[j] = {} /\ ahead'[j] = {}
  <2>1. Accepted \cap Exclusive = {}
    <3>1. IsFiniteSet(Accepted \cap Exclusive)
      BY KeyedConstants, FS_Subset DEF Accepted
    <3> QED BY <1>1, <3>1, FS_EmptySet DEF RunIfIdle, PendingIsCounted
  <2>2. j \in Keyed /\ RunKeyed(j)
    <3>1. Cardinality(KeysOf[j]) # 0
      BY <1>1 DEF RunIfIdle, Run
    <3> QED BY <1>1, <3>1, FS_EmptySet DEF RunIfIdle, Run, Keyed, Exclusive
  <2>3. barrier = NoJob
    BY <1>1, <2>1 DEF Chained, BarrierStandsBehind, TypeOK
  <2>4. KeyedWaits(j) = {}
    BY <1>1, <2>3 DEF KeyedWaits, TailsOf, Barrier, RunIfIdle
  <2>5. \A i \in Accepted : ~Conflict(i, j)
    BY <1>1, <2>2, <2>4, BehindTails
  <2> QED BY <1>1, <2>2, <2>4, <2>5 DEF RunKeyed, TypeOK
<1>2. TypeOK /\ Chained /\ PendingIsCounted
      => [\A j \in Job : RunIfIdle(j) => waits'[j] = {} /\ ahead'[j] = {}]_vars
  BY <1>1
<1> QED BY <1>2, ChainHolds, PTL DEF ObservationNeverQueues

-----------------------------------------------------------------------------
(* The refinement. *)

LEMMA SameConflicts ==
  /\ Lanes!Exclusive = Exclusive
  /\ \A i, j : Lanes!Conflict(i, j) <=> Conflict(i, j)
PROOF
  BY DEF Lanes!Exclusive, Exclusive, Lanes!Conflict, Conflict

(* Every step is one of the lanes': accepting, beginning or ending a call, or
   a yielding call looking on. *)
LEMMA LaneStep ==
  ASSUME TypeOK, Chained, [Next]_vars
  PROVE  [Lanes!Next]_Lanes!laneVars
PROOF
<1> DEFINE Place == [j \in Job |-> IF phase[j] \in {"queued", "running"} THEN phase[j] ELSE "out"]
<1>0. \A j \in Job : Lanes!InTheWay(j) = {i \in Accepted \ {j} : Conflict(i, j)}
  BY SameConflicts DEF Lanes!InTheWay, Accepted
<1>1. CASE UNCHANGED vars
  BY <1>1 DEF vars, Lanes!laneVars
<1>2. CASE Next
  <2>1. PICK j \in Job :
           \/ j \in Keyed /\ RunKeyed(j)
           \/ /\ j \in Exclusive /\ phase[j] \in {"idle", "yielding"}
              /\ \/ Claim(j)
                 \/ StepAside(j) /\ step' = [step EXCEPT ![j] = 1]
                 \/ /\ StepAside(j) /\ step[j] < YieldLimit
                    /\ step' = [step EXCEPT ![j] = @ + 1]
           \/ Start(j)
           \/ Finish(j)
    BY <1>2, StepKinds
  <2>2. CASE j \in Keyed /\ RunKeyed(j)
    <3>1. j \notin Accepted
      BY <2>2 DEF RunKeyed, Accepted
    <3>2. ahead' = [ahead EXCEPT ![j] = Lanes!InTheWay(j)]
      BY <1>0, <2>2, <3>1 DEF RunKeyed
    <3>3. Place' = [Place EXCEPT ![j] = "queued"] /\ Place[j] = "out"
      BY <2>2 DEF RunKeyed, TypeOK
    <3> QED BY <3>2, <3>3 DEF Lanes!Next, Lanes!Accept
  <2>3. CASE j \in Exclusive /\ phase[j] \in {"idle", "yielding"} /\ Claim(j)
    <3>1. j \notin Accepted /\ {i \in Accepted \ {j} : Conflict(i, j)} = Accepted
      BY <2>3 DEF Accepted, Conflict
    <3>2. ahead' = [ahead EXCEPT ![j] = Lanes!InTheWay(j)]
      BY <1>0, <2>3, <3>1 DEF Claim
    <3>3. Place' = [Place EXCEPT ![j] = "queued"] /\ Place[j] = "out"
      BY <2>3 DEF Claim, TypeOK
    <3> QED BY <3>2, <3>3 DEF Lanes!Next, Lanes!Accept
  <2>4. CASE phase[j] \in {"idle", "yielding"} /\ StepAside(j)
    <3>1. Place' = Place /\ ahead' = ahead
      BY <2>4 DEF StepAside, TypeOK
    <3> QED BY <3>1 DEF Lanes!laneVars
  <2>5. CASE Start(j)
    <3>1. ahead[j] = {}
      BY <2>5, RunningIsFirst DEF Start, Accepted
    <3>2. Place' = [Place EXCEPT ![j] = "running"] /\ Place[j] = "queued" /\ ahead' = ahead
      BY <2>5 DEF Start, TypeOK
    <3> QED BY <3>1, <3>2 DEF Lanes!Next, Lanes!Begin
  <2>6. CASE Finish(j)
    <3>1. Place' = [Place EXCEPT ![j] = "out"] /\ Place[j] = "running"
      BY <2>6 DEF Finish, TypeOK
    <3> QED BY <2>6, <3>1 DEF Finish, Lanes!Next, Lanes!End
  <2> QED BY <2>1, <2>2, <2>3, <2>4, <2>5, <2>6
<1> QED BY <1>1, <1>2

(* The promise chain implements the lanes: a call runs exactly when every
   call in its way that was accepted before it has ended. *)
THEOREM ImplementsLanes == Safe => RunsInOrder
PROOF
<1>1. Init => Lanes!Init
  BY DEF Init, Lanes!Init
<1> QED BY <1>1, LaneStep, ChainHolds, PTL DEF Safe, RunsInOrder, Lanes!Safe
=============================================================================
