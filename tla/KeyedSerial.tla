----------------------------- MODULE KeyedSerial -----------------------------
(***************************************************************************)
(* KeyedSerialExecutor: the promise chain that orders every write of a     *)
(* session's documents and logs, and the exclusive passes over the whole   *)
(* fleet between them. A call is accepted in one synchronous turn: it      *)
(* reads the promises it waits for and leaves its own in their place.      *)
(* A promise is named by the call it belongs to, and a settled one by      *)
(* NoJob: a call's promise settles and its finally block runs before any   *)
(* call that waited for it continues, so both are one step.                *)
(***************************************************************************)
EXTENDS Naturals, FiniteSets

CONSTANTS
  Job,        (* calls, each reusable once it has ended                       *)
  NoJob,
  Key,
  KeysOf,     (* the keys a call names; none for an exclusive call            *)
  YieldLimit  (* EXCLUSIVE_YIELD_LIMIT: 16 in the code                        *)

ASSUME KeyedConstants ==
  /\ IsFiniteSet(Job) /\ NoJob \notin Job /\ KeysOf \in [Job -> SUBSET Key]
  /\ YieldLimit \in Nat \ {0}

VARIABLES
  phase,      (* of a call: "idle", "yielding", "queued", "running"           *)
  waits,      (* the promises it still waits for                              *)
  keyTails,   (* of a key: the last call accepted for it                      *)
  barrier,    (* the last exclusive call accepted                             *)
  exclusivePending,
  step,       (* of a yielding call: how often it has stepped aside           *)
  overtaken,  (* of a yielding call: the barrier is not the one it read       *)
  ahead       (* ghost: the conflicting calls accepted before it, unfinished  *)

vars == << phase, waits, keyTails, barrier, exclusivePending, step, overtaken, ahead >>

Exclusive == {j \in Job : KeysOf[j] = {}}
Keyed == Job \ Exclusive
Accepted == {j \in Job : phase[j] \in {"queued", "running"}}
Conflict(i, j) == i \in Exclusive \/ j \in Exclusive \/ KeysOf[i] \cap KeysOf[j] # {}

Init ==
  /\ phase = [j \in Job |-> "idle"]
  /\ waits = [j \in Job |-> {}]
  /\ keyTails = [k \in Key |-> NoJob]
  /\ barrier = NoJob
  /\ exclusivePending = 0
  /\ step = [j \in Job |-> 0]
  /\ overtaken = [j \in Job |-> FALSE]
  /\ ahead = [j \in Job |-> {}]

-----------------------------------------------------------------------------
(* Accepting a call. *)

TailsOf(keys) == {keyTails[k] : k \in keys} \ {NoJob}
Barrier == {barrier} \ {NoJob}

(* Mutant: a call that names several keys waits for the first of them only. *)
KeyedWaits_OneKey(j) == TailsOf({CHOOSE k \in KeysOf[j] : TRUE}) \cup Barrier

(* Mutant: a keyed call minds its keys and not the exclusive pass. *)
KeyedWaits_NoBarrier(j) == TailsOf(KeysOf[j])

KeyedWaits(j) == TailsOf(KeysOf[j]) \cup Barrier

RunKeyed(j) ==
  /\ phase[j] = "idle"
  /\ phase' = [phase EXCEPT ![j] = "queued"]
  /\ waits' = [waits EXCEPT ![j] = KeyedWaits(j)]
  /\ keyTails' = [k \in Key |-> IF k \in KeysOf[j] THEN j ELSE keyTails[k]]
  /\ ahead' = [ahead EXCEPT ![j] = {i \in Accepted : Conflict(i, j)}]
  /\ UNCHANGED << barrier, exclusivePending, step, overtaken >>

Run(j) == Cardinality(KeysOf[j]) = 1 /\ RunKeyed(j)
RunAcross(j) == Cardinality(KeysOf[j]) > 1 /\ RunKeyed(j)

(* Mutant: a pass that has claimed the barrier and not begun goes unnoticed. *)
RunIfIdle_TailsOnly(j) ==
  /\ \A k \in KeysOf[j] : keyTails[k] = NoJob
  /\ Run(j)

(* Observation never queues: it runs now or is refused. *)
RunIfIdle(j) ==
  /\ \A k \in KeysOf[j] : keyTails[k] = NoJob
  /\ exclusivePending = 0
  /\ Run(j)

(* Mutant: an exclusive call waits for the last exclusive call alone. *)
ExclusiveWaits_Barrier == Barrier

(* What is unfinished and has no unfinished call behind it. *)
ExclusiveWaits == TailsOf(Key) \cup Barrier

(* The synchronous part of runExclusive, for a call that is idle or whose
   yielding has ended. *)
Claim(j) ==
  /\ phase' = [phase EXCEPT ![j] = "queued"]
  /\ waits' = [waits EXCEPT ![j] = ExclusiveWaits]
  /\ barrier' = j
  /\ exclusivePending' = exclusivePending + 1
  /\ step' = [step EXCEPT ![j] = 0]
  /\ overtaken' = [i \in Job |-> i # j /\ phase[i] = "yielding"]
  /\ ahead' = [ahead EXCEPT ![j] = Accepted]
  /\ UNCHANGED keyTails

RunExclusive(j) == j \in Exclusive /\ phase[j] = "idle" /\ Claim(j)

(* A yielding call reads the barrier and the tails and waits for them without
   leaving a promise of its own. *)
StepAside(j) ==
  /\ phase' = [phase EXCEPT ![j] = "yielding"]
  /\ waits' = [waits EXCEPT ![j] = ExclusiveWaits]
  /\ overtaken' = [overtaken EXCEPT ![j] = FALSE]
  /\ UNCHANGED << keyTails, barrier, exclusivePending, ahead >>

RunExclusiveYielding(j) ==
  /\ j \in Exclusive /\ phase[j] = "idle"
  /\ StepAside(j)
  /\ step' = [step EXCEPT ![j] = 1]

(* Nothing new arrived. What it waited for has settled and left keyTails, so
   any tail there is now is one it has not read. *)
Quiet(j) == ~overtaken[j] /\ TailsOf(Key) = {}

(* Mutant: a yielding call steps aside for as long as keyed work arrives. *)
LookAgain_NoLimit(j) ==
  /\ phase[j] = "yielding" /\ waits[j] = {}
  /\ \/ Quiet(j) /\ Claim(j)
     \/ ~Quiet(j) /\ StepAside(j) /\ UNCHANGED step

LookAgain(j) ==
  /\ phase[j] = "yielding" /\ waits[j] = {}
  /\ \/ Quiet(j) /\ Claim(j)
     \/ ~Quiet(j) /\ step[j] = YieldLimit /\ Claim(j)
     \/ /\ ~Quiet(j) /\ step[j] < YieldLimit
        /\ StepAside(j)
        /\ step' = [step EXCEPT ![j] = @ + 1]

-----------------------------------------------------------------------------
(* Running it. *)

Start(j) ==
  /\ phase[j] = "queued" /\ waits[j] = {}
  /\ phase' = [phase EXCEPT ![j] = "running"]
  /\ UNCHANGED << waits, keyTails, barrier, exclusivePending, step, overtaken, ahead >>

TailsAfter(j) == [k \in Key |-> IF keyTails[k] = j THEN NoJob ELSE keyTails[k]]

(* The work resolves or throws: everything behind it takes both alike. *)
Finish(j) ==
  /\ phase[j] = "running"
  /\ phase' = [phase EXCEPT ![j] = "idle"]
  /\ waits' = [i \in Job |-> waits[i] \ {j}]
  /\ keyTails' = TailsAfter(j)
  /\ barrier' = IF barrier = j THEN NoJob ELSE barrier
  /\ exclusivePending' = IF j \in Exclusive THEN exclusivePending - 1 ELSE exclusivePending
  /\ ahead' = [i \in Job |-> ahead[i] \ {j}]
  /\ UNCHANGED << step, overtaken >>

Ask(j) == Run(j) \/ RunAcross(j) \/ RunIfIdle(j) \/ RunExclusive(j) \/ RunExclusiveYielding(j)

Next == \E j \in Job : Ask(j) \/ LookAgain(j) \/ Start(j) \/ Finish(j)

(* The runtime runs every continuation that is ready, and work ends. Nobody
   has to call, and anybody may call again for ever. *)
Fairness ==
  \A j \in Job : WF_vars(LookAgain(j)) /\ WF_vars(Start(j)) /\ WF_vars(Finish(j))

Safe == Init /\ [][Next]_vars
Spec == Safe /\ Fairness

-----------------------------------------------------------------------------
(* Every variable holds a value of its kind, and a call waits only for
   promises of other calls that have been accepted. *)
TypeOK ==
  /\ phase \in [Job -> {"idle", "yielding", "queued", "running"}]
  /\ waits \in [Job -> SUBSET Job]
  /\ keyTails \in [Key -> Job \cup {NoJob}]
  /\ barrier \in Exclusive \cup {NoJob}
  /\ exclusivePending \in Nat
  /\ step \in [Job -> 0 .. YieldLimit]
  /\ overtaken \in [Job -> BOOLEAN]
  /\ ahead \in [Job -> SUBSET Job]

(* Two calls that share a key never run at once, and an exclusive call runs
   alone (run, runAcross, runExclusive, runExclusiveYielding), although a call
   waits for one promise per key and not for every call before it. *)
Exclusion ==
  \A i, j \in Job : i # j /\ phase[i] = "running" /\ phase[j] = "running" => ~Conflict(i, j)

PendingIsCounted == exclusivePending = Cardinality(Accepted \cap Exclusive)

(* A key has an entry in keyTails exactly while a call that names it is
   unfinished, and exclusivePending counts the exclusive calls that are: what
   runIfIdle reads says neither more nor less than what is going on. *)
IdleIsKnown ==
  /\ \A k \in Key : keyTails[k] # NoJob <=> \E j \in Accepted : k \in KeysOf[j]
  /\ PendingIsCounted

(* What each promise stands for: the calls a queued call has to let go first
   are those whose promises it waits for and those that these wait for. *)
OnlyAcceptedCount ==
  /\ \A j \in Job : ahead[j] \subseteq Accepted /\ waits[j] \subseteq Accepted
  /\ \A j \in Job \ Accepted : ahead[j] = {}
  /\ \A j \in Job : phase[j] = "running" => waits[j] = {}
  /\ \A j \in Job : phase[j] = "yielding" => j \in Exclusive
AllAheadAreReached ==
  \A j \in Accepted : \A i \in ahead[j] : i \in waits[j] \/ \E m \in waits[j] : i \in ahead[m]
ConflictsAreOrdered ==
  \A i, j \in Accepted : i # j /\ Conflict(i, j) => i \in ahead[j] \/ j \in ahead[i]
TailsAreAccepted ==
  \A k \in Key : keyTails[k] # NoJob => keyTails[k] \in Accepted /\ k \in KeysOf[keyTails[k]]
TailsStandBehind ==
  \A i \in Accepted : \A k \in KeysOf[i] :
    keyTails[k] # NoJob /\ (keyTails[k] = i \/ i \in ahead[keyTails[k]])
BarrierStandsBehind ==
  /\ barrier # NoJob => barrier \in Accepted
  /\ \A i \in Accepted \cap Exclusive :
       barrier # NoJob /\ (barrier = i \/ i \in ahead[barrier])
Chained ==
  /\ OnlyAcceptedCount /\ AllAheadAreReached /\ ConflictsAreOrdered
  /\ TailsAreAccepted /\ TailsStandBehind /\ BarrierStandsBehind

(* A call that observation makes waits for nothing: it runs on this turn. *)
ObservationNeverQueues == [][\A j \in Job : RunIfIdle(j) => waits'[j] = {} /\ ahead'[j] = {}]_vars

(* Every call that is made runs and ends, a yielding one too however much
   keyed work keeps arriving. *)
EveryCallRuns ==
  /\ \A j \in Job : phase[j] = "queued" ~> phase[j] = "running"
  /\ \A j \in Job : phase[j] # "idle" ~> phase[j] = "idle"

(* The promise chain implements the lanes: calls that share a key run in the
   order they were accepted, and no call waits for one that is not in its way
   or was accepted after it. A yielding call is accepted when it claims. *)
Lanes == INSTANCE SerialLanes WITH
  place <- [j \in Job |-> IF phase[j] \in {"queued", "running"} THEN phase[j] ELSE "out"]

RunsInOrder == Lanes!Safe
=============================================================================
