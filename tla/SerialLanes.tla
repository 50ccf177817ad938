----------------------------- MODULE SerialLanes -----------------------------
(***************************************************************************)
(* What the per-key serial executor promises (lib/ports.ts, SerialExecutor *)
(* and YieldingSerialExecutor): calls that share a key run one at a time,  *)
(* in the order they were accepted, and an exclusive call runs alone. It   *)
(* knows nothing of promises, tails or barriers: a call knows which of the *)
(* calls accepted before it stand in its way.                              *)
(***************************************************************************)
EXTENDS Naturals, FiniteSets

CONSTANTS
  Job,        (* calls, each reusable once it has ended                       *)
  Key,
  KeysOf      (* the keys a call names; none for an exclusive call            *)

VARIABLES
  place,      (* of a call: "out", "queued", "running"                        *)
  ahead       (* the accepted, unfinished calls a call has to let go first    *)

laneVars == << place, ahead >>

Exclusive == {j \in Job : KeysOf[j] = {}}

(* Two calls that may not run at once. *)
Conflict(i, j) == i \in Exclusive \/ j \in Exclusive \/ KeysOf[i] \cap KeysOf[j] # {}

InTheWay(j) == {i \in Job \ {j} : place[i] # "out" /\ Conflict(i, j)}

Init ==
  /\ place = [j \in Job |-> "out"]
  /\ ahead = [j \in Job |-> {}]

Accept(j) ==
  /\ place[j] = "out"
  /\ place' = [place EXCEPT ![j] = "queued"]
  /\ ahead' = [ahead EXCEPT ![j] = InTheWay(j)]

Begin(j) ==
  /\ place[j] = "queued" /\ ahead[j] = {}
  /\ place' = [place EXCEPT ![j] = "running"]
  /\ UNCHANGED ahead

End(j) ==
  /\ place[j] = "running"
  /\ place' = [place EXCEPT ![j] = "out"]
  /\ ahead' = [i \in Job |-> ahead[i] \ {j}]

Next == \E j \in Job : Accept(j) \/ Begin(j) \/ End(j)

(* Work that is running ends, and what may run does. *)
Fairness == \A j \in Job : WF_laneVars(Begin(j)) /\ WF_laneVars(End(j))

Safe == Init /\ [][Next]_laneVars
Spec == Safe /\ Fairness
=============================================================================
