--------------------------- MODULE MessageDelivery ---------------------------
(***************************************************************************)
(* What a session's queue promises of every message, with none of how it   *)
(* keeps the promise: a message waits, is handed over, and stands where    *)
(* the hand-over left it; while it waits it may be changed or taken back,  *)
(* and nothing of it was ever typed; the agent never has two copies of it. *)
(* QueueDeliverer implements it (QueueDelivererProps!Delivery).            *)
(***************************************************************************)
EXTENDS Naturals

CONSTANT Msg

VARIABLES
  phase,    (* "absent", "waiting", "handing", "settled" or "recalled"        *)
  words,    (* the revision of the text its sender last stored                *)
  given,    (* the revision the agent was last given, 0 for none              *)
  copies    (* how many copies of it the agent has                            *)

vars == << phase, words, given, copies >>

Init ==
  /\ phase = [m \in Msg |-> "absent"]
  /\ words = [m \in Msg |-> 0]
  /\ given = [m \in Msg |-> 0]
  /\ copies = [m \in Msg |-> 0]

Accept(m) ==
  /\ phase[m] = "absent"
  /\ phase' = [phase EXCEPT ![m] = "waiting"]
  /\ words' = [words EXCEPT ![m] = 1]
  /\ UNCHANGED << given, copies >>

Change(m) ==
  /\ phase[m] = "waiting"
  /\ words' = [words EXCEPT ![m] = @ + 1]
  /\ UNCHANGED << phase, given, copies >>

Recall(m) ==
  /\ phase[m] = "waiting"
  /\ phase' = [phase EXCEPT ![m] = "recalled"]
  /\ UNCHANGED << words, given, copies >>

HandOver(m) ==
  /\ phase[m] = "waiting"
  /\ phase' = [phase EXCEPT ![m] = "handing"]
  /\ UNCHANGED << words, given, copies >>

(* Only a message of which nothing was ever typed waits again. *)
PutBack(m) ==
  /\ phase[m] = "handing" /\ given[m] = 0 /\ copies[m] = 0
  /\ phase' = [phase EXCEPT ![m] = "waiting"]
  /\ UNCHANGED << words, given, copies >>

(* The messages of one delivery are typed together, as they now read. *)
Type(S) ==
  /\ \A m \in S : phase[m] \in {"handing", "settled"} /\ copies[m] = 0
  /\ given' = [m \in Msg |-> IF m \in S THEN words[m] ELSE given[m]]
  /\ copies' = [m \in Msg |-> IF m \in S THEN 1 ELSE copies[m]]
  /\ UNCHANGED << phase, words >>

Lose(S) ==
  /\ copies' = [m \in Msg |-> IF m \in S THEN 0 ELSE copies[m]]
  /\ UNCHANGED << phase, words, given >>

Settle(m) ==
  /\ phase[m] = "handing"
  /\ phase' = [phase EXCEPT ![m] = "settled"]
  /\ UNCHANGED << words, given, copies >>

Next ==
  \/ \E m \in Msg : \/ Accept(m) \/ Change(m) \/ Recall(m)
                    \/ HandOver(m) \/ PutBack(m) \/ Settle(m)
  \/ \E S \in SUBSET Msg : Type(S) \/ Lose(S)

Spec == Init /\ [][Next]_vars
=============================================================================
