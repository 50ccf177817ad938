-------------------------- MODULE MCQueueDeliverer --------------------------
EXTENDS QueueDelivererProps, TLC

(* A person's message, two actions and an FYI of a ferret's, and one of the
   daemon's; a run's Msg is some of them. *)
CONSTANTS h, a, b, f, d

MCSenderOf == [m \in Msg |-> CASE m = h -> "human" [] m = d -> "daemon" [] OTHER -> "agent"]
(* Two actions of one ferret's are told apart by nothing but when they came. *)
Ferrets == Permutations({a, b})

MCLabelOf == [m \in Msg |-> IF m = f THEN "fyi" ELSE "action"]
=============================================================================
