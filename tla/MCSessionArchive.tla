-------------------------- MODULE MCSessionArchive --------------------------
(* A lead with a child, and a third session: the child's child to be, or one
   that stands alone and may be given another lead. *)
EXTENDS SessionArchive, TLC

CONSTANTS lead, child, other, w1, w2

MCFirstParent == [s \in Session |-> IF s = child THEN lead ELSE NoSession]

Request(kind, id, to) == [kind |-> kind, id |-> id, to |-> to]

(* Every kind of operation, on the session it can hurt. *)
MCEvery ==
  {Request("state", child, "running"), Request("state", child, "recent"),
   Request("pin", child, NoSession),
   Request("config", child, other), Request("config", other, lead),
   Request("config", other, NoSession),
   Request("child", other, lead), Request("child", other, child),
   Request("sweep", NoSession, NoSession), Request("survey", NoSession, NoSession)}
   \ (IF other \in FirstBorn THEN {Request("child", other, s) : s \in {lead, child}} ELSE {})

(* Writers are alike: no request names one, and every property is an invariant. *)
MCAlike == Permutations(Writer)
=============================================================================
