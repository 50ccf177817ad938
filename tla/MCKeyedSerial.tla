--------------------------- MODULE MCKeyedSerial ---------------------------
(* Two keys, calls of one, of the other and of both, and exclusive calls. *)
EXTENDS KeyedSerial

CONSTANTS a1, a2, b1, ab, x, y, k1, k2

MCKeysOf == [j \in Job |-> CASE j \in {a1, a2} -> {k1}
                             [] j = b1         -> {k2}
                             [] j = ab         -> {k1, k2}
                             [] j \in {x, y}   -> {}]
=============================================================================
