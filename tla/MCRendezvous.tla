---------------------------- MODULE MCRendezvous ----------------------------
EXTENDS RendezvousProps
CONSTANTS d, e, d1, d2, e1, c1
CONSTANTS silences, falseAlarms, resets, forgets

MCOwner == [s \in DSocket |-> IF s = e1 THEN e ELSE d]
MCBudget == [k \in Fault |-> CASE k = "silence" -> silences
                               [] k = "falseAlarm" -> falseAlarms
                               [] k = "reset" -> resets
                               [] k = "forget" -> forgets]
=============================================================================
