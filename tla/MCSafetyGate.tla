--------------------------- MODULE MCSafetyGate ---------------------------
(* SafetyGate on small instances; the processes are interchangeable.       *)
EXTENDS SafetyGate, TLC

Symmetric == Permutations(Process)
=============================================================================
