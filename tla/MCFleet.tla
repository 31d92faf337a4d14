------------------------------ MODULE MCFleet ------------------------------
(* Two threads on a Fleet of one device, listed twice.                      *)
EXTENDS Fleet

CONSTANTS b1, b2, k1, u1, u2

OneKey == [b \in Borrower |-> k1]
=============================================================================
