-------------------------- MODULE MCSessionManager --------------------------
(* Three listings of two keys: two of them are the same device, so they wait
   for one another, and the third competes with them for the descriptors.   *)
EXTENDS SessionManager

CONSTANTS b1, b2, b3, k1, k2

TwoKeys == [b \in Borrower |-> IF b = b3 THEN k2 ELSE k1]

\* Who can go on at once.
CanGoOn(b) == \/ task[b].pc \in {"starting", "returning"}
              \/ task[b].pc = "waiting" /\ b \notin mgr.waiters

\* Of the orders Spec allows, some that the loop surely gives: it comes to every
\* task that can go on before it looks for anything else, but for the answer of
\* a cleanup that is there by then.
TurnSpec ==
    Init /\ [][Next /\ \/ \A b \in Borrower : ~CanGoOn(b)
                       \/ \E b \in Borrower : Resume(b) \/ Cleaned(b)]_vars
=============================================================================
