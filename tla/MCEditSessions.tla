--------------------------- MODULE MCEditSessions ---------------------------
(* A NETCONF session and one at a prompt, on one device that others edit   *)
(* too.                                                                    *)
EXTENDS EditSessions
CONSTANTS n1, c1, o1
Pairs == {{n1, c1}, {n1, o1}}
=============================================================================
