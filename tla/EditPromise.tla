---------------------------- MODULE EditPromise ----------------------------
(***************************************************************************)
(* What the communicator contract (hssh/communicators/base.py, the fault   *)
(* kinds of hssh/model.py) promises of an edit, whatever transport types   *)
(* it: a commit is sent at most once per borrow and only by a session that *)
(* holds the candidate; COMMIT_FAILED and a success are said only when they *)
(* are so, and OUTCOME_UNKNOWN otherwise; a session handed back holds       *)
(* nothing on the device and never will before its next borrow.            *)
(***************************************************************************)
CONSTANT Session

VARIABLES
    fate,       \* of each session's commit: not sent, sent, landed, refused
    told,       \* what the caller was told of it
    kept,       \* the sessions handed back clean, waiting for a borrow
    grip        \* the sessions that hold the candidate's lock or lines in it

vars == <<fate, told, kept, grip>>

Fate == {"none", "sent", "landed", "refused"}
Word == {"nothing", "committed", "failed", "unknown"}

Init ==
    /\ fate = [s \in Session |-> "none"]
    /\ told = [s \in Session |-> "nothing"]
    /\ kept = {}
    /\ grip = {}

\* The device grants s the candidate; it loses it, in one step with a commit
\* that was on its way and now never lands.
Grab(s) ==
    /\ s \notin kept
    /\ grip' = grip \cup {s}
    /\ UNCHANGED <<fate, told, kept>>

Lose(s) ==
    /\ grip' = grip \ {s}
    /\ fate' = [fate EXCEPT ![s] = IF @ = "sent" THEN "refused" ELSE @]
    /\ UNCHANGED <<told, kept>>

Send(s) ==
    /\ s \in grip \ kept
    /\ fate[s] = "none" /\ told[s] = "nothing"
    /\ fate' = [fate EXCEPT ![s] = "sent"]
    /\ UNCHANGED <<told, kept, grip>>

Decide(s) ==
    /\ fate[s] = "sent" /\ s \in grip
    /\ \E f \in {"landed", "refused"} : fate' = [fate EXCEPT ![s] = f]
    /\ UNCHANGED <<told, kept, grip>>

Tell(s) ==
    /\ told[s] = "nothing"
    /\ \E w \in Word :
          /\ w = "committed" => fate[s] = "landed"
          /\ w = "failed" => fate[s] = "refused"
          /\ told' = [told EXCEPT ![s] = w]
    /\ UNCHANGED <<fate, kept, grip>>

HandBack(s) ==
    /\ s \notin grip
    /\ fate[s] # "sent" /\ told[s] # "unknown"
    /\ kept' = kept \cup {s}
    /\ UNCHANGED <<fate, told, grip>>

\* A kept session is borrowed again or closed for good.
Borrow(s) ==
    /\ s \in kept
    /\ kept' = kept \ {s}
    /\ fate' = [fate EXCEPT ![s] = "none"]
    /\ told' = [told EXCEPT ![s] = "nothing"]
    /\ UNCHANGED grip

Retire(s) ==
    /\ kept' = kept \ {s}
    /\ UNCHANGED <<fate, told, grip>>

Next == \E s \in Session :
    Grab(s) \/ Lose(s) \/ Send(s) \/ Decide(s) \/ Tell(s) \/ HandBack(s) \/ Borrow(s) \/ Retire(s)

Spec == Init /\ [][Next]_vars
=============================================================================
