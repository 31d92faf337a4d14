----------------------------- MODULE EditCaller -----------------------------
(***************************************************************************)
(* Who calls an edit session: the lifecycle of hssh/orchestrator/          *)
(* lifecycle.py on a worker thread per call, and the session manager that  *)
(* ends the borrow.  One call runs at a time; a call over its budget, or    *)
(* interrupted, is given up and the session torn down beside it, while its *)
(* thread goes on.                                                         *)
(*                                                                         *)
(* A borrow ends clean, by release or close, or by discard, which the      *)
(* scheduler picks when a call got no answer.  The contract (base.py) leaves *)
(* close open then too, and so does this module.                           *)
(***************************************************************************)
EXTENDS JunosDevice

VARIABLE caller     \* each session's caller

callerVars == <<caller>>

Call == {"show", "load", "diff", "commit", "history", "confirm", "release", "close", "reuse"}

\* borrowed: nothing called yet.  loaded, changed, asked: the last step of an
\* edit or a confirm answered so that the next one follows.  spent: no step
\* follows.  doubted: a call got no answer (the kinds in DISCARDING).  kept:
\* handed back.  gone: torn down or closed.
Borrowed == {"borrowed", "loaded", "changed", "asked", "spent"}
Stage == Borrowed \cup {"doubted", "kept", "gone"}
Caller == [stage : Stage, call : Call \cup {"none"},
           told : {"nothing", "committed", "failed", "unknown"}]

CallerTypeOK == caller \in [Session -> Caller]

\* The sessions that are borrowed at the start.
CallerInit(open) ==
    caller = [s \in Session |-> [stage |-> IF s \in open THEN "borrowed" ELSE "gone",
                                 call |-> "none", told |-> "nothing"]]

\* The stages a call follows.
Follows(call) ==
    CASE call \in {"show", "load", "history"} -> {"borrowed"}
      [] call = "diff" -> {"loaded"}
      [] call = "commit" -> {"changed"}
      [] call = "confirm" -> {"asked"}
      [] call = "release" -> Borrowed
      [] call = "close" -> Borrowed \cup {"doubted", "kept"}
      [] call = "reuse" -> {"kept"}

May(s, call) == caller[s].call = "none" /\ caller[s].stage \in Follows(call)

Calls(s, call) == caller' = [caller EXCEPT ![s].call = call]

\* The call is over, with word of a commit or none; a call that was given up
\* returns to nobody.
ReturnsTelling(s, stage, word) ==
    caller' = IF caller[s].stage = "gone" THEN caller
              ELSE [caller EXCEPT ![s] = [stage |-> stage, call |-> "none", told |-> word]]
Returns(s, stage) == ReturnsTelling(s, stage, caller[s].told)

\* A kept session the reuse check vouches for is borrowed.
NewBorrow(s) ==
    caller' = [caller EXCEPT ![s] = [stage |-> "borrowed", call |-> "none", told |-> "nothing"]]

\* The caller tears s down: between calls, or because the running one is over
\* its budget or interrupted.  Of a commit it then knows nothing.
Abandons(s) ==
    /\ caller[s].stage # "gone"
    /\ caller' = [caller EXCEPT ![s] =
          [stage |-> "gone", call |-> "none",
           told |-> IF caller[s].call \in {"commit", "confirm"} THEN "unknown" ELSE @.told]]
=============================================================================
