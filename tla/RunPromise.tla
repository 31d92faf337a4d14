----------------------------- MODULE RunPromise -----------------------------
(***************************************************************************)
(* What one run promises whoever asked for it (hssh/model.py, RunReport     *)
(* and TargetStatus; docs of the scheduler): a refused run has touched no   *)
(* device; a target is told one status, once; what is called skipped was    *)
(* sent no commit, nothing is sent twice, nor once the interrupt came; and  *)
(* the run ends with every target told.                                     *)
(***************************************************************************)
EXTENDS Naturals

CONSTANT Target

VARIABLES
    listed,     \* the targets asked for
    stage,      \* "asked", "on", "refused", "ended"
    stopped,    \* the interrupt came
    told,       \* each target's status
    sent        \* the commits and confirms sent to it

vars == <<listed, stage, stopped, told, sent>>

Status == {"ok", "failed", "skipped"}
Untold == {t \in listed : told[t] = "none"}

Init ==
    /\ listed \in SUBSET Target
    /\ stage = "asked" /\ stopped = FALSE
    /\ told = [t \in Target |-> "none"]
    /\ sent = [t \in Target |-> 0]

Skips(skipped) == told' = [t \in Target |-> IF t \in skipped THEN "skipped" ELSE told[t]]

Refuse ==
    /\ stage = "asked" /\ stage' = "refused"
    /\ UNCHANGED <<listed, stopped, told, sent>>

\* An interrupt before the first target skips them all.
Start ==
    /\ stage = "asked" /\ stage' = "on"
    /\ \/ UNCHANGED told
       \/ stopped /\ Skips(listed)
    /\ UNCHANGED <<listed, stopped, sent>>

\* The interrupt: targets nothing was sent to are skipped at once.
Stop ==
    /\ ~stopped /\ stopped' = TRUE
    /\ \E skipped \in SUBSET {t \in Untold : stage = "on" /\ sent[t] = 0} : Skips(skipped)
    /\ UNCHANGED <<listed, stage, sent>>

Send(t) ==
    /\ stage = "on" /\ ~stopped
    /\ t \in Untold /\ sent[t] = 0
    /\ sent' = [sent EXCEPT ![t] = 1]
    /\ UNCHANGED <<listed, stage, stopped, told>>

Tell(t) ==
    /\ stage = "on" /\ t \in Untold
    /\ \E status \in Status :
         /\ status = "skipped" => sent[t] = 0
         /\ told' = [told EXCEPT ![t] = status]
    /\ UNCHANGED <<listed, stage, stopped, sent>>

End ==
    /\ stage = "on" /\ Untold = {} /\ stage' = "ended"
    /\ UNCHANGED <<listed, stopped, told, sent>>

Progress == Refuse \/ Start \/ End \/ \E t \in Target : Tell(t)

Next == Progress \/ Stop \/ \E t \in Target : Send(t)

Spec == Init /\ [][Next]_vars /\ WF_vars(Progress)
=============================================================================
