------------------------------- MODULE Policy -------------------------------
(***************************************************************************)
(* The decisions of hssh/orchestrator/policy.py: what a fault on one       *)
(* attempt leads to.  Decide is the code's, branch by branch.  Retried and *)
(* CooledDown are the rows of the table in section 4.4 of                  *)
(* doc/architecture.md, which SchedulerProofs shows to say the same.       *)
(***************************************************************************)
EXTENDS Naturals

CONSTANT Retries        \* PolicySettings.retries

ASSUME RetriesAssumption == Retries \in Nat

FaultKind == {"UNREACHABLE", "TIMEOUT", "SESSION_LOST", "AUTH", "HOST_KEY", "REFUSED",
              "COMMIT_FAILED", "OUTCOME_UNKNOWN", "UNSUPPORTED", "LOCAL"}

\* reached: any part of the operation reached the device (reached_device).
Fault == [kind : FaultKind, reached : BOOLEAN]
AFault(kind, reached) == [kind |-> kind, reached |-> reached]

\* SKIP comes from the gate, never from a fault.
Verdict == [action : {"RETRY", "FAIL", "SKIP"}, cool : BOOLEAN]

Retry == [action |-> "RETRY", cool |-> FALSE]
Fail == [action |-> "FAIL", cool |-> FALSE]
FailCooled(cool) == [action |-> "FAIL", cool |-> cool]
Skip == [action |-> "SKIP", cool |-> FALSE]

Lost == {"TIMEOUT", "SESSION_LOST"}

\* Seeded fault: one retry too many.
DecideOnceMore(fault, read, editing, opening, attempt) ==
    IF fault.kind \in Lost /\ attempt <= Retries + 1
          /\ \/ opening /\ (fault.kind = "SESSION_LOST" \/ ~fault.reached)
             \/ ~opening /\ read
    THEN Retry
    ELSE FailCooled(fault.kind = "OUTCOME_UNKNOWN" \/ (editing /\ fault.reached))

\* Seeded fault: only an unknown outcome cools a device down.
DecideCoolsUnknown(fault, read, editing, opening, attempt) ==
    IF fault.kind \in Lost /\ attempt <= Retries
          /\ \/ opening /\ (fault.kind = "SESSION_LOST" \/ ~fault.reached)
             \/ ~opening /\ read
    THEN Retry
    ELSE FailCooled(fault.kind = "OUTCOME_UNKNOWN")

\* decide: the verdict on a fault of attempt `attempt`; opening: the fault came
\* from the operation that opens the session.
Decide(fault, read, editing, opening, attempt) ==
    LET retriesLeft == attempt <= Retries
        unanswered == fault.kind = "TIMEOUT" /\ ~fault.reached
        dropped == fault.kind = "SESSION_LOST"
    IN  IF opening /\ fault.kind \in Lost
        THEN IF (unanswered \/ dropped) /\ retriesLeft THEN Retry ELSE Fail
        ELSE IF fault.kind \in {"UNREACHABLE", "AUTH", "HOST_KEY", "UNSUPPORTED", "LOCAL"}
        THEN Fail
        ELSE IF fault.kind = "OUTCOME_UNKNOWN"
        THEN FailCooled(TRUE)
        ELSE IF fault.kind \in Lost /\ read /\ retriesLeft
        THEN Retry
        ELSE FailCooled(editing /\ fault.reached)

-----------------------------------------------------------------------------
(* The table of section 4.4, row by row                                    *)

\* The rows that say retry: no answer, or the connection dropped, before
\* login; lost or timed out in session, in a read.
Retried(fault, read, opening) ==
    \/ opening /\ fault = AFault("TIMEOUT", FALSE)
    \/ opening /\ fault.kind = "SESSION_LOST"
    \/ ~opening /\ read /\ fault.kind \in Lost

\* The rows that say cool down: in an edit that reached the device, what is
\* lost in session, refused or failed; and an unknown outcome.
CooledDown(fault, editing, opening) ==
    \/ fault.kind = "OUTCOME_UNKNOWN"
    \/ editing /\ fault.reached /\ ~opening /\ fault.kind \in Lost
    \/ editing /\ fault.reached /\ fault.kind \in {"REFUSED", "COMMIT_FAILED"}
=============================================================================
