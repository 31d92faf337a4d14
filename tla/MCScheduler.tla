---------------------------- MODULE MCScheduler -----------------------------
(* Runs of a few targets, two of them listings of one device.              *)
EXTENDS Scheduler, TLC

CONSTANTS t1, t2, t3, t4, d1, d2

Listings == (t1 :> d1) @@ (t2 :> d1) @@ (t3 :> d2) @@ (t4 :> d1)

Lines == {"load", "line1", "line2", "show1", "show2"}

\* An edit applied through a candidate, without and with kept sessions; a
\* batch of reads on kept sessions; a confirm.
Edit(targets, pool) == [mode |-> "edit", targets |-> targets, payload |-> <<"load">>,
                        apply |-> TRUE, reads |-> FALSE, pool |-> pool]
Batch(targets) == [mode |-> "batch", targets |-> targets, payload |-> <<"show1", "show2">>,
                   apply |-> FALSE, reads |-> TRUE, pool |-> TRUE]
Confirm(targets) == [mode |-> "confirm", targets |-> targets, payload |-> <<>>,
                     apply |-> TRUE, reads |-> FALSE, pool |-> FALSE]
\* A dry run, line by line, on kept sessions; a read of the configuration.
DryRun(targets) == [Edit(targets, TRUE) EXCEPT !.payload = <<"line1", "line2">>, !.apply = FALSE]
Config(targets) == [Batch(targets) EXCEPT !.mode = "config", !.payload = <<>>, !.pool = FALSE]

\* The last one is more than the plan admits.
Runs == {Edit({t1, t2, t3}, FALSE), Batch({t1, t2}), DryRun({t3}), Config({t3}),
         [Config({t3}) EXCEPT !.mode = "commit_status"], Edit({t1, t2, t4}, FALSE)}
Confirms == {Confirm({t1, t2})}
KeptEdits == {Edit({t1, t2}, TRUE)}

\* Before login: no answer, or the device dropped the setup.  A setup too slow
\* is the open over its budget.
OpenEndings == {AFault("TIMEOUT", FALSE), AFault("SESSION_LOST", TRUE)}
\* In session: refused by the device, or by the communicator before it.
EditEndings == {AFault("REFUSED", TRUE), AFault("UNSUPPORTED", FALSE)}
\* In a read: the command refused, the session lost.
ReadEndings == {AFault("REFUSED", TRUE), AFault("SESSION_LOST", TRUE)}
Endings == [m \in Modes |-> IF m \in {"edit", "confirm"} THEN EditEndings ELSE ReadEndings]
CommitEndings == {AFault("COMMIT_FAILED", TRUE), AFault("OUTCOME_UNKNOWN", TRUE)}
=============================================================================
