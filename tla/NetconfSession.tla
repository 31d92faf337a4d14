--------------------------- MODULE NetconfSession ---------------------------
(***************************************************************************)
(* An edit session of NetconfCommunicator (hssh/communicators/netconf.py):  *)
(* the flags of NetconfSession, and each method as the thread that runs it *)
(* goes from one RPC to the next.  A step takes the answer to an RPC, or    *)
(* gives up on it, and goes on to the next RPC or returns.  discard() comes *)
(* from another thread at any time.                                        *)
(***************************************************************************)
EXTENDS EditCaller

CONSTANT NetSession     \* the sessions over NETCONF

VARIABLE net            \* each NetconfSession, and the thread in a method of it

netVars == <<net>>

\* op: the method that runs.  awaits: the RPC it waits for; `committing` is
\* that being a commit.
Net == [locked : BOOLEAN, dirty : BOOLEAN, doubtful : BOOLEAN,
        op : Call \cup {"none"}, awaits : Request \cup {"none"}]

NetTypeOK == net \in [NetSession -> Net]

NetInit == net = [s \in NetSession |->
    [locked |-> FALSE, dirty |-> FALSE, doubtful |-> FALSE, op |-> "none", awaits |-> "none"]]

-----------------------------------------------------------------------------
(* How a step of the thread goes on, and how it ends                       *)

Sets(s, n) == net' = [net EXCEPT ![s] = n]

Asks(s, n, r) == Sets(s, [n EXCEPT !.awaits = r]) /\ Put(s, r)

Idle(n) == [n EXCEPT !.op = "none", !.awaits = "none"]

EndsTelling(s, n, stage, word) ==
    Sets(s, Idle(n)) /\ Read(s) /\ ReturnsTelling(s, stage, word)
Ends(s, n, stage) == EndsTelling(s, n, stage, caller[s].told)

\* discard(): no rollback, no unlock, the transport closed.
Discarded(n) == [n EXCEPT !.doubtful = TRUE, !.locked = FALSE, !.dirty = FALSE]

DiscardsTelling(s, n, stage, word) ==
    Sets(s, Idle(Discarded(n))) /\ Cut(s) /\ ReturnsTelling(s, stage, word)
Discards(s, n, stage) == DiscardsTelling(s, n, stage, caller[s].told)

\* Under the lock: what the method does next.
Goes(s, n) ==
    CASE n.op = "load" -> Asks(s, [n EXCEPT !.dirty = TRUE], "load")
      [] n.op = "confirm" -> Asks(s, n, "history")
      [] OTHER -> Asks(s, n, n.op)

\* Seeded fault: a confirm trusts the history its caller has read.
LocksUnlessConfirm(s, n) ==
    IF n.locked \/ n.op = "confirm" THEN Goes(s, n) ELSE Asks(s, n, "lock")

\* _lock: asks for it unless this session has it.
Locks(s, n) == IF n.locked THEN Goes(s, n) ELSE Asks(s, n, "lock")

\* release() has cleaned up; a close goes on to say good-bye.
Cleaned(n) == [n EXCEPT !.locked = FALSE, !.dirty = FALSE]

\* reuse() answers True: the session's next borrow begins.
Vouches(s) == Sets(s, Idle(net[s])) /\ Renew(s) /\ NewBorrow(s)

-----------------------------------------------------------------------------
(* The calls                                                               *)

Begins(s, call) ==
    /\ net[s].op = "none"
    /\ May(s, call)

Started(s, call) == [net[s] EXCEPT !.op = call]

LockingCall(s) == \E call \in {"load", "diff", "commit", "confirm"} :
    /\ Begins(s, call)
    /\ Locks(s, Started(s, call))
    /\ Calls(s, call)

\* check_edit refuses the payload, and nothing is sent.
PayloadRefused(s) ==
    /\ Begins(s, "load")
    /\ Ends(s, net[s], "spent")

CommitHistory(s) ==
    /\ Begins(s, "history")
    /\ Asks(s, Started(s, "history"), "history")
    /\ Calls(s, "history")

\* release(), and close(), which begins with it.  A session in doubt is only
\* torn down; one that holds nothing has nothing to ask the device.
Release(s) == \E call \in {"release", "close"} :
    /\ Begins(s, call)
    /\ IF net[s].doubtful
       THEN Discards(s, net[s], "gone")
       ELSE IF net[s].locked
       THEN /\ Asks(s, Started(s, call), IF net[s].dirty THEN "rollback" ELSE "unlock")
            /\ Calls(s, call)
       ELSE IF call = "close"
       THEN Asks(s, Started(s, call), "bye") /\ Calls(s, call)
       ELSE Ends(s, net[s], "kept")

\* reuse(): a dead session may not look it.  What it vouches for is borrowed,
\* after thirty idle seconds only once the device has answered; anything else
\* the manager discards.
Reuse(s) ==
    /\ Begins(s, "reuse")
    /\ \/ (net[s].doubtful \/ ~wire[s].up) /\ Discards(s, net[s], "gone")
       \/ ~net[s].doubtful /\ Vouches(s)
       \/ ~net[s].doubtful /\ Asks(s, Started(s, "reuse"), "probe") /\ Calls(s, "reuse")
-----------------------------------------------------------------------------
(* The answers                                                             *)

Answered(s, r) == net[s].awaits = r /\ wire[s].answer # "none"
Ok(s) == wire[s].answer = "ok"

\* A lock refused on a transport that breaks before the refusal is looked at
\* leaves the session in doubt.
LockAnswered(s) ==
    /\ Answered(s, "lock")
    /\ \/ Ok(s) /\ Goes(s, [net[s] EXCEPT !.locked = TRUE]) /\ UNCHANGED caller
       \/ ~Ok(s) /\ Ends(s, net[s], "spent")
       \/ ~Ok(s) /\ Discards(s, net[s], "spent")

LoadAnswered(s) ==
    /\ Answered(s, "load")
    /\ Ends(s, net[s], IF Ok(s) THEN "loaded" ELSE "spent")

\* A difference is checked before it is said; without one no commit follows.
DiffAnswered(s) ==
    /\ Answered(s, "diff")
    /\ IF Ok(s) THEN Asks(s, net[s], "check") /\ UNCHANGED caller
       ELSE Ends(s, net[s], "spent")

CheckAnswered(s) ==
    /\ Answered(s, "check")
    /\ Ends(s, net[s], IF Ok(s) THEN "changed" ELSE "spent")

\* A confirm goes on to its commit when one is pending.
HistoryAnswered(s) ==
    /\ Answered(s, "history")
    /\ IF Ok(s) /\ net[s].op = "confirm"
       THEN Asks(s, net[s], "commit") /\ UNCHANGED caller
       ELSE Ends(s, net[s], IF Ok(s) THEN "asked" ELSE "spent")

\* COMMIT_FAILED leaves the candidate to release().
CommitAnswered(s) ==
    /\ Answered(s, "commit")
    /\ IF Ok(s) THEN EndsTelling(s, [net[s] EXCEPT !.dirty = FALSE], "spent", "committed")
       ELSE EndsTelling(s, net[s], "spent", "failed")

RollbackAnswered(s) ==
    /\ Answered(s, "rollback")
    /\ IF Ok(s) THEN Asks(s, net[s], "unlock") /\ UNCHANGED caller
       ELSE Discards(s, net[s], "gone")

UnlockAnswered(s) ==
    /\ Answered(s, "unlock")
    /\ IF ~Ok(s) THEN Discards(s, net[s], "gone")
       ELSE IF net[s].op = "close"
       THEN Asks(s, Cleaned(net[s]), "bye") /\ UNCHANGED caller
       ELSE Ends(s, Cleaned(net[s]), "kept")

\* Good or bad, the transport goes with the good-bye.
ByeAnswered(s) ==
    /\ Answered(s, "bye")
    /\ Discards(s, net[s], "gone")

\* Any answer of the device, a refusal too, shows that it lives.
ProbeAnswered(s) ==
    /\ Answered(s, "probe")
    /\ Vouches(s)

-----------------------------------------------------------------------------
(* No answer: the RPC's timeout, or a transport found closed               *)

\* A lock or a cleanup that got no answer leaves the session in doubt.
LockUnanswered(s) ==
    /\ net[s].awaits = "lock"
    /\ Discards(s, net[s], "doubted")

CleanupUnanswered(s) ==
    /\ net[s].awaits \in {"rollback", "unlock", "bye", "probe"}
    /\ Discards(s, net[s], "gone")

\* A load or a read leaves it to its caller.
StepUnanswered(s) ==
    /\ net[s].awaits \in {"load", "diff", "check", "history"}
    /\ Ends(s, net[s], "doubted")

\* Seeded faults: the session of a commit without an answer is kept like that of
\* any other fault; such a commit is reported as one that failed.
CommitUnansweredKept(s) ==
    /\ net[s].awaits = "commit"
    /\ EndsTelling(s, net[s], "doubted", "unknown")

CommitUnansweredFailed(s) ==
    /\ net[s].awaits = "commit"
    /\ DiscardsTelling(s, net[s], "doubted", "failed")

\* OUTCOME_UNKNOWN: never a rollback, never a replay.
CommitUnanswered(s) ==
    /\ net[s].awaits = "commit"
    /\ DiscardsTelling(s, net[s], "doubted", "unknown")

\* discard() from the manager's thread, between calls or beside one that runs;
\* so does a close() beside a commit.
Discard(s) ==
    /\ Abandons(s)
    /\ Sets(s, Discarded(net[s]))
    /\ Cut(s)

NetThread(s) ==
    \/ LockAnswered(s) \/ LoadAnswered(s) \/ DiffAnswered(s) \/ CheckAnswered(s)
    \/ HistoryAnswered(s) \/ CommitAnswered(s) \/ RollbackAnswered(s)
    \/ UnlockAnswered(s) \/ ByeAnswered(s) \/ ProbeAnswered(s)
    \/ LockUnanswered(s) \/ CleanupUnanswered(s) \/ StepUnanswered(s)
    \/ CommitUnanswered(s)

NetCall(s) ==
    LockingCall(s) \/ PayloadRefused(s) \/ CommitHistory(s) \/ Release(s) \/ Reuse(s)

NetNext == \E s \in NetSession : NetThread(s) \/ NetCall(s) \/ Discard(s)
=============================================================================
