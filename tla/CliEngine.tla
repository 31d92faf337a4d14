------------------------------ MODULE CliEngine ------------------------------
(***************************************************************************)
(* An edit session typed at a prompt: CliEngine of hssh/communicators/     *)
(* cli_engine.py under SSHCommunicator (ssh.py).  The engine's flags, and  *)
(* each method as the thread that runs it goes from one command to the     *)
(* next.  A command is typed and its prompt read back, or the engine is    *)
(* never ready again; replies carry no number, so nothing is typed after a *)
(* reply that did not come.                                                *)
(***************************************************************************)
EXTENDS EditCaller

CONSTANTS
    CliSession,     \* the sessions over an interactive shell
    Lines           \* bound: the configuration lines of an edit

VARIABLE cli        \* each engine, and the thread in a method of it

cliVars == <<cli>>

\* sent: _commit_sent.  op: the method that runs.  awaits: the command whose
\* prompt it waits for (of OpenSSHSession: or the ssh process).  left: lines not typed.
Engine == [ready : BOOLEAN, configured : BOOLEAN, dirty : BOOLEAN, sent : BOOLEAN,
           op : Call \cup {"none"},
           awaits : Request \cup {"none", "login", "exec"}, left : 0..Lines]

CliTypeOK == cli \in [CliSession -> Engine]

CliInit == cli = [s \in CliSession |->
    [ready |-> TRUE, configured |-> FALSE, dirty |-> FALSE, sent |-> FALSE,
     op |-> "none", awaits |-> "none", left |-> 0]]

-----------------------------------------------------------------------------
(* How a step of the thread goes on, and how it ends                       *)

Sets(s, e) == cli' = [cli EXCEPT ![s] = e]

Types(s, e, r) == Sets(s, [e EXCEPT !.awaits = r]) /\ Put(s, r)

Idle(e) == [e EXCEPT !.op = "none", !.awaits = "none", !.left = 0]

EndsTelling(s, e, stage, word) ==
    Sets(s, Idle(e)) /\ Read(s) /\ ReturnsTelling(s, stage, word)
Ends(s, e, stage) == EndsTelling(s, e, stage, caller[s].told)

Lost(e) == [e EXCEPT !.ready = FALSE]

\* CliEngine.discard: the channel is closed and nothing typed.
Closes(s, e) == Sets(s, Idle(Lost(e))) /\ Cut(s) /\ Returns(s, "gone")

\* In configuration mode: what the method types next.
Goes(s, e) ==
    CASE e.op = "load" -> Types(s, [e EXCEPT !.dirty = TRUE, !.left = Lines - 1], "load")
      [] e.op = "confirm" -> Types(s, e, "history")
      [] e.op = "commit" -> Types(s, [e EXCEPT !.sent = TRUE], "commit")
      [] OTHER -> Types(s, e, e.op)

\* _enter: configure exclusive, unless this session is in it.
Enters(s, e) == IF e.configured THEN Goes(s, e) ELSE Types(s, e, "lock")

\* release() once nothing is loaded: leave configuration mode.
Exits(s, e) == Types(s, [e EXCEPT !.dirty = FALSE], "unlock")

\* reuse() answers True: the session's next borrow begins.
Vouches(s) == Sets(s, Idle(cli[s])) /\ Renew(s) /\ NewBorrow(s)

-----------------------------------------------------------------------------
(* The calls                                                               *)

Begins(s, call) ==
    /\ cli[s].op = "none"
    /\ May(s, call)

Started(s, call) == [cli[s] EXCEPT !.op = call]

\* An engine that is not ready types nothing and answers SESSION_LOST.
Entering(s) == \E call \in {"load", "diff", "commit", "confirm"} :
    /\ Begins(s, call)
    /\ \/ cli[s].ready /\ Enters(s, Started(s, call)) /\ Calls(s, call)
       \/ ~cli[s].ready /\ Ends(s, cli[s], "doubted")

\* check_edit refuses the payload, and nothing is typed.
PayloadRefused(s) ==
    /\ Begins(s, "load")
    /\ Ends(s, cli[s], "spent")

CommitHistory(s) ==
    /\ Begins(s, "history")
    /\ \/ cli[s].ready /\ Types(s, Started(s, "history"), "history") /\ Calls(s, "history")
       \/ ~cli[s].ready /\ Ends(s, cli[s], "doubted")

\* release(), and close(), which begins with it.  Out of step, or with a commit
\* whose outcome nobody knows, the channel is closed and nothing typed.
Release(s) == \E call \in {"release", "close"} :
    /\ Begins(s, call)
    /\ IF ~cli[s].ready \/ cli[s].sent THEN Closes(s, cli[s])
       ELSE IF cli[s].configured
       THEN /\ IF cli[s].dirty THEN Types(s, Started(s, call), "rollback")
               ELSE Exits(s, Started(s, call))
            /\ Calls(s, call)
       ELSE IF call = "close" THEN Closes(s, cli[s])
       ELSE Ends(s, cli[s], "kept")

\* reuse(): the engine must be ready and the channel must look alive; after
\* thirty idle seconds an empty line has to bring its prompt.
Reuse(s) ==
    /\ Begins(s, "reuse")
    /\ \/ (~cli[s].ready \/ ~wire[s].up) /\ Closes(s, cli[s])
       \/ cli[s].ready /\ Vouches(s)
       \/ cli[s].ready /\ Types(s, Started(s, "reuse"), "probe") /\ Calls(s, "reuse")

-----------------------------------------------------------------------------
(* The replies                                                             *)

Answered(s, r) == cli[s].awaits = r /\ wire[s].answer # "none"
Ok(s) == wire[s].answer = "ok"

EnterAnswered(s) ==
    /\ Answered(s, "lock")
    /\ IF Ok(s) THEN Goes(s, [cli[s] EXCEPT !.configured = TRUE]) /\ UNCHANGED caller
       ELSE Ends(s, cli[s], "spent")

\* Seeded fault: one line more than there are.
LineAnsweredOnceMore(s) ==
    /\ Answered(s, "load")
    /\ IF Ok(s) /\ cli[s].left >= 0
       THEN Types(s, [cli[s] EXCEPT !.left = @ - 1], "load") /\ UNCHANGED caller
       ELSE Ends(s, cli[s], IF Ok(s) THEN "loaded" ELSE "spent")

\* Line by line, up to the first one refused.
LineAnswered(s) ==
    /\ Answered(s, "load")
    /\ IF Ok(s) /\ cli[s].left > 0
       THEN Types(s, [cli[s] EXCEPT !.left = @ - 1], "load") /\ UNCHANGED caller
       ELSE Ends(s, cli[s], IF Ok(s) THEN "loaded" ELSE "spent")

DiffAnswered(s) ==
    /\ Answered(s, "diff")
    /\ Ends(s, cli[s], IF Ok(s) THEN "changed" ELSE "spent")

HistoryAnswered(s) ==
    /\ Answered(s, "history")
    /\ IF Ok(s) /\ cli[s].op = "confirm"
       THEN Types(s, [cli[s] EXCEPT !.sent = TRUE], "commit") /\ UNCHANGED caller
       ELSE Ends(s, cli[s], IF Ok(s) THEN "asked" ELSE "spent")

\* Only an explicit refusal permits a rollback.
CommitAnswered(s) ==
    /\ Answered(s, "commit")
    /\ IF Ok(s)
       THEN EndsTelling(s, [cli[s] EXCEPT !.dirty = FALSE, !.sent = FALSE], "spent", "committed")
       ELSE EndsTelling(s, [cli[s] EXCEPT !.sent = FALSE], "spent", "failed")

RollbackAnswered(s) ==
    /\ Answered(s, "rollback")
    /\ IF Ok(s) THEN Exits(s, cli[s]) /\ UNCHANGED caller ELSE Closes(s, cli[s])

ExitAnswered(s) ==
    /\ Answered(s, "unlock")
    /\ LET out == [cli[s] EXCEPT !.configured = FALSE]
       IN  IF Ok(s) /\ cli[s].op = "release" THEN Ends(s, out, "kept") ELSE Closes(s, out)

ProbeAnswered(s) ==
    /\ Answered(s, "probe")
    /\ IF ~Ok(s) \/ caller[s].stage = "gone" THEN Closes(s, cli[s]) ELSE Vouches(s)

\* Seeded fault: the engine believes itself in step after a reply that did not
\* come.
StepUnansweredReady(s) ==
    /\ cli[s].awaits \in {"lock", "load", "diff", "history"}
    /\ Ends(s, cli[s], "doubted")

\* The deadline passes or the channel ends before the prompt is back.
StepUnanswered(s) ==
    /\ cli[s].awaits \in {"lock", "load", "diff", "history"}
    /\ Ends(s, Lost(cli[s]), "doubted")

CommitUnanswered(s) ==
    /\ cli[s].awaits = "commit"
    /\ EndsTelling(s, Lost(cli[s]), "doubted", "unknown")

CleanupUnanswered(s) ==
    /\ cli[s].awaits \in {"rollback", "unlock", "probe"}
    /\ Closes(s, cli[s])

\* SSHCommunicator.discard from the manager's thread: the transport goes, the
\* engine is left to find out.
Discard(s) ==
    /\ Abandons(s)
    /\ Cut(s)
    /\ UNCHANGED cli

CliThread(s) ==
    \/ EnterAnswered(s) \/ LineAnswered(s) \/ DiffAnswered(s) \/ HistoryAnswered(s)
    \/ CommitAnswered(s) \/ RollbackAnswered(s) \/ ExitAnswered(s) \/ ProbeAnswered(s)
    \/ StepUnanswered(s) \/ CommitUnanswered(s) \/ CleanupUnanswered(s)

CliCall(s) ==
    Entering(s) \/ PayloadRefused(s) \/ CommitHistory(s) \/ Release(s) \/ Reuse(s)

\* The sessions of SSHCommunicator.
CliNext(sessions) == \E s \in sessions : CliThread(s) \/ CliCall(s) \/ Discard(s)
=============================================================================
