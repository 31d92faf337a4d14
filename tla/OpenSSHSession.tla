--------------------------- MODULE OpenSSHSession ---------------------------
(***************************************************************************)
(* A session of the OpenSSH communicator (hssh/communicators/openssh.py):  *)
(* one ssh process logs in and stays as the ControlMaster; every show is   *)
(* an ssh of its own through the master, and the edits are typed by the    *)
(* CLI engine on a shell through it, opened at the first one.  An ssh that *)
(* finds no master logs in by itself, if its credentials let it.           *)
(*                                                                         *)
(* wire[s] is the shell's transport: down until the shell is connected.    *)
(* `ssh -O exit` reaches a master that lives; that it may not answer in    *)
(* its two seconds is left out.                                            *)
(***************************************************************************)
EXTENDS CliEngine

CONSTANTS
    MuxSession,     \* the CLI sessions of this communicator
    KeyLogin        \* an ssh without a master can log in: the credentials are a
                    \*   key or an agent's, since nothing asks for a password

VARIABLE mux        \* each OpenSSHSession, and its ssh processes

\* ready: session.ready.  master: the ControlMaster lives.  shell: the edit
\* shell, that session.channel and session.engine name once it is on; late is on
\* for a session torn down before.  direct: its ssh found no master.
Mux == [ready : BOOLEAN, master : BOOLEAN, direct : BOOLEAN,
        shell : {"none", "starting", "opening", "on", "late"}]

MuxTypeOK == mux \in [MuxSession -> Mux]

\* open() has returned for the sessions in `open`.
MuxInit(open) == mux = [s \in MuxSession |->
    [ready |-> s \in open, master |-> s \in open, direct |-> FALSE, shell |-> "none"]]

-----------------------------------------------------------------------------
(* The processes                                                           *)

\* _teardown: the session is ready no more and its master told to exit.
Torn(s) == mux' = [mux EXCEPT ![s].ready = FALSE, ![s].master = FALSE]

\* With the master ends what goes through it; the session's channel is closed,
\* but an ssh that is still connecting is not the session's yet.
CutReached(s) ==
    IF mux[s].shell \in {"starting", "opening"} /\ mux[s].direct THEN Read(s) ELSE Cut(s)

MasterDies(s) ==
    /\ mux[s].master
    /\ mux' = [mux EXCEPT ![s].master = FALSE]
    /\ IF mux[s].direct THEN UNCHANGED deviceVars ELSE Cut(s)
    /\ UNCHANGED <<caller, cli>>

-----------------------------------------------------------------------------
(* The shell                                                               *)

\* _shell, at the first edit or commit history of the session.  Of a session
\* torn down it raises SESSION_LOST; its caller then only releases or closes it.
ShellOpens(s) == \E call \in {"load", "history"} :
    /\ Begins(s, call)
    /\ mux[s].ready /\ mux[s].shell = "none"
    /\ mux' = [mux EXCEPT ![s].shell = "starting"]
    /\ Sets(s, [Started(s, call) EXCEPT !.awaits = "login"])
    /\ Calls(s, call)
    /\ UNCHANGED deviceVars

\* Its ssh looks for the master.
ShellStarts(s) ==
    /\ mux[s].shell = "starting"
    /\ mux' = [mux EXCEPT ![s].shell = "opening", ![s].direct = ~mux[s].master]
    /\ UNCHANGED <<deviceVars, caller, cli>>

\* It could not be started here: the session stays as it is.
ShellUnstarted(s) ==
    /\ mux[s].shell = "starting"
    /\ mux' = [mux EXCEPT ![s].shell = "none"]
    /\ Ends(s, cli[s], "spent")

ShellConnects(s) ==
    /\ mux[s].shell = "opening"
    /\ IF mux[s].direct THEN KeyLogin ELSE mux[s].master
    /\ ~wire[s].up /\ ~wire[s].served
    /\ Connect(s)
    /\ UNCHANGED <<mux, cli, caller>>

\* The prompt is learned: the session has its engine, whatever became of the
\* session, and the call goes on.
ShellReady(s) ==
    /\ mux[s].shell = "opening" /\ wire[s].up
    /\ mux' = [mux EXCEPT ![s].shell = IF mux[s].ready THEN "on" ELSE "late"]
    /\ \/ cli[s].op = "load" /\ Enters(s, cli[s]) /\ UNCHANGED caller
       \/ cli[s].op = "history" /\ Types(s, cli[s], "history") /\ UNCHANGED caller
       \/ cli[s].op = "load" /\ Ends(s, cli[s], "spent")

\* Refused, lost, or not over by the setup deadline: the session is torn down
\* and the shell's process ended.  The kind decides what the caller does then.
ShellFails(s) ==
    /\ mux[s].shell = "opening"
    /\ mux' = [mux EXCEPT ![s] =
          [ready |-> FALSE, master |-> FALSE, direct |-> FALSE, shell |-> "none"]]
    /\ Sets(s, Idle(cli[s])) /\ Cut(s)
    /\ \E stage \in {"doubted", "spent"} : Returns(s, stage)

-----------------------------------------------------------------------------
(* The other calls                                                         *)

\* _exec: an ssh for one show.
Show(s) ==
    /\ Begins(s, "show")
    /\ mux[s].ready
    /\ Sets(s, [Started(s, "show") EXCEPT !.awaits = "exec"])
    /\ Calls(s, "show")
    /\ UNCHANGED <<deviceVars, mux>>

\* Output, a refusal, or an ssh that could not be started.
ShowEnds(s) ==
    /\ cli[s].awaits = "exec"
    /\ mux[s].master \/ KeyLogin
    /\ Ends(s, cli[s], "spent")
    /\ UNCHANGED mux

\* The command's timeout, or ssh's exit 255 with words of its own or without a
\* master that answers.
ShowLost(s) ==
    /\ cli[s].awaits = "exec"
    /\ Torn(s)
    /\ Sets(s, Idle(cli[s])) /\ CutReached(s)
    /\ Returns(s, "doubted")

\* release() and close(): of a session that is torn down, or has no shell yet,
\* nothing is asked.
MuxRelease(s) == \E call \in {"release", "close"} :
    /\ ~mux[s].ready \/ mux[s].shell = "none"
    /\ Begins(s, call)
    /\ IF mux[s].ready /\ call = "release"
       THEN Ends(s, cli[s], "kept") /\ UNCHANGED mux
       ELSE Closes(s, cli[s]) /\ Torn(s)

\* reuse(): the master must answer, and a shell that was opened look alive;
\* after thirty idle seconds an empty line has to bring its prompt.
MuxReuse(s) ==
    /\ Begins(s, "reuse")
    /\ \/ Closes(s, cli[s]) /\ Torn(s)
       \/ mux[s].ready /\ mux[s].master /\ mux[s].shell = "none" /\ Vouches(s) /\ UNCHANGED mux
       \/ /\ mux[s].ready /\ mux[s].master /\ mux[s].shell = "on"
          /\ cli[s].ready
          /\ \/ Vouches(s)
             \/ Types(s, Started(s, "reuse"), "probe") /\ Calls(s, "reuse")
          /\ UNCHANGED mux

\* Seeded fault: only the master is told, and what logged in by itself stays.
MuxDiscardMaster(s) ==
    /\ Abandons(s)
    /\ Torn(s)
    /\ IF mux[s].direct THEN Read(s) ELSE Cut(s)
    /\ UNCHANGED cli

\* discard() from the manager's thread.
MuxDiscard(s) ==
    /\ Abandons(s)
    /\ Torn(s)
    /\ CutReached(s)
    /\ UNCHANGED cli

-----------------------------------------------------------------------------
(* With the engine                                                         *)

\* A step of the engine that ends the borrow is its close(), or is followed by
\* the manager's discard().
OnShell(s) ==
    /\ mux[s].shell \in {"on", "late"}
    /\ \/ CliThread(s)
       \/ mux[s].ready /\ (Entering(s) \/ PayloadRefused(s) \/ CommitHistory(s) \/ Release(s))
    /\ IF caller'[s].stage = "gone" THEN Torn(s) ELSE UNCHANGED mux

MuxNext == \E s \in MuxSession :
    \/ ShellOpens(s) \/ ShellStarts(s) \/ ShellUnstarted(s) \/ ShellConnects(s)
    \/ ShellReady(s) \/ ShellFails(s)
    \/ Show(s) \/ ShowEnds(s) \/ ShowLost(s)
    \/ MuxRelease(s) \/ MuxReuse(s) \/ MuxDiscard(s) \/ MasterDies(s) \/ OnShell(s)
=============================================================================
