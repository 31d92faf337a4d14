---------------------------- MODULE EditSessions ----------------------------
(***************************************************************************)
(* Edit sessions of the three communicators that have them on one device:  *)
(* they share its candidate and its lock, and nothing else.  Together they *)
(* implement EditPromise.                                                  *)
(***************************************************************************)
EXTENDS EditCaller

CONSTANTS
    NetSession, CliSession, MuxSession, KeyLogin,
    Together,       \* bound: the sets of sessions open beside each other
    Lines

ASSUME SessionsAssumption ==
    /\ Session = NetSession \cup CliSession
    /\ NetSession \cap CliSession = {}
    /\ MuxSession \subseteq CliSession
    /\ KeyLogin \in BOOLEAN
    /\ Together \subseteq SUBSET Session
    /\ Lines \in Nat \ {0}

VARIABLES net, cli, mux

vars == <<dev, wire, caller, net, cli, mux>>

Netconf == INSTANCE NetconfSession
Cli == INSTANCE OpenSSHSession

Init == \E open \in Together :
    /\ DeviceInit(open \ MuxSession) /\ CallerInit(open)
    /\ Netconf!NetInit /\ Cli!CliInit /\ Cli!MuxInit(open)

Next ==
    \/ DeviceNext /\ UNCHANGED <<caller, net, cli, mux>>
    \/ Netconf!NetNext /\ UNCHANGED <<cli, mux>>
    \/ Cli!CliNext(CliSession \ MuxSession) /\ UNCHANGED <<net, mux>>
    \/ Cli!MuxNext /\ UNCHANGED net

Spec == Init /\ [][Next]_vars

TypeOK ==
    DeviceTypeOK /\ CallerTypeOK /\ Netconf!NetTypeOK /\ Cli!CliTypeOK /\ Cli!MuxTypeOK

-----------------------------------------------------------------------------
(* Properties                                                              *)

Sends(s, r) == wire'[s].queue = Append(wire[s].queue, r)

\* A commit lands the lines of its own edit and nobody else's: a plain commit
\* would take whatever waits in the candidate, and a confirm sends one.
OnlyOwnLines ==
    [][\A s \in Session :
          dev.fate[s] = "sent" /\ dev'.fate[s] = "landed" => dev.cand \subseteq {s}]_vars

\* No cleanup rolls back once a commit may have landed: only one the device has
\* refused, or none at all, leaves a candidate to discard.
NeverRolledBack ==
    [][\A s \in Session :
          Sends(s, "rollback") => dev.fate[s] \in {"none", "refused"}]_vars

\* Replies at a prompt carry no number, so nothing is typed to a device that
\* still works on an earlier command.
InStep ==
    [][\A s \in CliSession :
          Len(wire'[s].queue) > Len(wire[s].queue) => wire[s].queue = <<>>]_vars

\* What both transports promise of an edit.
Promise == INSTANCE EditPromise WITH
    fate <- dev.fate,
    told <- [s \in Session |-> caller[s].told],
    kept <- {s \in Session : caller[s].stage = "kept"},
    grip <- {s \in Session : Grips(s)}

PromiseKept == Promise!Spec

Left(s) == Grips(s) /\ caller[s].stage = "gone" /\ wire[s].up

\* However an edit ends, nobody is left holding the candidate: a session with a
\* grip on it is in a borrow, or is torn down with its transport closed, which
\* the device sees.  The exception is a shell that came on late: its ssh finds no
\* master and logs in by itself while discard() runs, which closes no shell that has
\* not logged in yet, and the edit's thread goes on with it.
NothingLeftBehind ==
    \A s \in Session :
        /\ Grips(s) => caller[s].stage # "kept"
        /\ Left(s) => s \in MuxSession /\ mux[s].shell = "late"
=============================================================================
