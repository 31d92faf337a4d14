---------------------------- MODULE JunosDevice ----------------------------
(***************************************************************************)
(* The device as the edit sessions of hssh/communicators use it: one       *)
(* candidate configuration with an exclusive lock, other people who edit   *)
(* without the lock, and the transport to each session.  It is not code of *)
(* the repository: it grants the lock only on a candidate nobody has       *)
(* changed, works off a session's requests in order, may refuse any of     *)
(* them, may take for ever, and drops the lock and the candidate of a      *)
(* session whose transport it sees closed.  Whether a commit waits for its *)
(* confirmation is any answer: timers and other people change it unseen.   *)
(***************************************************************************)
EXTENDS Naturals, FiniteSets, Sequences

CONSTANTS
    Session,        \* the sessions open to this device
    Other,          \* whoever edits the candidate without the lock
    NoOne           \* no session

ASSUME DeviceAssumption == Other \notin Session /\ NoOne \notin Session

VARIABLES
    dev,            \* the candidate, its lock, and what became of each commit
    wire            \* the transport of each session

deviceVars == <<dev, wire>>

\* A commit, confirmed or not, and the bare one that confirms are one request.
Request == {"lock", "load", "diff", "check", "history", "commit",
            "rollback", "unlock", "probe", "bye"}

Dev == [holder : Session \cup {NoOne}, cand : SUBSET (Session \cup {Other}),
        fate : [Session -> {"none", "sent", "landed", "refused"}]]

\* queue: requests the device has not worked off.  answer: the one to the last
\* request, not read yet.  up: the transport as this side has it.  served: the
\* device still keeps the session.  Bound: nobody asks twice after an answer
\* that did not come, so a queue has two requests at most.
Wire == [queue : UNION {[1..n -> Request] : n \in 0..2},
         answer : {"none", "ok", "empty", "refused"},
         up : BOOLEAN, served : BOOLEAN]

DeviceTypeOK == dev \in Dev /\ wire \in [Session -> Wire]

\* The sessions connected at the start; another connects later, or never.
DeviceInit(connected) ==
    /\ dev = [holder |-> NoOne, cand |-> {},
              fate |-> [s \in Session |-> "none"]]
    /\ wire = [s \in Session |->
                  [queue |-> <<>>, answer |-> "none",
                   up |-> s \in connected, served |-> s \in connected]]

Grips(s) == dev.holder = s \/ s \in dev.cand

-----------------------------------------------------------------------------
(* What this side does to the transport                                    *)

\* Send r and forget an answer nobody read; on a dead transport r goes nowhere.
Put(s, r) ==
    /\ wire' = [wire EXCEPT ![s].queue = IF wire[s].up THEN Append(@, r) ELSE @,
                            ![s].answer = "none"]
    /\ dev' = IF wire[s].up /\ r = "commit"
              THEN [dev EXCEPT !.fate[s] = "sent"] ELSE dev

\* The answer is read, and nothing more is sent.
Read(s) ==
    /\ wire' = [wire EXCEPT ![s].answer = "none"]
    /\ UNCHANGED dev

Connect(s) ==
    /\ wire' = [wire EXCEPT ![s].up = TRUE, ![s].served = TRUE]
    /\ UNCHANGED dev

Cut(s) ==
    /\ wire' = [wire EXCEPT ![s].up = FALSE, ![s].answer = "none"]
    /\ UNCHANGED dev

\* The same session in its next borrow: a new edit, with no commit yet.
Renew(s) ==
    /\ wire' = [wire EXCEPT ![s].answer = "none"]
    /\ dev' = [dev EXCEPT !.fate[s] = "none"]

-----------------------------------------------------------------------------
(* What the device does                                                    *)

Out(answer, device) == [answer |-> answer, dev |-> device]
Refused == Out("refused", dev)
Done == Out("ok", dev)

Freed(s) == [dev EXCEPT !.holder = IF @ = s THEN NoOne ELSE @,
                        !.cand = IF dev.holder = s THEN {} ELSE @]

\* The outcomes request r of session s may have.
Outcomes(s, r) ==
    CASE r = "lock" ->
            IF dev.holder = NoOne /\ dev.cand = {}
            THEN {Out("ok", [dev EXCEPT !.holder = s]), Refused} ELSE {Refused}
      [] r = "load" ->
            LET loaded == [dev EXCEPT !.cand = @ \cup {s}]
            IN  {Out("ok", loaded), Out("refused", loaded), Refused}
      [] r \in {"diff", "history"} -> {Done, Out("empty", dev), Refused}
      [] r = "commit" ->
            {Out("ok", [dev EXCEPT !.cand = {}, !.fate[s] = "landed"]),
             Out("refused", [dev EXCEPT !.fate[s] = "refused"])}
      [] r = "rollback" -> {Out("ok", [dev EXCEPT !.cand = {}]), Refused}
      [] r = "unlock" ->
            {Out("ok", [dev EXCEPT !.holder = IF @ = s THEN NoOne ELSE @]), Refused}
      [] OTHER -> {Done, Refused}

Execute(s) ==
    /\ wire[s].served /\ wire[s].queue # <<>>
    /\ \E out \in Outcomes(s, Head(wire[s].queue)) :
          /\ dev' = out.dev
          /\ wire' = [wire EXCEPT
                ![s].queue = Tail(@),
                ![s].answer = IF wire[s].up /\ Len(wire[s].queue) = 1
                              THEN out.answer ELSE "none"]

\* The transport breaks; the device sees a closed one, and what it has not
\* worked off by then it never will.
Break(s) ==
    /\ wire[s].up
    /\ Cut(s)

Notice(s) ==
    /\ wire[s].served /\ ~wire[s].up
    /\ wire' = [wire EXCEPT ![s].served = FALSE, ![s].queue = <<>>]
    /\ dev' = [Freed(s) EXCEPT !.fate[s] = IF @ = "sent" THEN "refused" ELSE @]

\* Others edit the candidate, and drop or commit their lines.
OthersEdit ==
    /\ dev.holder = NoOne
    /\ \E c \in SUBSET {Other} : dev' = [dev EXCEPT !.cand = (@ \ {Other}) \cup c]
    /\ UNCHANGED wire

DeviceNext ==
    \/ \E s \in Session : Execute(s) \/ Break(s) \/ Notice(s)
    \/ OthersEdit
=============================================================================
