----------------------------- MODULE Scheduler ------------------------------
(***************************************************************************)
(* One run of hssh/orchestrator/scheduler.py: a task per target, at most   *)
(* Workers of them in flight, attempts under the safety gate, the mode's   *)
(* operations in order on the borrowed session, the policy's retries and   *)
(* cooldowns, and the first interrupt arriving at any point.               *)
(*                                                                         *)
(* The gate is seen through its contract (SafetyGate models its inside),   *)
(* within one minute: no login leaves its window.  A session is present    *)
(* only as the attempt's phase (SessionManager models the borrow).  A call *)
(* returns anything its communicator may return, or nothing at all: its    *)
(* budget then ends the wait.  Awaits behave as in Python 3.12 and later:  *)
(* a cancelled task gets CancelledError at the await it is in.             *)
(***************************************************************************)
EXTENDS Policy, Sequences, FiniteSets

CONSTANTS
    Target, Device,
    DeviceOf,           \* the host and port the gate keys a target by
    Workers,            \* the worker limit
    KeyOf,              \* the session key the plan counts a target under
    Line,               \* configuration lines and commands
    Specs,              \* the RunSpecs a caller may ask for
    RateLimit,          \* SafetySettings.rate_limit
    SkipUnreachable,    \* RunSpec.skip_unreachable
    OpenFaults,         \* the faults an open may end in
    OpFaults,           \* the faults an operation may end in, by mode
    CommitFaults,       \* the faults only a commit may end in
    LateClosing         \* bound: the targets whose close may fail

\* A show and a structured run are batches too.
Modes == {"edit", "batch", "confirm", "config", "commit_status"}

\* The operations that are not the payload's.  A line or a command that reads
\* like one is left out: what tells them apart in the code is mostly their place.
OwnSteps == {"open", "close", "diff", "commit", "confirm", "commit_history"}

\* targets: the ones it lists.  payload: the load operations of an edit (one,
\* or one per line), or the commands of a batch; neither is ever empty.  apply:
\* commit, or a dry run.  reads: every command is a read in its dialect.  pool:
\* the sessions are kept between borrows, as a Fleet's are.
RunSpec == [mode : Modes, targets : SUBSET Target, payload : Seq(Line),
            apply : BOOLEAN, reads : BOOLEAN, pool : BOOLEAN]

\* Only the sending of a commit or a confirm leaves its outcome unknown.
Certain == {fault \in Fault : fault.kind # "OUTCOME_UNKNOWN"}

ASSUME SchedulerAssumption ==
    /\ DeviceOf \in [Target -> Device] /\ IsFiniteSet(Target)
    /\ DOMAIN KeyOf = Target /\ Line \cap OwnSteps = {}
    /\ Workers \in Nat \ {0} /\ RateLimit \in Nat
    /\ \A s \in Specs : s \in RunSpec /\ (s.mode \in {"edit", "batch"} => s.payload # <<>>)
    /\ SkipUnreachable \in BOOLEAN /\ LateClosing \subseteq Target
    /\ OpFaults \in [Modes -> SUBSET Certain]
    /\ OpenFaults \cup CommitFaults \subseteq Fault

VARIABLES
    run,        \* the RunSpec, where run() is, whether the first interrupt
                \* came, the targets a cooldown held and the probe found dead
    job,        \* job[t]: where the target's task is
    gate,       \* the safety gate: devices reserved, devices cooled down,
                \* logins counted, and whether its file turned out unusable
    result,     \* result[t]: the recorded status and operations, and the
                \* operations that got an audit entry
    sent,       \* history: commits and confirms sent to each target
    due         \* history: devices that met a fault the table cools down

vars == <<run, job, gate, result, sent, due>>

Mode == run.spec.mode
Pool == run.spec.pool
Listed == run.spec.targets

NoFault == [kind |-> "NONE", reached |-> FALSE]
Op(step, fault) == [step |-> step, fault |-> fault]
Failed(op) == op.fault # NoFault
LocalOpen == Op("open", AFault("LOCAL", FALSE))
\* What _bounded records when something other than a Fault was raised.
Broken == <<Op("open", AFault("LOCAL", TRUE))>>
TimedOut == AFault("TIMEOUT", TRUE)

Idle == [pc |-> "queued", attempt |-> 1, next |-> 1, ops |-> <<>>, freshAt |-> 0,
         kept |-> FALSE, cancelled |-> FALSE, pastCommit |-> FALSE]
Over == [Idle EXCEPT !.pc = "done"]
Unknown == [status |-> "none", ops |-> <<>>, audited |-> {}]

\* The operations of the mode, in order.
Steps == CASE Mode = "edit" -> run.spec.payload \o <<"diff">>
                               \o (IF run.spec.apply THEN <<"commit">> ELSE <<>>)
           [] Mode = "batch" -> run.spec.payload
           [] Mode = "confirm" -> <<"commit_history", "confirm">>
           [] Mode = "commit_status" -> <<"commit_history">>
           [] Mode = "config" -> <<"config">>
StepOf(t) == Steps[job[t].next]
\* The step an interrupt cuts, as it is recorded.
CutStep(t) == IF Mode \in {"edit", "batch"} THEN StepOf(t) ELSE Mode
Commits == {"commit", "confirm"}
Discarding == {"TIMEOUT", "SESSION_LOST", "OUTCOME_UNKNOWN"}
\* recorder.AUDITED; a line of the payload is audited as a load.
Audited == {"diff", "commit", "confirm"}
           \cup (IF Mode = "edit" THEN {run.spec.payload[i] : i \in DOMAIN run.spec.payload} ELSE {})

InSession == {"operating", "fresh", "releasing"}
Admitted == {"opening"} \cup InSession
InFlight == Admitted \cup {"pausing"}
Begun(t) == job[t].pc \in InFlight
SlotFree == Cardinality({t \in Target : Begun(t)}) < Workers
Stopped(t) == job[t].cancelled

-----------------------------------------------------------------------------
(* The gate, as the policy uses it                                         *)

Full(g, d) == g.logins[d] >= RateLimit
LoginCounted(g, d) == [g EXCEPT !.logins[d] = @ + 1]

\* check_device: turned away by a cooldown, a reservation, or a full window.
TurnedAway(g, d, login) == d \in g.cooled \/ d \in g.active \/ (login /\ Full(g, d))
Reserved(g, d, login) ==
    [IF login THEN LoginCounted(g, d) ELSE g EXCEPT !.active = @ \cup {d}]

\* Seeded fault: the reservation goes, the cooldown is forgotten.
SettleReleases(g, d, cool) == [g EXCEPT !.active = @ \ {d}]

\* Policy.settle: release, or cool down as decided; a gate whose file is
\* unusable raises before it cools down or releases.
Settle(g, d, cool) ==
    IF ~cool THEN [g EXCEPT !.active = @ \ {d}]
    ELSE IF g.broken THEN g
    ELSE [g EXCEPT !.active = @ \ {d}, !.cooled = @ \cup {d}]

-----------------------------------------------------------------------------
(* The end of an attempt                                                   *)

\* Seeded fault: only the last operation is looked at.
FaultyLast(ops) == {i \in {Len(ops)} : Failed(ops[i])}

Faulty(ops) == {i \in DOMAIN ops : Failed(ops[i])}
FirstFaulty(ops) == ops[CHOOSE i \in Faulty(ops) : \A j \in Faulty(ops) : i <= j]
Reads == Mode \in {"batch", "config", "commit_status"} /\ run.spec.reads

\* _judge, on the first fault.
Judge(op, attempt) == Decide(op.fault, Reads, Mode = "edit", op.step = "open", attempt)
VerdictOn(ops, attempt) == Judge(FirstFaulty(ops), attempt)

\* The connect cut short: nothing but an open fault that reached nothing.
InterruptedConnect(ops) ==
    Len(ops) = 1 /\ ops[1].step = "open" /\ Failed(ops[1]) /\ ~ops[1].fault.reached

AuditEntries(ops) == {ops[i].step : i \in DOMAIN ops} \cap Audited

\* _run_target's end: the last attempt's operations recorded and audited.
Recorded(t, ops, status) ==
    /\ job' = [job EXCEPT ![t] = Over]
    /\ result' = [result EXCEPT ![t] =
         [status |-> IF run.stopping /\ InterruptedConnect(ops) THEN "skipped" ELSE status,
          ops |-> ops, audited |-> AuditEntries(ops)]]

\* _failed_before: one operation, no driver, nothing audited.
FailedBefore(t, op, status) ==
    /\ job' = [job EXCEPT ![t] = Over]
    /\ result' = [result EXCEPT ![t] = [status |-> status, ops |-> <<op>>, audited |-> {}]]

\* The attempt's verdict, the gate settled, a retry after a pause unless the
\* interrupt came; g is the gate the operations left.
AttemptOver(t, attempt, ops, g) ==
    LET d == DeviceOf[t] IN
    IF Faulty(ops) = {}
    THEN gate' = Settle(g, d, FALSE) /\ Recorded(t, ops, "ok")
    ELSE LET verdict == VerdictOn(ops, attempt) IN
         /\ gate' = Settle(g, d, verdict.cool)
         /\ IF verdict.action = "RETRY" /\ ~run.stopping
            THEN /\ job' = [job EXCEPT ![t] = [Idle EXCEPT !.pc = "pausing", !.attempt = attempt,
                                                          !.ops = ops]]
                 /\ UNCHANGED result
            ELSE Recorded(t, ops, "failed")

\* Whether the session is torn down: a fault since the last fresh one that
\* leaves its state in doubt.
Stale(ops, freshAt) == \E i \in (freshAt + 1) .. Len(ops) : ops[i].fault.kind \in Discarding

\* _attempt after its operations.  A kept session's cleanup is awaited; a
\* close or a teardown is only started.
OperationsOver(t, ops, g) ==
    IF Pool /\ ~Stale(ops, job[t].freshAt)
    THEN /\ job' = [job EXCEPT ![t].pc = "releasing", ![t].ops = ops]
         /\ gate' = g
         /\ UNCHANGED result
    ELSE AttemptOver(t, job[t].attempt, ops, g)

\* _bounded on anything but a Fault: the gate settled, the target failed.
Bug(t, g) ==
    /\ gate' = Settle(g, DeviceOf[t], FALSE)
    /\ job' = [job EXCEPT ![t] = Over]
    /\ result' = [result EXCEPT ![t] = [status |-> "failed", ops |-> Broken, audited |-> {}]]

-----------------------------------------------------------------------------
(* The start of an attempt                                                 *)

\* Seeded fault: a retry is not asked of the gate.
AttemptUnasked(t, attempt) ==
    /\ gate' = Reserved(gate, DeviceOf[t], TRUE)
    /\ job' = [job EXCEPT ![t] = [Idle EXCEPT !.pc = "opening", !.attempt = attempt]]
    /\ UNCHANGED result

\* _attempt up to the open: a kept session asks for no login.
Attempt(t, attempt) ==
    LET d == DeviceOf[t] IN
    \/ /\ gate' = [gate EXCEPT !.broken = TRUE]
       /\ Recorded(t, <<LocalOpen>>, "failed")
    \/ /\ ~gate.broken
       /\ \E kept \in {FALSE, Pool} :
            IF TurnedAway(gate, d, ~kept)
            THEN UNCHANGED gate /\ Recorded(t, <<LocalOpen>>, "skipped")
            ELSE /\ gate' = Reserved(gate, d, ~kept)
                 /\ job' = [job EXCEPT ![t] = [Idle EXCEPT !.pc = "opening", !.kept = kept,
                                                          !.attempt = attempt]]
                 /\ UNCHANGED result

\* A target gets a slot: held by a cooldown or found dead, it is done; so is
\* one with no driver or no payload, or whose payload the dialect refuses.
Begin(t) ==
    /\ run.pc = "going" /\ job[t].pc = "queued" /\ SlotFree
    /\ \/ /\ t \in run.held
          /\ FailedBefore(t, LocalOpen, "skipped") /\ UNCHANGED gate
       \/ /\ t \in run.dead \ run.held
          /\ FailedBefore(t, Op("open", AFault("UNREACHABLE", FALSE)),
                          IF Mode = "edit" THEN "skipped" ELSE "failed")
          /\ UNCHANGED gate
       \/ /\ t \notin run.held \cup run.dead
          /\ \E status \in {"failed", "skipped"} : FailedBefore(t, LocalOpen, status)
          /\ UNCHANGED gate
       \/ /\ t \notin run.held \cup run.dead
          /\ Attempt(t, 1)
    /\ UNCHANGED <<run, sent, due>>

PauseEnds(t) ==
    /\ job[t].pc = "pausing" /\ ~Stopped(t)
    /\ Attempt(t, job[t].attempt + 1)
    /\ UNCHANGED <<run, sent, due>>

\* The attempt before the pause is the last.
PauseCancelled(t) ==
    /\ job[t].pc = "pausing" /\ Stopped(t)
    /\ Recorded(t, job[t].ops, "failed")
    /\ UNCHANGED <<run, gate, sent, due>>

-----------------------------------------------------------------------------
(* The open                                                                *)

\* The next operation starts; a target is marked past its commit before the
\* commit is sent.
Start(t, next, ops, g) ==
    /\ job' = [job EXCEPT ![t].pc = "operating", ![t].next = next, ![t].ops = ops,
                          ![t].pastCommit = (Steps[next] = "commit")]
    /\ sent' = [sent EXCEPT ![t] = IF Steps[next] \in Commits THEN @ + 1 ELSE @]
    /\ gate' = g
    /\ UNCHANGED result

\* The kept session was vouched for, or an open returned one.
Opened(t) ==
    /\ job[t].pc = "opening" /\ ~Stopped(t)
    /\ Start(t, 1, <<>>, gate)
    /\ UNCHANGED <<run, due>>

\* The kept session is not vouched for: the login that replaces it is asked
\* of the gate, and a refusal skips the target.
NotReused(t) ==
    LET d == DeviceOf[t] IN
    /\ job[t].pc = "opening" /\ job[t].kept /\ ~Stopped(t)
    /\ IF gate.broken THEN Bug(t, gate)
       ELSE IF Full(gate, d)
       THEN gate' = Settle(gate, d, FALSE) /\ Recorded(t, <<LocalOpen>>, "skipped")
       ELSE /\ gate' = LoginCounted(gate, d)
            /\ job' = [job EXCEPT ![t].kept = FALSE]
            /\ UNCHANGED result
    /\ UNCHANGED <<run, sent, due>>

\* Devices the table of section 4.4 cools down for this fault.
DueFor(t, op) ==
    IF CooledDown(op.fault, Mode = "edit", op.step = "open") THEN due \cup {DeviceOf[t]} ELSE due

OpenEnds(t, fault) ==
    /\ job[t].pc = "opening" /\ ~Stopped(t)
    /\ AttemptOver(t, job[t].attempt, <<Op("open", fault)>>, gate)
    /\ due' = DueFor(t, Op("open", fault))
    /\ UNCHANGED <<run, sent>>

OpenFails(t) == ~job[t].kept /\ \E fault \in OpenFaults : OpenEnds(t, fault)
OpenOverBudget(t) == OpenEnds(t, TimedOut)

\* The cancelled open is an ordinary fault that reached nothing.
OpenCancelled(t) ==
    /\ job[t].pc = "opening" /\ Stopped(t)
    /\ AttemptOver(t, job[t].attempt, <<LocalOpen>>, gate)
    /\ UNCHANGED <<run, sent, due>>

OpenBreaks(t) ==
    /\ job[t].pc = "opening" /\ ~Stopped(t)
    /\ Bug(t, gate)
    /\ UNCHANGED <<run, sent, due>>

-----------------------------------------------------------------------------
(* The operations                                                          *)

\* Seeded fault: the fresh login is counted without asking.
FreshUnasked(t, ops) ==
    /\ job' = [job EXCEPT ![t].pc = "fresh", ![t].ops = ops]
    /\ gate' = LoginCounted(gate, DeviceOf[t])
    /\ UNCHANGED result

\* A timed-out session is torn down and, once the gate counted the login, a
\* fresh one is opened for the rest of the batch.
Fresh(t, ops) ==
    LET d == DeviceOf[t] IN
    IF gate.broken THEN Bug(t, gate)
    ELSE IF Full(gate, d) THEN OperationsOver(t, Append(ops, LocalOpen), gate)
    ELSE /\ job' = [job EXCEPT ![t].pc = "fresh", ![t].ops = ops]
         /\ gate' = LoginCounted(gate, d)
         /\ UNCHANGED result

\* Only a batch goes on after a fault, on the same session unless it timed out
\* or was lost.
GoesOn(fault) == fault = NoFault \/ (Mode = "batch" /\ fault.kind \notin {"TIMEOUT", "SESSION_LOST"})

\* The operations once the call has returned fault.  An empty diff ends an
\* edit, a history with nothing pending a confirm.
Returned(t, fault, empty) ==
    LET ops == Append(job[t].ops, Op(StepOf(t), fault))
        last == job[t].next = Len(Steps)
        refused == Op("confirm", AFault("REFUSED", TRUE))
    IN
    /\ due' = DueFor(t, Op(StepOf(t), fault))
    /\ IF fault.kind = "TIMEOUT" /\ Mode = "batch" /\ ~last
       THEN Fresh(t, ops) /\ UNCHANGED sent
       ELSE IF last \/ ~GoesOn(fault)
       THEN OperationsOver(t, ops, gate) /\ UNCHANGED sent
       ELSE IF empty
       THEN /\ OperationsOver(t, IF Mode = "confirm" THEN Append(ops, refused) ELSE ops, gate)
            /\ UNCHANGED sent
       ELSE Start(t, job[t].next + 1, ops, gate)
    /\ UNCHANGED run

Faults(t) == OpFaults[Mode] \cup (IF StepOf(t) \in Commits THEN CommitFaults ELSE {})

OperationReturns(t) ==
    /\ job[t].pc = "operating" /\ ~Stopped(t)
    /\ \E fault \in Faults(t) \cup {NoFault}, empty \in BOOLEAN :
         /\ empty => fault = NoFault /\ StepOf(t) \in {"diff", "commit_history"}
         /\ Returned(t, fault, empty)

\* Seeded fault: the first operation has no budget.
OperationUnbounded(t) ==
    /\ job[t].pc = "operating" /\ ~Stopped(t) /\ job[t].next > 1
    /\ Returned(t, TimedOut, FALSE)

\* The call has not returned within its budget; its thread is left to finish.
OperationOverBudget(t) ==
    /\ job[t].pc = "operating" /\ ~Stopped(t)
    /\ Returned(t, TimedOut, FALSE)

\* A bug in the communicator: the session is given back as if it were fine,
\* then the target fails.
OperationBreaks(t) ==
    /\ job[t].pc = "operating" /\ ~Stopped(t)
    /\ IF Pool
       THEN job' = [job EXCEPT ![t].pc = "releasing", ![t].ops = Broken] /\ UNCHANGED <<gate, result>>
       ELSE Bug(t, gate)
    /\ UNCHANGED <<run, sent, due>>

\* Cancelled in session: the gate released, the session torn down, the step
\* cut short the one operation recorded.
OperationCancelled(t) ==
    /\ job[t].pc \in {"operating", "fresh"} /\ Stopped(t)
    /\ gate' = Settle(gate, DeviceOf[t], FALSE)
    /\ FailedBefore(t, IF job[t].pc = "fresh" THEN LocalOpen
                       ELSE Op(CutStep(t), AFault("LOCAL", TRUE)), "skipped")
    /\ UNCHANGED <<run, sent, due>>

FreshOpened(t) ==
    /\ job[t].pc = "fresh" /\ ~Stopped(t)
    /\ job' = [job EXCEPT ![t].pc = "operating", ![t].next = @ + 1, ![t].freshAt = Len(job[t].ops)]
    /\ UNCHANGED <<run, gate, result, sent, due>>

FreshEnds(t, fault) ==
    /\ job[t].pc = "fresh" /\ ~Stopped(t)
    /\ OperationsOver(t, Append(job[t].ops, Op("open", fault)), gate)
    /\ UNCHANGED <<run, sent, due>>

FreshFails(t) == \E fault \in OpenFaults : FreshEnds(t, fault)
FreshOverBudget(t) == FreshEnds(t, TimedOut)

\* The kept session's cleanup is over, clean or not.
Released(t) ==
    /\ job[t].pc = "releasing" /\ ~Stopped(t)
    /\ IF job[t].ops = Broken THEN Bug(t, gate)
       ELSE AttemptOver(t, job[t].attempt, job[t].ops, gate)
    /\ UNCHANGED <<run, sent, due>>

\* Cancelled in the cleanup: nothing settles the gate, and the operations that
\* were done give way to the last step, cut short.
ReleaseCancelled(t) ==
    /\ job[t].pc = "releasing" /\ Stopped(t)
    /\ FailedBefore(t, Op(CutStep(t), AFault("LOCAL", TRUE)), "skipped")
    /\ UNCHANGED <<run, gate, sent, due>>

-----------------------------------------------------------------------------
(* The run                                                                 *)

\* Seeded fault: the retries are not in the plan.
PlannedOnce(key) == Cardinality({t \in Listed : KeyOf[t] = key})

\* _plan_logins: the logins the run may make under one session key.
Planned(key) == Cardinality({t \in Listed : KeyOf[t] = key}) * (Retries + 1)

\* execute() to the probe.  The spec, the plan, the records or the gate's file
\* may refuse the run; the targets a cooldown holds are left out of the probe.
Execute ==
    /\ run.pc = "asked"
    /\ \/ run' = [run EXCEPT !.pc = "refused"]
       \/ /\ \A t \in Listed : Planned(KeyOf[t]) <= RateLimit
          /\ \E pc \in {"probing", "going"} :
               run' = [run EXCEPT !.pc = pc,
                                  !.held = {t \in Listed : DeviceOf[t] \in gate.cooled}]
    /\ UNCHANGED <<job, gate, result, sent, due>>

\* The probe's answer: the held targets are left alone; an edit with a dead
\* target is refused unless it may skip it; the records may refuse the run.
ProbeEnds ==
    /\ run.pc = "probing" /\ ~run.stopping
    /\ \E dead \in SUBSET (Listed \ run.held), kept \in BOOLEAN :
         run' = [run EXCEPT !.dead = dead,
                   !.pc = IF kept /\ (Mode # "edit" \/ dead = {} \/ SkipUnreachable)
                          THEN "going" ELSE "refused"]
    /\ UNCHANGED <<job, gate, result, sent, due>>

\* Interrupted during the probe: an edit is refused, as is any run whose row the
\* records do not take; a read is recorded, every target skipped.
ProbeCancelled ==
    /\ run.pc = "probing" /\ run.stopping
    /\ \/ run' = [run EXCEPT !.pc = "refused"] /\ UNCHANGED <<job, result>>
       \/ /\ Mode # "edit"
          /\ run' = [run EXCEPT !.pc = "going"]
          /\ job' = [t \in Target |-> Over]
          /\ result' = [t \in Target |-> IF t \in Listed
               THEN [status |-> "skipped", ops |-> <<LocalOpen>>, audited |-> {}]
               ELSE Unknown]
    /\ UNCHANGED <<gate, sent, due>>

\* Seeded fault: a target past its commit is cancelled too.
CancelledByAll(t) == Begun(t)

\* Seeded fault: a target in its retry pause is not.
CancelledByAdmitted(t) == job[t].pc \in Admitted /\ ~job[t].pastCommit

\* _interrupt cancels what is in flight and not past its commit.
CancelledBy(t) == Begun(t) /\ ~job[t].pastCommit

\* The first interrupt.  A target still waiting for its slot is skipped, with
\* no operation; later interrupts only report.
Interrupt ==
    /\ run.pc \in {"probing", "going"} /\ ~run.stopping
    /\ run' = [run EXCEPT !.stopping = TRUE]
    /\ LET queued == {t \in Target : run.pc = "going" /\ job[t].pc = "queued"} IN
       /\ job' = [t \in Target |-> IF t \in queued THEN Over
                                   ELSE [job[t] EXCEPT !.cancelled = CancelledBy(t)]]
       /\ result' = [t \in Target |-> IF t \in queued THEN [Unknown EXCEPT !.status = "skipped"]
                                      ELSE result[t]]
    /\ UNCHANGED <<gate, sent, due>>

\* The fault of a session's close or teardown comes late, as the target's last
\* operation, its status untouched.  Bound: LateClosing.
LateClose == Op("close", AFault("SESSION_LOST", TRUE))
HadSession(t) == \/ gate.logins[DeviceOf[t]] > 0
                 \/ \E i \in DOMAIN result[t].ops : result[t].ops[i].step # "open"

\* Every task is over: the closes are waited for, the report made, the gate
\* closed with whatever it still had reserved.
End ==
    /\ run.pc = "going" /\ \A t \in Target : job[t].pc = "done"
    /\ run' = [run EXCEPT !.pc = "ended"]
    /\ gate' = [gate EXCEPT !.active = {}]
    /\ \E late \in SUBSET {t \in Listed \cap LateClosing : HadSession(t)} :
         result' = [t \in Target |-> IF t \in late
                      THEN [result[t] EXCEPT !.ops = Append(@, LateClose)] ELSE result[t]]
    /\ UNCHANGED <<job, sent, due>>

Init ==
    /\ gate \in [active : {{}}, cooled : SUBSET Device, logins : [Device -> {0}], broken : {FALSE}]
    /\ \E spec \in Specs :
         run = [spec |-> spec, pc |-> "asked", stopping |-> FALSE, held |-> {}, dead |-> {}]
    /\ job = [t \in Target |-> IF t \in Listed THEN Idle ELSE Over]
    /\ result = [t \in Target |-> Unknown]
    /\ sent = [t \in Target |-> 0]
    /\ due = {}

Cancelled(t) == PauseCancelled(t) \/ OpenCancelled(t) \/ OperationCancelled(t) \/ ReleaseCancelled(t)
OverBudget(t) == OpenOverBudget(t) \/ OperationOverBudget(t) \/ FreshOverBudget(t)
Answered(t) == \/ Opened(t) \/ NotReused(t) \/ OpenFails(t) \/ OpenBreaks(t) \/ OperationReturns(t)
               \/ OperationBreaks(t) \/ FreshOpened(t) \/ FreshFails(t)

\* The run stays ended.
Terminating == run.pc \in {"ended", "refused"} /\ UNCHANGED vars

Next ==
    \/ Execute \/ ProbeEnds \/ ProbeCancelled \/ Interrupt \/ End \/ Terminating
    \/ \E t \in Target : \/ Begin(t) \/ PauseEnds(t) \/ Released(t)
                         \/ Cancelled(t) \/ OverBudget(t) \/ Answered(t)

\* The event loop runs what is ready, and timers end every wait; nothing is
\* assumed of the devices' answers, nor of interrupts.
Fairness ==
    /\ WF_vars(Execute) /\ WF_vars(ProbeEnds \/ ProbeCancelled) /\ WF_vars(End)
    /\ \A t \in Target : /\ WF_vars(Begin(t)) /\ WF_vars(PauseEnds(t)) /\ WF_vars(Released(t))
                         /\ WF_vars(Cancelled(t)) /\ WF_vars(OverBudget(t))

Spec == Init /\ [][Next]_vars /\ Fairness

-----------------------------------------------------------------------------
(* Properties                                                              *)

StepNames == {"open", "close", Mode} \cup {Steps[i] : i \in DOMAIN Steps}
Operation == [step : StepNames, fault : Fault \cup {NoFault}]
\* Nothing is recorded beyond the mode's operations and the opens among them.
Operations(ops) == /\ \A i \in DOMAIN ops : ops[i] \in Operation
                   /\ Len(ops) <= 2 * Len(Steps) + 1

\* Every variable keeps its shape: a task is at one of its operations, and no
\* login is counted beyond the window.
TypeOK ==
    /\ run.pc \in {"asked", "probing", "going", "ended", "refused"} /\ run.stopping \in BOOLEAN
    /\ run.spec \in Specs /\ run.held \cup run.dead \subseteq Listed
    /\ \A t \in Target :
         /\ job[t].pc \in {"queued", "done"} \cup InFlight
         /\ job[t].attempt \in 1 .. (Retries + 1) /\ job[t].next \in DOMAIN Steps
         /\ job[t].freshAt \in 0 .. Len(Steps)
         /\ {job[t].kept, job[t].cancelled, job[t].pastCommit} \subseteq BOOLEAN
         /\ Operations(job[t].ops) /\ Operations(result[t].ops)
         /\ result[t].status \in {"none", "ok", "failed", "skipped"}
         /\ result[t].audited \subseteq Audited
         /\ sent[t] \in Nat
    /\ gate.active \cup gate.cooled \cup due \subseteq Device
    /\ gate.logins \in [Device -> 0 .. RateLimit] /\ gate.broken \in BOOLEAN

Admittees(d) == {t \in Target : DeviceOf[t] = d /\ job[t].pc \in Admitted}

\* A device is worked on by at most one target at a time and reserved meanwhile
\* (admission reserves it, settle ends that); a reservation nobody works under
\* is only what an unusable gate or an interrupted cleanup leaves to the end.
ReservedByOne ==
    \A d \in Device :
        /\ Cardinality(Admittees(d)) <= 1
        /\ Admittees(d) # {} => d \in gate.active
        /\ d \in gate.active /\ Admittees(d) = {} => gate.broken \/ (Pool /\ run.stopping)

\* A commit or a confirm that was sent is sent once, and told: the target's
\* record holds it, whatever its outcome, it has an audit entry, and the target
\* is not called skipped ("Every change is audited").  Only a communicator that
\* raises something other than a Fault escapes.
CommitTold ==
    \A t \in Target : job[t].pc = "done" /\ sent[t] > 0 /\ Head(result[t].ops) # Head(Broken) =>
        /\ sent[t] = 1 /\ result[t].status # "skipped"
        /\ \E i \in DOMAIN result[t].ops : result[t].ops[i].step \in Commits
        /\ result[t].audited \cap Commits # {}

\* After the interrupt no login begins and no commit or confirm is sent: what
\* was in flight only winds down.
StopsAtInterrupt ==
    [][run.stopping => /\ sent' = sent
                       /\ \A d \in Device : gate'.logins[d] = gate.logins[d]
                       /\ \A t \in Target : job[t].pc \in {"queued", "pausing"} =>
                             job'[t].pc \in {job[t].pc, "done"}]_vars

\* Every device that met a fault the table cools down is cooled down when the
\* run is over, unless the gate's file was unusable.
CooldownDecided == run.pc = "ended" => due \subseteq gate.cooled \/ gate.broken

\* And so it is whenever no interrupt can have cut the cleanup of a kept session
\* short.
CooldownDecidedUncut == (Pool /\ run.stopping) \/ CooldownDecided

\* Once a device met such a fault, no other target and no retry of this run
\* logs in to it.
LeftAlone ==
    [][\A t \in Target : job'[t].pc = "opening" /\ job[t].pc # "opening" => DeviceOf[t] \notin due]_vars

\* A target waiting to retry still has a login in its device's window: the plan
\* made before the run, retries + 1 per listing, leaves the gate no reason to
\* turn a device away half-way.  A batch may log in once more for each command
\* that timed out, which the plan does not count.
NeverHalfway ==
    \A t \in Target : job[t].pc = "pausing" /\ Mode # "batch" => ~Full(gate, DeviceOf[t])

\* A target is ok only when every operation of the mode ran and none failed, in
\* order, but for an edit an empty diff ended and a close that failed later.
OkIsComplete ==
    \A t \in Target : result[t].status = "ok" =>
        LET ops == result[t].ops
            ran == {i \in DOMAIN ops : ops[i] # LateClose}
        IN  \E n \in 1 .. Len(Steps) :
              /\ ran = 1 .. n /\ Len(ops) <= n + 1
              /\ \A i \in ran : ops[i] = Op(Steps[i], NoFault)
              /\ n = Len(Steps) \/ Steps[n] = "diff"

\* What the run promises its caller, and that it ends whichever calls never
\* return.
Promise == INSTANCE RunPromise WITH
    listed <- Listed,
    stage <- CASE run.pc \in {"asked", "probing"} -> "asked"
               [] run.pc = "going" -> "on"
               [] OTHER -> run.pc,
    stopped <- run.stopping,
    told <- [t \in Target |-> result[t].status]

PromiseKept == Promise!Spec
=============================================================================
