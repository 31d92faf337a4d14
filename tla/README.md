# Verification of h-ssh

h-ssh logs in to network devices over SSH, Telnet or NETCONF and runs reads, edits and confirms on many of them at
once. This directory holds TLA+ modules translated from `src/h-app/hssh`, the TLC configurations that check them on
small instances, and TLAPS proofs for every size. `PROJECT.json` maps each definition to the lines it stands for.

## The system

| Component | State it keeps | Operations | What makes it correct |
|---|---|---|---|
| Safety gate (`safety.py`) | devices reserved, login times, cooldowns in memory and in a file shared by all runs, the `.corrupt` marker | `check_device`, `count_login`, `holds`, `release_device`, `set_cooldown`, `close` | the login rate is bounded whatever the wall clock does; an acknowledged cooldown is honoured by every run; unusable state admits nobody |
| Session manager (`orchestrator/sessions.py`) | one entry per key, idle sessions by age, close threads, waiters | `acquire`, `release`, `room`, `wait_for_closes`, `close_all` | one borrower per session; a session in doubt is never reused; no lost wakeup; the kept sessions fit the descriptors |
| Policy (`orchestrator/policy.py`) | none of its own | `decide`, `admit`, `login`, `settle`, `pause` | the table of architecture.md 4.4; nothing that reached a device is repeated unless it reads |
| Scheduler (`orchestrator/scheduler.py`) | tasks, slots, who has begun, who is past its commit, whether the interrupt came | `run`, `_bounded`, `_attempt`, `_operations`, `_fresh`, `_interrupt` | a commit is sent once and told; nothing starts after the interrupt; the run ends |
| Edit lifecycle (`orchestrator/lifecycle.py`) | none | `load`, `diff`, `commit`, `confirm`, `commit_history`, each under a budget | the steps in order, an empty diff commits nothing |
| Recorder, store, audit (`recorder.py`, `store.py`, `audit.py`) | the open store, the counts of records not kept | a row per operation, an audit entry per change, the run row opened and closed | every change is audited, every run closed |
| Communicators (`communicators/*.py`) | per session: locked, dirty, committing or commit-sent, ready, doubtful; known_hosts; deadline timers | `open`, `reuse`, `release`, `discard`, `close`, `show`, `load`, `diff`, `commit`, `confirm` | no unlock, rollback or reuse after a commit without an answer |
| Fleet (`frontends/fleet.py`) | a kept session manager, a busy lock, closed, a finalizer | a run, `close`, collection | one run at a time, none after close; no session outlives it |
| Command line, profiles, runfile, dialects, screen | none that outlives a call | parsing, patterns, printing | text |

How they meet: a front end hands a `RunSpec` to `execute`. The scheduler makes one asyncio task per target under a
semaphore of workers. An attempt asks the gate through the policy, borrows a session from the manager, runs the mode's
operations on worker threads through the communicator, releases the session, and settles the gate with the policy's
verdict on the first fault. Recorder calls are synchronous. SIGINT is a callback on the same loop that cancels tasks.
Runs of different processes meet in the safety file and the store.

What is hard: a cancel or a budget may hit at any await; a communicator call cannot be stopped, so its thread goes on
with a session its borrower has left; entries are looked up by key after a wait; closes run beside the work; the gate
file is shared between processes that may die; two listings of one device may be in one run. `PROJECT.json` lists the
hazards with the line each bites at and the properties that watch it.

## The modules

| Module | Models | State and actions |
|---|---|---|
| `SafetyGate` | `safety.py`, several processes on one file | `gate` is each process's object, `disk`, `invalid`, `marker` the file; an action per method, plus `Kill`, `Damage`, `Repair`, `Tick`, `SetClock` around it |
| `SafetyGateProofs` | | theorems about `SafetyGate` |
| `SessionManager` | `sessions.py`, and `_attempt`, `_operations`, `_fresh` as its borrowers | `mgr` is the manager, `task` each borrower's place, `late`, `adrift`, `orphaned` the threads nobody waits for; a step is what runs between two awaits |
| `SessionManagerProofs`, `SessionOwnershipProofs` | | theorems about `SessionManager`: types, wakeups and the descriptor budget on every Python, the rest from 3.12 on |
| `Fleet` (extends `SessionManager`) | `_run`, `close` and the finalizer of `fleet.py`, `close_all` beside a run | `user[u]` is where each thread is in a method, `fleet` the flags; the sessions are `SessionManager`'s, whose borrows the run that is on performs |
| `FleetProofs` | | theorems about `Fleet` |
| `Policy` | `decide` | operators only: `Decide` from the code, `Retried` and `CooledDown` from the documented table |
| `Scheduler` (extends `Policy`) | `scheduler.py`, `lifecycle.py`, what `recorder.changes` audits | `run`, `job[t]` (where a task is), `gate` (its contract), `result[t]` (what is recorded); `sent` and `due` are history |
| `SchedulerProofs` | | theorems about `Policy` and `Scheduler` |
| `RunPromise` | what `architecture.md` promises of a run | each target is untouched, begun, sent or ended, with what was told of it; `Scheduler` implements it |
| `EditPromise` | the promise of `base.py` and of the fault kinds | what became of a session's commit, what its caller was told, who was handed back, who holds the candidate |
| `JunosDevice` | external: the device and the wires to it | `dev` is the candidate, its lock and the fate of each commit, `wire` each session's queue, unread answer and both ends |
| `EditCaller` (extends `JunosDevice`) | `lifecycle.py` and the end of a borrow in `sessions.py`, for one session | `caller[s]`: what may be called next, what runs, what was told |
| `NetconfSession` (extends `EditCaller`) | the edit methods of `netconf.py` | `net[s]`: `locked`, `dirty`, `doubtful`, the method that runs, the RPC it waits for |
| `CliEngine` (extends `EditCaller`) | the edit methods of `cli_engine.py`, `release`, `reuse`, `discard`, `close` of `ssh.py` | `cli[s]`: `ready`, `configured`, `dirty`, `_commit_sent`, the method, the command it waits for |
| `OpenSSHSession` (extends `CliEngine`) | the session of `openssh.py`: the ControlMaster, shows on channels of their own, the edit shell from its start to the engine, `release`, `reuse`, `discard`, `close` | `mux[s]`: the master, the shell, the show and what the session has been told of each; the edit methods on the shell are `CliEngine`'s |
| `EditSessions` | two sessions of any transports on one device | composes the modules above; `PromiseKept` says they implement `EditPromise` |
| `EditSessionsProofs` | | theorems about `EditSessions`, and so about the three transports |
| `Recording` | `recorder.py` as the scheduler drives it, `store.py`, the appended files of `audit.py`, several processes | `path` is where the store's name leads, `store[f]` what a file holds, `log` the audit log, `rec[p]` a run and its recorder; an action per recorder call or transaction, kept or lost, plus `Kill`, `Vanish` around it |
| `RecordingProofs` | | theorems about `Recording` |
| `Opening` | `open` of `ssh.py` and `netconf.py` with known_hosts and the deadline timers, and the calls ssh guards | `file` is known_hosts, `cache[p]` what each process keeps of it and whether an open of another host holds its locks, `open[o]` the caller's thread, `guard[o]` its deadline, the late timers and the transport they abort |
| `OpeningProofs` | | theorems about `Opening` |
| `MCSafetyGate`, `MCSessionManager`, `MCFleet`, `MCScheduler`, `MCEditSessions`, `MCRecording`, `MCOpening` | | values for TLC |

`Scheduler` sees the gate through the contract `SafetyGate` has, inside one minute, so that no login ever leaves the
window: the worst case for the rate limit. It sees a session only as the phase of its attempt. `SessionManager` in turn
sees the scheduler only as borrowers, and `Fleet` sees it as the borrows of the run that is on. In all three, whatever the code does between two awaits is one step, because asyncio
runs it so; the other threads only start, answer or hang. Of the tasks that can go on any may come next: the loop's
queue is left out, so its orders are among those the models allow. So that its counterexample is one
of the code, `session_steal` uses `TurnSpec` (`MCSessionManager`), which keeps to orders the loop surely gives. In `SafetyGate` a locked read, merge, replace is one step,
but a kill may fall before or after the replace.

In `NetconfSession` and `CliEngine` a step is one thread's work from one answer to its next request; the device works off
requests at its own pace between steps, and `discard` may come from another thread at any of them. The device's lock and
candidate follow NETCONF: an exclusive lock on a candidate nobody has changed, both dropped with the session's transport.
The caller is as liberal as the contract: it may hand back or close a session wherever the scheduler would discard it, but
never calls a session again after a call it has given up, as `SessionManager` ensures. An openssh session has ssh processes
of its own between: while its shell logs in on the caller's thread, `discard` may end the master, which ends the shell too
unless its ssh had found no master and logs in by itself. Whether a commit waits for its
confirmation is any answer of the device, since its timer and other operators change that unseen.

In `Opening` three threads share a session: the caller's, the transport's that sees the banner and moves the deadline on,
and the timer's. A timer that has waited long enough is past cancelling and may reach the guard's lock at any later step,
when its deadline has been moved on or its call is over. An open goes through a check against what it read of known_hosts
before it connected, and a second one under the file's lock before it writes; between the two anybody may write. ssh
trusts its cache while the file's stamp is the same, netconf reads once in its process and again under the lock. Accepting a
key takes netconf several steps: it gets the locks and forgets the file, reads it again, writes, forgets and reads back.
Its lookups wait for the lock on the cache; the look at the revocations does not, and sees none between forgetting and
reading. The forgetting is of the whole file, whichever host it is for: `Elsewhere` has the processes that open other hosts too.

In `Fleet` a step is a thread's work from one read or write of `_closed` or `_busy` to the next, and inside a run
what `SessionManager` does in one. `close_all` works in a loop of its own, whose condition is not the one a run's waiters
wait on: they are stranded until their budget ends them.

Operators named "Seeded fault" in a comment are wrong on purpose. No specification uses them: each is a bug that a run
detects when it takes the place of the definition after it.

## What is checked

| Run | Instance | Shows |
|---|---|---|
| `gate` | 2 processes, 1 device, rate 1, window 2, cooldown 2, clocks to 3, 2 logins, one file | rate bound, durable and honoured cooldowns, fail closed, no cooldown in memory alone |
| `sessions` | 3 borrowers, 2 of them on one key, 3 session identities, room for 1 idle session, 2 commands | ownership, doubt, one borrow per key, no lost wakeup, nothing dropped, the descriptor budget, counted logins |
| `fleet` | 2 threads, 2 borrowers of 1 key, 1 session identity, 1 command, `wait_for` in a task of its own, under fairness | a closed or collected Fleet keeps no session and leaves none open; every borrow ends, one that `close` overtook included |
| `run` | 3 targets on 2 devices, 2 workers, 1 retry; one of an edit, a batch of two reads on kept sessions, a dry run on kept sessions, a configuration read, an edit the plan refuses; any device cooled down at the start; under fairness | one target per device, commits told, cooldowns decided and left alone, no rate refusal half-way, no start after the interrupt, ok is complete, and the run implements `RunPromise`, its end included |
| `edit_sessions` | 2 sessions on one device, NETCONF and CLI over ssh or NETCONF and openssh, another operator, edits of 2 lines | the promise kept by every transport, own lines only, no rollback of a commit in doubt, nothing left behind, a prompt in step |
| `recording` | 2 processes on one store path, 1 target, 3 file identities | what a run reports as kept is in the store it closes; a run row before any device; no audit entry missing but those counted or of a run that died |
| `opening` | 2 opens of one device under `accept-new`, or one of them under `off`, in one process or two, the first of which opens other hosts too, 2 keys, 4 deadlines, 1 revocation | one key trusted on first use, revoked keys refused unless the file was forgotten meanwhile, timers expire only what is overdue and never a session handed out |
| `session_steal`, `session_doubt`, `confirm_untold`, `cooldown_lost`, `revoked_window` | as above | the disagreements below |

The bounds are small because the hazards need few actors. Two processes are enough for a lost update and for a stale
admission; window and cooldown of two ticks with clocks to three give logins and cooldowns that overlap, touch and
miss. Three borrowers give a holder, a waiter and a bystander whose sessions compete for the one kept place; two
commands give a fresh session with something left to do. Two listings of one device and one of another with two
workers give a target that waits for a slot, one that is turned away and one that works. One retry and the fault sets
of `MCScheduler` reach every row of the policy. `RateLimit` is what the plan before the run demands, no more, and one run is
listed once more than that and refused. A run of two reads on kept sessions has refused reuse checks, fresh sessions in
mid-batch and interrupted cleanups. Sessions on one device are checked in pairs, since lock and candidate are between two:
`Together` lists them, NETCONF with a paramiko prompt and NETCONF with openssh, with another operator as the one who takes
no lock; of two lines the first may be refused, the last or none; sessions are borrowed again without limit. Two processes
race for the first open of a store, and a third file identity lets the path be removed and remade while each holds another
file. A race for the first pin, a stale cache and a late timer need two opens and
two keys: one that is trusted and another shown later. `strict` is `accept-new` without the pin,
so it has no run of its own; two opens over different transports are taken in one order, and opens of other hosts only
beside netconf ones, since ssh meets them as any lock (`PairSpec`). A banner moves the first deadline on, so four of them leave two
for netconf's second connection, or two calls of an ssh session. Two threads on a Fleet give a run beside a close and a run
refused; two borrowers of its one key a waiter that `close_all` strands. Its borrows have one command: with two, a batch
goes on with a fresh session, and then what `session_steal` shows also leaves a session open past the Fleet.

Named bounds: `MaxTime`, `MaxLogins` (SafetyGate), `Session`, `Commands` (SessionManager), `Together`, `Lines` (EditSessions), `MaxTurn`, `MaxRevoked`, `Elsewhere` (Opening), `LateClosing`
(Scheduler: the targets whose close may fail after the run has ended with them). A wire's
queue holds two requests at most, which `TypeOK` checks. `Scheduler` needs none: a run is finite. Symmetry is used for processes, file identities,
host keys and the two listings of one device, in runs without liveness only.

Deadlock is checked everywhere but in `edit_sessions`, which stops when every session is gone, in `fleet`, which stops
when the Fleet is collected, in `recording`, which
stops when every process has ended or died, and in `opening`, when every open has failed or its session is closed; in `Scheduler` an ended
run stutters in `Terminating`.

Fairness. Of the event loop: a task that can go on does. Of timers: every budget, pause and close wait ends, and the
code gives every call one. Nothing is assumed of a communicator's answer, of an interrupt, nor of the operator. In
`SessionManager` and `Fleet` all of it is weak fairness.

## Where code and documents disagree

- `session_steal`: on Python 3.10 and 3.11 `asyncio.wait_for` runs `acquire` in its own task, so a batch whose fresh open
  is over its budget while it waits for its key goes on to release that key, which another borrower holds by now.
  What it opened for the entry that is dropped later belongs to no table and stays open past `close_all`.
- `session_doubt`: a borrower cancelled during the reuse check or the wait for room leaves its entry in use with a session
  nobody tears down before `close_all`; the session that an abandoned open returns is never torn down.
- `confirm_untold`: an interrupt while a confirm is at the device ends as a skipped target without an audit entry, since
  only an edit's commit is marked.
- `cooldown_lost`: on kept sessions an interrupt during the release cleanup skips the settle, and with it the cooldown.
- `revoked_window`: netconf looks at the revocations without the lock under which another open of the process has forgotten them
  and reads the file again; a key that is pinned and revoked is trusted in between. netconf.md:41 says "revoked keys are
  refused even if a normal entry matches". A read that raises leaves the cache empty until the next lookup.

Seen and not shown by a run: architecture.md 5.3 (line 442) says the plan "never turns a device away half-way", and 5.2 that a fresh login in
mid-batch may be refused; `NeverHalfway` speaks of the first login of a target. `Fleet.close` looks at `_busy` before it
sets `_closed`, and `_run` the other way round, so a run of another thread can slip in; fleet.py:243 says that "a closed
Fleet refuses further runs". `ClosedKeepsNothing` excepts such a run by the history field `raced`.
Before Python 3.12 `acquire` starts a turn after the scheduler has asked whether a kept session waits: when another task's release
trims that session in the same turn, `acquire` opens a new one whose login is counted nowhere, where sessions.py:73 says
"the next acquire() is no login" (`LoginCounted` with `InTask` is false for two borrowers of two keys). The edit shell of an
openssh session gets its channel only after its login (openssh.py:448): a `discard` before that closes nothing but the master, and an ssh
that found no master logs in by itself with a key. The abandoned edit takes the lock and loads its lines on a session nobody
tears down, which architecture.md:147 rules out; `NothingLeftBehind` names it as its exception.

## What is proved

`SafetyGateProofs` proves for any processes, devices, limits and bounds, from `GateAssumption` alone:

- `TypeCorrect`: `Spec => []TypeOK`. Each operation builds gates and files of the right type; lemmas say so for the
  operators (`MergedFact`, `GateFact`, `FileFact`, ...), one per kind of step.
- `CooldownKept`: `Spec => []CooldownDurable`. What is owed is unexpired and on disk, in a file that is readable, or, without
  a file, in the memory of the one process it binds. It is inductive together with `TypeOK`: every write is a merge and
  a merge never lowers an unexpired entry (`FileKeeps`).
- `CooldownsHonoured`: `Spec => CooldownHonoured`. An admission has just merged the file, so by `CooldownDurable` what is owed
  would have refused it.
- `RatesBounded`: `Spec => []RateBound`, from `RateInv`, which adds `WindowKept`: a gate in use still has every login that could
  share a window with the next one. `LoginsOf` sorts what a step does to a gate's logins into six shapes, of which one
  (`Passes`) adds a login, and only to a window that is not full; as time passes windows only lose logins (`TimeKeeps`).
- `GateFailsClosed`: `Spec => FailsClosed`. A step touches the file only as a `_sync` does (`StepShape`), and a `_sync` beside the
  marker raises before it writes; an admission has read the file (`AdmitsFact`).
- `CooldownsOnFile`: `Spec => NeverInMemoryAlone`. `set_cooldown` changes the memory before the file: a gate that is still in use
  after it has written what it has in memory (`MemoryOnFile`), one whose persist raised is latched and admits nobody.

Of `Policy`, `SchedulerProofs` proves that `Decide` retries and cools down exactly what the table of section 4.4 says (`DecideFollowsTable`), and
that nothing that reached the device is repeated unless it reads, but for a connection dropped before login
(`RetriesAreSafe`), for every fault and retry count. A run either reads or edits, which `Scheduler` ensures by its mode.

`RecordingProofs` proves all properties of `Recording` for any finite sets of processes and targets and any file identities, from
`RecordingAssumption` alone:

- `EveryRunTraced`: `Spec => []RunTraced`. `ReportsAreTrue`: `Spec => StoreComplete`. Both follow from one inductive
  invariant, `RecordedInv`: the file a process holds has its transactions so far, that is the run's row from before the
  first contact on, and while nothing is counted as lost the row of each target past it and the row that closes the
  run. It speaks of the file held and not of the path, since whoever removes and remakes the path leaves that file
  alone; a new file never gets the identity of one that is held (`Free`), so no step of another process takes a row
  away (`StepOf`, `StoreKept`).

- `EntriesAreAccounted`: `Spec => []EntriesAccounted`, and `RecordsTyped`: `Spec => []TypeOK`, from `CountedInv`. That no more entries
  are missing than losses were counted is not inductive: an append that fails half-way is counted at once, and the entry it
  spoils is the next one, of any process. `Overlooked` therefore has the missing entries and one more while the log is torn.
  Both sides are sizes of sets; a step adds one element to either at most (`MissingNext`, `LossesGrow`). `TalliedInv`
  bounds what a run counts by the records it has behind it, which is what the type of `lost` needs.

`OpeningProofs` proves all properties of `Opening` for any opens, processes and keys, from `OpeningAssumption` alone, in
which `MaxTurn` is at least the four deadlines of netconf's two connections:

- `TypeCorrect`, `TimersAreDue`, `SessionsAreAlive` from `TimedInv`. Its part about a guard, `GuardInv`, says that a timer
  that still runs belongs to a deadline up to the one in force, that it has passed if it is the one in force, that a
  transport is untouched before its guard expires, and that an open at rest has no guard. `TurnInv` counts the deadlines.
- `OneKeyTrusted`: `Spec => []TrustOnFirstUse`, from `PinInv`: one pin at most, everything read or cached is on file,
  one writer at most and only while there is no pin, and the key of every checked session is the pin. A property of
  sessions alone is not inductive: what keeps a second key out is the file, read again under the lock.
- `NoRevokedKey`: `Spec => []RevokedRefused`, from `RevokedInv`: what is cached for ssh is the file while the stamp is the
  file's, what is cached for netconf has been in it, or is nothing while it is forgotten, and an attempt has read all it must
  respect before a key is checked. It excepts the keys checked while the file was forgotten (the history field `blind`),
  for which `revoked_window` refutes it; nothing else is lost by forgetting, also beside opens of other hosts and after reads that fail.

`SessionManagerProofs` proves for any borrowers, sessions, keys, limit and commands, on every Python version, from
`ManagerAssumption` (any Keep; finitely many sessions; at least one command):

- `ManagerTyped` (`TypeOK`), `NoWakeupLost` (`WaitsForUse`) and `KeptWithinLimit` (`KeptFits`) follow from one inductive
  invariant, `GInv`. Its `Sound` part says that the list of idle keys names each key once and only keys nobody has in use;
  without it, eviction could take an entry out from under its borrower. Each method of the manager is one lemma on what it
  does to the tables (`Follows`), so a step of a borrower is a chain of them.
- `EveryLoginCounted` (`LoginCounted`), under `~InTask`: with `InTask` it is false (above). Its part of `GInv` is
  `PaidInv`: an acquire that can come to a login has had one counted, at its admission or by itself.
- What a notification must reach is in `Tells`: wherever a key is freed, the waiters are notified in the same step.

`SessionOwnershipProofs` proves, under `~InTask`, that is where `asyncio.wait_for` runs `acquire` in the caller's task as it does
from Python 3.12 on:

- `SessionOwned` (`BorrowOwns`), `DoubtNotOffered` (`NeverInDoubt`), `BorrowedOnce` (`OneBorrowPerKey`) and `SessionsAccounted`
  (`NothingDropped`). The hypothesis is needed: with `InTask` all four are false, as `session_steal` shows of the first.
- The invariant is `OInv`: `GInv`; `Entries`, by which the open sessions are exactly those of the tables, one a key;
  `LateShelved`, by which a session that an abandoned call works on belongs to an entry nobody can get at; and `Place`, which ties
  each borrower's program counter to its entry. Everything that a step of one borrower may do to the others'
  entries is in `Frame`: it may evict an idle one, and nothing else. `Owns` collects what a step leaves; the invariant
  follows from it once, and not once per action.

`FleetProofs` proves `FleetTyped` and `NothingOutlives` (`ClosedKeepsNothing`) for any threads, borrowers and commands, again under
`~InTask`. `FInv` has what holds of the manager below (`Below`: `OInv` until a run slips past `close`, everything at rest while no
run is on), the doors (`Doors`: one thread inside, none once the Fleet is closed unless it `raced`) and what a close leaves (`Cleared`).
A borrower cancelled at the reuse check leaves its entry in use, and `close_all` must empty that too: `Entries` says it is
in the tables. Before 3.12 `ClosedKeepsNothing` is false with two commands, and `FleetTypeOK` is not shown there, since `FInv` rests on `OInv`.

`SchedulerProofs` proves all safety properties of `Scheduler`, for any targets, devices, workers, retries, rate limit, run and faults,
from `SchedulerAssumption`. The invariant is `SInv`. `Place` is what is true of one target: `Course` ties the phase of its task to the
operations it has behind it, `Reached` says whom the interrupt has cancelled, `Telling` that it is told exactly when its task is
over, `Kept` what may be in its record, `Sending` where its one commit is. `Held` ties the reservations to the tasks and `Owed`
the cooldowns to what is still to be settled. A step of a target is shown to be a `TaskStep`, one lemma per action: it leaves that
target in its place, the others untouched, and moves the gate by one reservation or one settle. That `SInv` is kept follows
from `TaskStep` alone (`TaskStepKeeps`), and so do the action properties; the run's own steps have a lemma each.

- `SchedulerTyped`, `OneAtATime` (`ReservedByOne`), `CooldownsDecided` (`CooldownDecidedUncut`) and `OkIsWhole` (`OkIsComplete`) are
  consequences of `SInv`. `CommitsTold` (`CommitTold`) is too, where no run is a confirm: with confirms `confirm_untold` refutes it.
- `InterruptStops` (`StopsAtInterrupt`) and `CooledLeftAlone` (`LeftAlone`): the second needs `Owed`, since a device that is due is
  cooled down, or reserved by the target whose session is being released.
- `PlanSuffices` (`NeverHalfway`), for the runs whose listings of one device share a session key, as both front ends
  ensure with `check_unique`. A second invariant, `LInv`, counts: a target that is `Spent` so far has asked for at most that many
  logins, the set `Credit` of a device holds a pair for each of them, and the window of the device has no more logins
  than `Credit` has pairs. While a target pauses its last attempt is missing from `Credit`, but the plan has room for it.
- `RunKeepsPromise`: where no run is a confirm, the initial states are initial states of `RunPromise` and every step is one of its
  steps or a stutter. That is the safety part of `PromiseKept`; its fairness is left to TLC.

`EditSessionsProofs` proves all properties of `EditSessions`, for any sets of sessions of each transport on one device, any sets of
them open together, any number of lines and keys that log in or not, from `DeviceAssumption` and `SessionsAssumption`:

- `EditsKeepPromise`: `Spec => PromiseKept`. The edit sessions implement `EditPromise`, all of it: that promise has no fairness.
- `NothingIsLeft` (`NothingLeftBehind`), `OwnLinesOnly` (`OnlyOwnLines`), `CommitNotRolledBack` (`NeverRolledBack`), `PromptInStep` (`InStep`)
  and `EditsTyped` (`TypeOK`, with the two requests a wire may hold).

All follow from one invariant, `Inductive`: the types, `Exclusive` (while a session holds the candidate nobody without the lock has
lines in it), and `SessionInv` for each session. `SessionInv` speaks of the flags of the three transports under common names: `Has`
(`locked`, `configured`), `Dirty`, and `Fit` (not `doubtful`, `ready`). `DeviceInv` ties the queue of a session to the
candidate: a load, commit, rollback or unlock under way comes from who holds the lock, a request other than a step of the edit
is the last one, and a fate is `sent` exactly while a commit is in the queue. `ThreadInv` says for which call a thread waits,
`QueueInv` that on a session that is fit nothing is under way but what its thread waits for. `LockInv` says what the flags know of the
device: a session with its flag holds the candidate, one that is fit and without it does not and has asked for no lock. `CommitInv`
says what they know of the commit: a session that is fit, dirty and up has none that may have landed, which is why cleanup may
roll back. None of the properties is inductive without it: a session handed back is clean because of what its flags
said several answers before. `NetInv`, `CliInv` and `MuxInv` add what is particular to a transport; the last bounds the
shell that comes on late.

The edit's own steps are few, whatever transport takes them: a request (`AskLock`, `AskCommit`, `AskRollback`, ...), an answer (`EndAnswered`,
`EndCommit`, ...), a teardown (`TearDown`, `Drop`, `Lose`). One lemma each shows that the step keeps `EditInv`, is a step of the promise
(`Plays`) and sends nothing it may not (`Careful`). Each action of a transport is then one of them with its flags, and leaves
the other sessions alone (`Beside`, `AlikeKept`). The device's steps are shown from the other side (`ExecuteStep`, `NoticeStep`,
`OthersStep`). The proof found two branches of `NetconfSession` that no state reached. One was wrong: the transport breaks
between a refused lock and the look at it, not before the refusal. The other, an answered probe of a session torn down, is gone.

Only model-checked: what is said above of Python before 3.12, and `BorrowEnds` and the fairness of `Scheduler`'s `PromiseKept`,
since liveness is out of the prover's reach. What the violation runs show is for TLC alone.

## What is abstracted

- Python 3.12's `wait_for` in `Scheduler`: the cancel wins over a result that arrives with it. Before 3.12 the result
  wins; an interrupted edit may then go on to its commit (hazard at `scheduler.py:239`).
- A load that is cut is recorded as "load" in the code (lifecycle.py:72), while `Scheduler` names the line (`CutStep`); no property
  depends on the name. The first `set_cooldown` of a run whose persist raises is left out of `Settle`; `SafetyGate` has it.
- Times are gone from `Scheduler` and `SessionManager`: a budget may end any wait. That covers every length of pause.
- Exceptions that are no Fault are modelled once a target is admitted, where communicators run.
- Runs without a gate (`spec.safety` unset) are the gated runs in which the gate never refuses.
- In `Recording` a run always has a store and an audit log. The run log and the saved output are appended the same way as
  the audit log. A store that is removed keeps its connections working, as the file system has it. That a failed first
  open may remove a file another process has opened since is what architecture.md 6.1 accepts.
- An append that fails after some bytes leaves a line without an end, which the next entry continues: that entry is
  counted as kept and no reader of JSON lines finds it. `EntriesAccounted` says that the failures counted cover it.
- A target has one row and one audit entry in `Recording`, where the code writes one for each operation: the bound that
  `TypeOK` has on counted losses is one in these terms.
- In `Opening` all attempts are for one host and port, whose pins stand under one name. The device may show any key at
  every handshake. Others revoke keys in known_hosts but neither remove pins nor tear lines. A netconf open need only
  respect the revocations its process has read, as the cache is kept for the process's life. Opens of other hosts
  (`Elsewhere`) only take the locks, forget and read: the pins they write are not of this host, and the stamp they change
  would only make ssh read again. Where the clock is asked
  again between two steps an open may fail at either; the deadline of a single send is left to `CliEngine`, whose
  commands may go unanswered. netconf's calls after the open have no such guard.
- In `OpenSSHSession` `ssh -O exit` reaches a master that lives; that it may not answer in its two seconds, while the master
  persists, is left out. The wait for the login in `open()` is left out, and so is the login count of an ssh that logs in
  by itself, which nothing in the code counts.
- In `Fleet` the swap of the tables and the start of the closes in `close_all` are one step. A waiter of another loop's
  condition that is notified looks again under the new one and gets a RuntimeError; with two borrowers the key is free then.
- What a dialect, a communicator or a device answers is a choice among the faults it may raise. Only what sends a commit
  or a confirm may raise OUTCOME_UNKNOWN (`netconf.py:704`, `cli_engine.py:361`): `SchedulerAssumption` says so, and the proofs use it.
- In `Scheduler` the lines and commands of a payload (`Line`) are words of their own, never "commit" or "open": which operation
  is meant is a matter of its place. An edit has a line and a batch a command at least: the front ends refuse
  a payload without any.

Not modelled yet: see the components of `PROJECT.json`. Text (parsing, prompts, redaction, printing) and sockets stay out.

## Plan

Done: `SafetyGate`, `Policy`, `SessionManager`, `Fleet`, `Scheduler` with `RunPromise`, the edit sessions of three transports, `Recording`
and `Opening`; proofs about all of them.

1. The wait for the login in openssh's `open()`.
2. The reads of `netconf.py` (`show`, `structured`, `config`) and the `show` of a prompt, with its deadline per send.
3. The number of threads that calls given up still hold (`scheduler.py:425`), which no property covers.
