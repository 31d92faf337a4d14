----------------------------- MODULE SafetyGate -----------------------------
(***************************************************************************)
(* The per-device safety gate of hssh/safety.py.  A gate lives in one run  *)
(* of the program (a member of Process) and keeps three things per device: *)
(* whether the run holds it, the times of the run's logins to it, and the  *)
(* wall-clock expiry of its cooldown.  Only cooldowns leave the process:   *)
(* the gates of all runs merge them through one file, under an exclusive   *)
(* flock, so the read, merge, prune and replace of _sync is one step here. *)
(* What is not one step is a kill: it can fall before or after the         *)
(* os.replace.                                                             *)
(*                                                                         *)
(* Logins are counted on the monotonic clock, cooldowns on the wall clock, *)
(* which may be set forwards or backwards at any time.                     *)
(***************************************************************************)
EXTENDS Integers, FiniteSets

CONSTANTS
    Process,            \* runs of the program, each with a gate of its own
    Device,             \* host|port keys
    RateLimit,          \* SafetySettings.rate_limit: logins per Window
    CooldownSeconds,    \* SafetySettings.cooldown_seconds
    Window,             \* the length of the login window (60 in the code)
    HasFile,            \* whether SafetySettings.safety_file is set
    MaxTime,            \* bound: no clock goes beyond it
    MaxLogins           \* bound: logins of one gate to one device

ASSUME GateAssumption ==
    /\ RateLimit \in Nat
    /\ CooldownSeconds \in Nat
    /\ Window \in Nat \ {0}
    /\ HasFile \in BOOLEAN
    /\ MaxTime \in Nat
    /\ MaxLogins \in Nat

VARIABLES
    mono,       \* time.monotonic()
    wall,       \* time.time()
    gate,       \* each process's SafetyGate object
    disk,       \* the cooldowns the safety file holds, 0 for none
    invalid,    \* whether the safety file has content _read cannot accept
    marker,     \* whether the .corrupt file exists
    logins,     \* every login each gate has let through since it was built
    owed        \* per process, the cooldowns it must honour, 0 for none

vars == <<mono, wall, gate, disk, invalid, marker, logins, owed>>
fileVars == <<disk, invalid, marker>>
clocks == <<mono, wall>>

Time == Nat
Expiry == [Device -> Time]
\* A login is its time and its number among the gate's logins to the device,
\* which tells two at one time apart.
Login == Time \X Nat
NoCooldowns == [d \in Device |-> 0]
NoLogins == [d \in Device |-> {}]

\* A gate is absent before its run starts and once it is closed or its process
\* is gone: no call on it succeeds.  A failed one has latched self._failure.
Gate == [state : {"absent", "ready", "failed"},
         active : SUBSET Device,
         attempts : [Device -> SUBSET Login],
         cooldowns : Expiry]

NoGate == [state |-> "absent", active |-> {}, attempts |-> NoLogins,
           cooldowns |-> NoCooldowns]
NewGate == [NoGate EXCEPT !.state = "ready"]

TypeOK ==
    /\ mono \in Time
    /\ wall \in Time
    /\ gate \in [Process -> Gate]
    /\ disk \in Expiry
    /\ invalid \in BOOLEAN
    /\ marker \in BOOLEAN
    /\ logins \in [Process -> [Device -> SUBSET Login]]
    /\ \A p \in Process, d \in Device : IsFiniteSet(logins[p][d])
    /\ owed \in [Process -> Expiry]

-----------------------------------------------------------------------------
(* Synchronising with the file                                             *)

Later(s, t) == IF s > t THEN s ELSE t

\* Seeded fault: seconds left are kept in place of the expiry, and never pruned.
SecondsLeft(cooldowns, now) == [d \in Device |-> cooldowns[d] - now]

\* Expired entries are dropped: 0 stands for no entry.
Pruned(cooldowns, now) ==
    [d \in Device |-> IF cooldowns[d] > now THEN cooldowns[d] ELSE 0]

\* The cooldowns a _sync that succeeds leaves in memory.
Merged(memory) ==
    Pruned([d \in Device |-> IF HasFile THEN Later(memory[d], disk[d]) ELSE memory[d]],
           wall)

\* Seeded fault: the file is overwritten by this gate's own cooldowns.
OwnCooldowns(memory) == Pruned(memory, wall)

\* What _write puts on disk.
Written(memory) == Merged(memory)

\* Seeded fault: the marker is not looked for.
ReadableDespiteMarker == HasFile => ~invalid

\* _read finds a file it can use.
Readable == HasFile => ~invalid /\ ~marker

Synced(g) == [g EXCEPT !.cooldowns = Merged(g.cooldowns)]
\* Nothing reads a failed gate's cooldowns and attempts again, so they go.
Latched(g) == [NoGate EXCEPT !.state = "failed", !.active = g.active]

\* The file effect of a _sync of g that succeeds.
Persisted(g, persist) ==
    /\ disk' = IF HasFile /\ persist THEN Written(g.cooldowns) ELSE disk
    /\ UNCHANGED <<invalid, marker>>

\* The file effect of a _sync of g that raises.  An invalid file is moved to
\* the marker; a lock, read or write error leaves everything in place; an
\* error of the directory fsync comes after the replace.
SyncError(g, persist) ==
    /\ HasFile
    /\ \/ /\ invalid /\ ~marker
          /\ marker' = TRUE
          /\ invalid' = FALSE
          /\ disk' = NoCooldowns
       \/ UNCHANGED fileVars
       \/ /\ persist /\ Readable
          /\ disk' = Written(g.cooldowns)
          /\ UNCHANGED <<invalid, marker>>

-----------------------------------------------------------------------------
(* The operations of SafetyGate                                            *)

SetGate(p, g) == gate' = [gate EXCEPT ![p] = g]

\* p's gate goes, and with it all that was only in p's memory.
Forget(p) ==
    /\ SetGate(p, NoGate)
    /\ logins' = [logins EXCEPT ![p] = NoLogins]
    /\ owed' = IF HasFile THEN owed ELSE [owed EXCEPT ![p] = NoCooldowns]

\* __init__ on the settings already validated: the first _sync proves the
\* file usable.  When it raises there is no gate and no run.
Construct(p) ==
    /\ gate[p].state = "absent"
    /\ \/ /\ Readable
          /\ Persisted(NewGate, TRUE)
          /\ SetGate(p, Synced(NewGate))
       \/ /\ SyncError(NewGate, TRUE)
          /\ SetGate(p, NoGate)
    /\ UNCHANGED <<clocks, logins, owed>>

\* Seeded fault: the login window is kept on the wall clock.
RecentOnWallClock(attempts) == {a \in attempts : wall - a[1] < Window}

\* The attempts count_login still counts: those less than Window old.
Recent(attempts) == {a \in attempts : mono - a[1] < Window}

WindowFull(g, d) == Cardinality(Recent(g.attempts[d])) >= RateLimit

WithAttempts(g, d, attempts) == [g EXCEPT !.attempts[d] = attempts]

\* count_login's two answers, as the gate they leave.
LoginRefused(g, d) == WithAttempts(g, d, Recent(g.attempts[d]))
LoginCounted(g, d, a) == WithAttempts(g, d, Recent(g.attempts[d]) \cup {a})

ThisLogin(p, d) == <<mono, Cardinality(logins[p][d])>>
NoteLogin(p, d) ==
    /\ Cardinality(logins[p][d]) < MaxLogins
    /\ logins' = [logins EXCEPT ![p][d] = @ \cup {ThisLogin(p, d)}]

\* check_device says no: a cooldown, or the run already holds the device.
Refused(g, d) == g.cooldowns[d] > wall \/ d \in g.active

Reserved(g, d) == [g EXCEPT !.active = @ \cup {d}]

\* check_device(target, login) once its _sync has succeeded, s being the gate
\* after it.
Admission(p, d, login, s) ==
    \/ /\ Refused(s, d)
       /\ SetGate(p, s)
       /\ UNCHANGED logins
    \/ /\ ~Refused(s, d)
       /\ login /\ WindowFull(s, d)
       /\ SetGate(p, LoginRefused(s, d))
       /\ UNCHANGED logins
    \/ /\ ~Refused(s, d)
       /\ login /\ ~WindowFull(s, d)
       /\ SetGate(p, Reserved(LoginCounted(s, d, ThisLogin(p, d)), d))
       /\ NoteLogin(p, d)
    \/ /\ ~Refused(s, d)
       /\ ~login
       /\ SetGate(p, Reserved(s, d))
       /\ UNCHANGED logins

\* Seeded fault: admission trusts the cooldowns this gate read last.
AdmitUnsynced(p, d, login) ==
    /\ gate[p].state = "ready"
    /\ Readable
    /\ Admission(p, d, login, gate[p])
    /\ UNCHANGED <<clocks, fileVars, owed>>

CheckDevice(p, d, login) ==
    /\ gate[p].state = "ready"
    /\ \/ /\ Readable
          /\ Persisted(gate[p], FALSE)
          /\ Admission(p, d, login, Synced(gate[p]))
       \/ /\ SyncError(gate[p], FALSE)
          /\ SetGate(p, Latched(gate[p]))
          /\ UNCHANGED logins
    /\ UNCHANGED <<clocks, owed>>

\* count_login inside a borrow: neither a _sync nor a look at cooldowns.
CountLogin(p, d) ==
    LET g == gate[p] IN
    /\ g.state = "ready"
    /\ d \in g.active
    /\ \/ /\ WindowFull(g, d)
          /\ SetGate(p, LoginRefused(g, d))
          /\ UNCHANGED logins
       \/ /\ ~WindowFull(g, d)
          /\ SetGate(p, LoginCounted(g, d, ThisLogin(p, d)))
          /\ NoteLogin(p, d)
    /\ UNCHANGED <<clocks, fileVars, owed>>

\* holds: refreshes the cooldowns and reserves nothing.
Holds(p) ==
    /\ gate[p].state = "ready"
    /\ \/ Readable /\ Persisted(gate[p], FALSE) /\ SetGate(p, Synced(gate[p]))
       \/ SyncError(gate[p], FALSE) /\ SetGate(p, Latched(gate[p]))
    /\ UNCHANGED <<clocks, logins, owed>>

Released(g, d) == [g EXCEPT !.active = @ \ {d}]

\* release_device: no readiness check, so a failed gate still lets go.
ReleaseDevice(p, d) ==
    /\ d \in gate[p].active
    /\ SetGate(p, Released(gate[p], d))
    /\ UNCHANGED <<clocks, fileVars, logins, owed>>

\* Who must honour a cooldown p has set: every run when there is a file.
Bound(p) == IF HasFile THEN Process ELSE {p}

Cooled(g, d) ==
    [g EXCEPT !.active = @ \ {d},
              !.cooldowns[d] = Later(wall + CooldownSeconds, @)]

\* Seeded fault: a persist that raises leaves the gate in use.
SetCooldownUnlatched(p, d) ==
    LET g == Cooled(gate[p], d) IN
    /\ gate[p].state = "ready"
    /\ d \in gate[p].active
    /\ \/ Readable /\ Persisted(g, TRUE) /\ SetGate(p, Synced(g))
       \/ SyncError(g, TRUE) /\ SetGate(p, g)
    /\ UNCHANGED <<clocks, logins, owed>>

\* set_cooldown: memory first, then the file.  When the persist raises the
\* cooldown stays in this gate's memory and the gate is of no further use.
SetCooldown(p, d) ==
    LET g == Cooled(gate[p], d)
        until == wall + CooldownSeconds
    IN  /\ gate[p].state = "ready"
        /\ d \in gate[p].active
        /\ \/ /\ Readable
              /\ Persisted(g, TRUE)
              /\ SetGate(p, Synced(g))
              /\ owed' = [q \in Process |->
                             IF q \in Bound(p) /\ until > wall
                             THEN [owed[q] EXCEPT ![d] = Later(@, until)]
                             ELSE owed[q]]
           \/ /\ SyncError(g, TRUE)
              /\ SetGate(p, Latched(g))
              /\ UNCHANGED owed
        /\ UNCHANGED <<clocks, logins>>

\* close: persists when it can, and clears the run's own state in any case.
Close(p) ==
    /\ gate[p].state \in {"ready", "failed"}
    /\ \/ gate[p].state = "ready" /\ Readable /\ Persisted(gate[p], TRUE)
       \/ gate[p].state = "ready" /\ SyncError(gate[p], TRUE)
       \/ gate[p].state = "failed" /\ UNCHANGED fileVars
    /\ Forget(p)
    /\ UNCHANGED clocks

-----------------------------------------------------------------------------
(* What happens around the gate                                            *)

\* The process is killed.  In the middle of a persist the kill can fall
\* after the replace: the file is then the new one, and it is whole.
Kill(p) ==
    /\ gate[p].state \in {"ready", "failed"}
    /\ \/ UNCHANGED fileVars
       \/ /\ gate[p].state = "ready" /\ HasFile /\ Readable
          /\ \/ Persisted(gate[p], TRUE)
             \/ \E d \in gate[p].active : Persisted(Cooled(gate[p], d), TRUE)
    /\ Forget(p)
    /\ UNCHANGED clocks

\* Something outside the program leaves the file unreadable; what it said is
\* lost, so nothing is owed any more.
Damage ==
    /\ HasFile /\ ~invalid /\ ~marker
    /\ invalid' = TRUE
    /\ disk' = NoCooldowns
    /\ owed' = [p \in Process |-> NoCooldowns]
    /\ UNCHANGED <<clocks, gate, marker, logins>>

\* The operator has inspected the evidence and removes the marker.
Repair ==
    /\ marker
    /\ marker' = FALSE
    /\ UNCHANGED <<clocks, gate, disk, invalid, logins, owed>>

\* A cooldown is owed until the wall clock has once reached its expiry.
Outstanding(now) == [p \in Process |-> Pruned(owed[p], now)]

Tick ==
    /\ mono < MaxTime /\ wall < MaxTime
    /\ mono' = mono + 1
    /\ wall' = wall + 1
    /\ owed' = Outstanding(wall + 1)
    /\ UNCHANGED <<gate, fileVars, logins>>

SetClock(t) ==
    /\ wall' = t
    /\ owed' = Outstanding(t)
    /\ UNCHANGED <<mono, gate, fileVars, logins>>

Init ==
    /\ mono = 0
    /\ wall = 0
    /\ gate = [p \in Process |-> NoGate]
    /\ disk = NoCooldowns
    /\ invalid = FALSE
    /\ marker = FALSE
    /\ logins = [p \in Process |-> NoLogins]
    /\ owed = [p \in Process |-> NoCooldowns]

GateStep(p) ==
    \/ Construct(p) \/ Holds(p) \/ Close(p) \/ Kill(p)
    \/ \E d \in Device :
          \/ \E login \in BOOLEAN : CheckDevice(p, d, login)
          \/ CountLogin(p, d)
          \/ ReleaseDevice(p, d)
          \/ SetCooldown(p, d)

Next ==
    \/ \E p \in Process : GateStep(p)
    \/ Damage \/ Repair \/ Tick
    \/ \E t \in 0..MaxTime : SetClock(t)

Spec == Init /\ [][Next]_vars

-----------------------------------------------------------------------------
(* Properties                                                              *)

\* The logins of one gate to one device in the window that ends at time t.
InWindow(p, d, t) == {a \in logins[p][d] : a[1] <= t /\ t - a[1] < Window}

\* However the wall clock is set, no window of Window seconds, wherever it
\* starts, holds more than RateLimit logins of one run to one device: those
\* admitted by check_device and those counted inside a borrow by count_login
\* together.
RateBound ==
    \A p \in Process, d \in Device, t \in 0..mono :
        Cardinality(InWindow(p, d, t)) <= RateLimit

\* p reserves d in this step.
Admits(p, d) == d \notin gate[p].active /\ d \in gate[p].active'

\* A cooldown that set_cooldown has acknowledged in any run is honoured by
\* every run that shares the file until it expires: no other run's write
\* loses it, no crash takes it back, no failed gate admits in its place.
CooldownHonoured ==
    [][\A p \in Process, d \in Device : Admits(p, d) => owed[p][d] = 0]_vars

\* The strengthening CooldownHonoured rests on: what is owed is on disk.
CooldownDurable ==
    \A p \in Process, d \in Device :
        owed[p][d] > 0 =>
            /\ owed[p][d] > wall
            /\ IF HasFile THEN disk[d] >= owed[p][d] /\ ~invalid
               ELSE gate[p].state = "ready" /\ gate[p].cooldowns[d] >= owed[p][d]

\* set_cooldown changes the memory before the file.  A gate that goes on never
\* has a cooldown from a step that left it out of the file: whoever shares the
\* file then honours it too, whichever error a _sync meets on its way.
NeverInMemoryAlone ==
    [][HasFile => \A p \in Process, d \in Device :
          (/\ gate[p].state = "ready" /\ gate'[p].state = "ready"
           /\ gate'[p].cooldowns[d] > gate[p].cooldowns[d])
          => disk'[d] >= gate'[p].cooldowns[d]]_vars

\* The strengthening RateBound rests on: count_login forgets only what has
\* left the window, so a gate in use still has every login that could share a
\* window with the next one.
WindowKept ==
    \A p \in Process, d \in Device :
        /\ \A a \in logins[p][d] : a[1] <= mono
        /\ gate[p].state = "absent" =>
              logins[p][d] = {} /\ gate[p].attempts[d] = {}
        /\ gate[p].state # "failed" =>
              /\ gate[p].attempts[d] \subseteq logins[p][d]
              /\ {a \in logins[p][d] : mono - a[1] < Window}
                    \subseteq gate[p].attempts[d]

\* While the corrupt marker stands no run gets a device: the gate fails
\* closed, and the evidence is never overwritten by an empty file.
FailsClosed ==
    [][/\ (marker /\ marker') => disk' = disk
       /\ \A p \in Process, d \in Device :
            Admits(p, d) => ~marker /\ ~invalid /\ gate[p].state = "ready"]_vars
=============================================================================
