------------------------------- MODULE Opening -------------------------------
(***************************************************************************)
(* Logging in to one host and port: the opens of the ssh and the netconf   *)
(* communicator (hssh/communicators/ssh.py, netconf.py), in threads of     *)
(* several processes that share known_hosts, and the calls ssh makes on a  *)
(* session under a deadline of their own.                                  *)
(*                                                                         *)
(* Three threads meet in an open: the caller's, the one of the SSH         *)
(* transport that sees the banner, and the timer's, which may be late at   *)
(* every step.  A file lock admits one writer to known_hosts; somebody     *)
(* else may revoke keys in it at any time, and takes no lock.  A netconf   *)
(* open that holds it forgets what its process has read and reads again,   *)
(* while other opens of the process check keys without a lock.             *)
(***************************************************************************)
EXTENDS Naturals, FiniteSets

CONSTANTS
    Open,           \* attempts to open a session
    Process,
    Kinds,          \* the processes, transports and host-key policies each may have
    Key,            \* host keys the device may show
    NoKey,
    Elsewhere,      \* the processes that open other hosts too
    MaxTurn,        \* named bound: deadlines of one open and its calls
    MaxRevoked      \* named bound: keys that are revoked

Kind == [process : Process, transport : {"ssh", "netconf"}, policy : {"off", "strict", "accept-new"}]

ASSUME OpeningAssumption ==
    /\ Kinds \in [Open -> SUBSET Kind]
    /\ NoKey \notin Key
    /\ Elsewhere \subseteq Process
    /\ MaxTurn \in Nat /\ MaxTurn >= 4    \* netconf's two handshakes
    /\ MaxRevoked \in Nat

VARIABLES
    file,           \* known_hosts
    cache,          \* what each process keeps of it, for either transport, and its netconf lock
    open,           \* the caller's thread of each open
    guard           \* its deadline, the timer threads, and what they did to the transport

vars == <<file, cache, open, guard>>

\* stamp: identity, size and time of modification; 0 is nothing read yet.
Hosts == [pins : SUBSET Key, revoked : SUBSET Key, stamp : Nat]
NothingRead == [pins |-> {}, revoked |-> {}, stamp |-> 0]

\* held: an open of another host has locked known_hosts and the netconf cache.
Cache == [ssh : Hosts, netconf : Hosts, held : BOOLEAN]

\* probing: the first of netconf's two handshakes under accept-new.  probed: it is over.
\* known: what the open has read of the file.  key: what the device has shown.
\* knew: history, the revocations an open must respect as it begins.  blind: history,
\* its key was checked while its process had nothing read.
Stage == {"new", "reading", "connecting", "kex", "accepting", "deciding", "writing",
          "rereading", "auth", "ready", "busy", "failed", "closed"}
Attempt == [kind : Kind, stage : Stage, probing : BOOLEAN, probed : BOOLEAN,
            known : Hosts, key : Key \cup {NoKey}, knew : SUBSET Key, blind : BOOLEAN]
NotBegun(kind) == [kind |-> kind, stage |-> "new", probing |-> FALSE, probed |-> FALSE,
                   known |-> NothingRead, key |-> NoKey, knew |-> {}, blind |-> FALSE]

\* turn: the deadline in force.  active: the timer may still act on it.  over: it has
\* passed.  fired: the turns whose timer can no longer be cancelled.  aborting: a timer
\* has yet to abort the transport.  down: the transport is aborted.
Guard == [turn : 0..MaxTurn, active : BOOLEAN, over : BOOLEAN, expired : BOOLEAN,
          fired : SUBSET (1..MaxTurn), aborting : BOOLEAN, down : BOOLEAN]
NoGuard == [turn |-> 0, active |-> FALSE, over |-> FALSE, expired |-> FALSE,
            fired |-> {}, aborting |-> FALSE, down |-> FALSE]

TypeOK ==
    /\ file \in Hosts
    /\ cache \in [Process -> Cache]
    /\ open \in [Open -> Attempt]
    /\ guard \in [Open -> Guard]

Init ==
    /\ file \in {[pins |-> pins, revoked |-> {}, stamp |-> 1] :
                    pins \in {{}} \cup {{k} : k \in Key}}
    /\ cache = [p \in Process |-> [ssh |-> NothingRead, netconf |-> NothingRead, held |-> FALSE]]
    /\ open \in [Open -> {NotBegun(kind) : kind \in Kind}]
    /\ \A o \in Open : open[o].kind \in Kinds[o]
    /\ guard = [o \in Open |-> NoGuard]

-----------------------------------------------------------------------------

Ssh(o) == open[o].kind.transport = "ssh"
ProcessOf(o) == open[o].kind.process
Policy(o) == open[o].kind.policy
At(o, stage) == open[o].stage = stage
Moves(o, stage) == open' = [open EXCEPT ![o].stage = stage]

\* From the lock on known_hosts to its release.
Locking == {"deciding", "writing", "rereading"}

\* Somebody holds the lock on known_hosts to write in it.
Locked == (\E q \in Open : open[q].stage \in Locking) \/ \E p \in Process : cache[p].held

\* ... and with it the lock on the netconf cache of its process.
CacheHeld(p) ==
    \/ cache[p].held
    \/ \E q \in Open : ProcessOf(q) = p /\ ~Ssh(q) /\ open[q].stage \in Locking

\* _remaining: ssh looks at the clock.
InTime(o) == Ssh(o) => ~guard[o].over

-----------------------------------------------------------------------------
(* Deadlines: _Deadline and _Opening of ssh.py, _Opening of netconf.py      *)

\* A deadline of a new guard, with a timer.
Armed(g) == [g EXCEPT !.turn = @ + 1, !.active = TRUE, !.over = FALSE, !.expired = FALSE]

\* The same guard moves its deadline on; the earlier timer is cancelled if it still can be.
Rearmed(g) == [g EXCEPT !.turn = @ + 1, !.over = FALSE]

\* finish and stop: a guard that has expired, or whose time is over, fails its call.
Punctual(g) == g.active /\ ~g.over /\ ~g.expired
Ended(g) == [g EXCEPT !.active = FALSE]

Passes(o) ==
    /\ guard[o].active /\ ~guard[o].over
    /\ guard' = [guard EXCEPT ![o].over = TRUE]
    /\ UNCHANGED <<file, cache, open>>

\* The timer has waited long enough: nothing cancels it any more.
Fires(o) ==
    /\ guard[o].active /\ guard[o].over /\ guard[o].turn \notin guard[o].fired
    /\ guard' = [guard EXCEPT ![o].fired = @ \cup {guard[o].turn}]
    /\ UNCHANGED <<file, cache, open>>

\* Seeded fault: whatever timer comes, it expires the guard.
DueAnyway(o, turn) == TRUE

\* Seeded fault: the guard need only be active.
DueWhenActive(o, turn) == guard[o].active

Due(o, turn) == guard[o].active /\ guard[o].turn = turn

\* expire: under the guard's lock; ssh aborts after it, netconf closes inside.
Expires(o) ==
    /\ \E turn \in guard[o].fired :
          LET gone == [guard EXCEPT ![o].fired = @ \ {turn}] IN
          guard' = IF Due(o, turn)
                   THEN [gone EXCEPT ![o] = [@ EXCEPT !.expired = TRUE, !.aborting = Ssh(o),
                                                      !.down = gone[o].down \/ ~Ssh(o)]]
                   ELSE gone
    /\ UNCHANGED <<file, cache, open>>

Aborts(o) ==
    /\ guard[o].aborting
    /\ guard' = [guard EXCEPT ![o].aborting = FALSE, ![o].down = TRUE]
    /\ UNCHANGED <<file, cache, open>>

-----------------------------------------------------------------------------
(* The open                                                                *)

\* What a process has read for netconf, which it reads once.
Loaded(p) == IF cache[p].netconf.stamp = 0 THEN file ELSE cache[p].netconf

\* ssh has a deadline from here on, netconf once it has looked at the pins.
Begins(o) ==
    /\ At(o, "new")
    /\ open' = [open EXCEPT ![o].stage = IF Policy(o) = "off" THEN "connecting" ELSE "reading",
                ![o].knew = IF Ssh(o) THEN file.revoked ELSE Loaded(ProcessOf(o)).revoked]
    /\ guard' = IF Ssh(o) \/ Policy(o) = "off" THEN [guard EXCEPT ![o] = Armed(@)] ELSE guard
    /\ UNCHANGED <<file, cache>>

\* Seeded fault: what was read once is good.
FreshEnough(p) == cache[p].ssh.stamp # 0

Fresh(p) == cache[p].ssh.stamp = file.stamp

\* _read_keys, under a shared lock unless the cache has the file's stamp.
Reads(o) ==
    /\ At(o, "reading") /\ Ssh(o) /\ InTime(o)
    /\ Fresh(ProcessOf(o)) \/ ~Locked
    /\ LET read == IF Fresh(ProcessOf(o)) THEN cache[ProcessOf(o)].ssh ELSE file IN
          /\ open' = [open EXCEPT ![o].stage = "connecting", ![o].known = read]
          /\ cache' = [cache EXCEPT ![ProcessOf(o)].ssh = read]
    /\ UNCHANGED <<file, guard>>

\* _known_keys, from _accept_new or from the verification of the session, and a
\* connection with a deadline of its own.
Looks(o) ==
    /\ At(o, "reading") /\ ~Ssh(o) /\ ~CacheHeld(ProcessOf(o))
    /\ LET read == Loaded(ProcessOf(o)) IN
          /\ open' = [open EXCEPT ![o].stage = "connecting", ![o].known = read,
                      ![o].probing = Policy(o) = "accept-new" /\ ~open[o].probed /\ read.pins = {}]
          /\ cache' = [cache EXCEPT ![ProcessOf(o)].netconf = read]
    /\ guard' = [guard EXCEPT ![o] = Armed(@)]
    /\ UNCHANGED file

\* received_banner, _check_banner: the deadline moves on, in the transport's thread.
Banner(o) ==
    /\ At(o, "connecting") /\ ~guard[o].down
    /\ InTime(o) /\ ~guard[o].expired
    /\ Moves(o, "kex")
    /\ guard' = [guard EXCEPT ![o] = Rearmed(@)]
    /\ UNCHANGED <<file, cache>>

\* netconf looks at the revocations without the lock on its cache.
Revoked(o, k) ==
    k \in IF Ssh(o) THEN open[o].known.revoked ELSE cache[ProcessOf(o)].netconf.revoked

\* Its process has forgotten the file, and has yet to read it again.
Forgotten(o) == ~Ssh(o) /\ cache[ProcessOf(o)].netconf.stamp = 0

\* The key is checked: against the file as it was read, and against the revocations.
Trusts(o) ==
    /\ At(o, "kex") /\ ~open[o].probing /\ ~guard[o].down
    /\ \E k \in Key :
          /\ Policy(o) # "off" => ~Revoked(o, k) /\ k \in open[o].known.pins
          /\ open' = [open EXCEPT ![o].stage = "auth", ![o].known = NothingRead, ![o].key = k,
                                  ![o].blind = Forgotten(o)]
    /\ UNCHANGED <<file, cache, guard>>

\* missing_host_key: a host without a pin.
Unknown(o) ==
    /\ At(o, "kex") /\ Ssh(o) /\ Policy(o) = "accept-new" /\ ~guard[o].down
    /\ open[o].known.pins = {}
    /\ \E k \in Key :
          /\ ~Revoked(o, k)
          /\ open' = [open EXCEPT ![o].stage = "accepting", ![o].key = k]
    /\ UNCHANGED <<file, cache, guard>>

\* _accept_new has its key and closes that connection.
Probed(o) ==
    /\ At(o, "kex") /\ open[o].probing /\ Punctual(guard[o])
    /\ \E k \in Key : open' = [open EXCEPT ![o].stage = "accepting", ![o].key = k]
    /\ guard' = [guard EXCEPT ![o] = Ended(@)]
    /\ UNCHANGED <<file, cache>>

\* Where an open goes on with an accepted key: ssh authenticates, netconf connects anew.
Accepted(o) ==
    IF Ssh(o) THEN [open EXCEPT ![o].stage = "auth", ![o].known = NothingRead]
    ELSE [open EXCEPT ![o] = [NotBegun(@.kind) EXCEPT !.stage = "reading", !.probed = TRUE,
                                                      !.knew = open[o].knew]]

Failed(o) == [open EXCEPT ![o] = [NotBegun(@.kind) EXCEPT !.stage = "failed"]]
Dropped(o) == [guard EXCEPT ![o] = [NoGuard EXCEPT !.down = TRUE]]

\* _forget_host_keys: whatever host it is for, the whole file.
Forgets(o) == IF Ssh(o) THEN cache ELSE [cache EXCEPT ![ProcessOf(o)].netconf = NothingRead]

\* Seeded fault: only the pins are read again.
RereadsPins(o) ==
    IF Ssh(o) THEN cache ELSE [cache EXCEPT ![ProcessOf(o)].netconf = [file EXCEPT !.revoked = {}]]

\* _known_keys with the cache lock held, after it was forgotten.
Rereads(o) == IF Ssh(o) THEN cache ELSE [cache EXCEPT ![ProcessOf(o)].netconf = file]

\* _accept_key, and the end of _accept_new: the lock, and netconf forgets the file.
AcceptLocks(o) ==
    /\ At(o, "accepting") /\ ~Locked /\ InTime(o)
    /\ Moves(o, "deciding")
    /\ cache' = Forgets(o)
    /\ UNCHANGED <<file, guard>>

\* Seeded fault: what was read before the lock decides.
OnFileBefore(o) == open[o].known

OnFile(o) == file

\* The file is read again, and the key accepted, refused or to be pinned.
Decides(o) ==
    /\ At(o, "deciding")
    /\ LET now == OnFile(o)
           k == open[o].key
       IN  IF k \in now.revoked \/ (now.pins # {} /\ k \notin now.pins)
           THEN open' = Failed(o) /\ guard' = Dropped(o)
           ELSE IF k \in now.pins
                THEN open' = Accepted(o) /\ UNCHANGED guard
                ELSE Moves(o, "writing") /\ UNCHANGED guard
    /\ cache' = Rereads(o)
    /\ UNCHANGED file

\* Where an open goes on with its key in the file.
Written(o) == IF Ssh(o) THEN Accepted(o) ELSE [open EXCEPT ![o].stage = "rereading"]

\* Seeded fault: the attempt is set back before its key is written.
WritesAfterwards(o) ==
    /\ At(o, "writing") /\ InTime(o)
    /\ open' = Accepted(o)
    /\ file' = [file EXCEPT !.pins = @ \cup {open'[o].key}, !.stamp = @ + 1]
    /\ cache' = Forgets(o)
    /\ UNCHANGED guard

\* The pin is appended; ssh lets go of the lock, netconf forgets the file once more.
Writes(o) ==
    /\ At(o, "writing") /\ InTime(o)
    /\ file' = [file EXCEPT !.pins = @ \cup {open[o].key}, !.stamp = @ + 1]
    /\ open' = Written(o)
    /\ cache' = Forgets(o)
    /\ UNCHANGED guard

\* ... and reads it again before it lets go.
ReadsBack(o) ==
    /\ At(o, "rereading")
    /\ open' = Accepted(o)
    /\ cache' = Rereads(o)
    /\ UNCHANGED <<file, guard>>

\* The session is handed out.
Opens(o) ==
    /\ At(o, "auth") /\ Punctual(guard[o])
    /\ Moves(o, "ready")
    /\ guard' = [guard EXCEPT ![o] = Ended(@)]
    /\ UNCHANGED <<file, cache>>

\* Anything may fail, for the device, the network, the file or the deadline.  A cache
\* that was forgotten stays so, until somebody looks.
Fails(o) ==
    /\ open[o].stage \in Stage \ {"new", "ready", "failed", "closed"}
    /\ open' = Failed(o)
    /\ guard' = Dropped(o)
    /\ UNCHANGED <<file, cache>>

-----------------------------------------------------------------------------
(* The session                                                             *)

\* show, the probe of reuse and the first edit of ssh run under a guard.
Calls(o) ==
    /\ At(o, "ready") /\ Ssh(o) /\ guard[o].turn < MaxTurn
    /\ Moves(o, "busy")
    /\ guard' = [guard EXCEPT ![o] = Armed(@)]
    /\ UNCHANGED <<file, cache>>

Returns(o) ==
    /\ At(o, "busy") /\ Punctual(guard[o])
    /\ Moves(o, "ready")
    /\ guard' = [guard EXCEPT ![o] = Ended(@)]
    /\ UNCHANGED <<file, cache>>

\* close, or discard beside a call that runs.
TearsDown(o) ==
    /\ open[o].stage \in {"ready", "busy"}
    /\ Moves(o, "closed")
    /\ guard' = Dropped(o)
    /\ UNCHANGED <<file, cache>>

-----------------------------------------------------------------------------

\* Somebody marks a key @revoked.
Revokes(k) ==
    /\ k \notin file.revoked /\ Cardinality(file.revoked) < MaxRevoked
    /\ file' = [file EXCEPT !.revoked = @ \cup {k}, !.stamp = @ + 1]
    /\ UNCHANGED <<cache, open, guard>>

\* A netconf open of another host accepts its key in process p: the same locks, the same
\* cache, the same forgetting.
ForgetsElsewhere(p) ==
    /\ ~Locked
    /\ cache' = [cache EXCEPT ![p].netconf = NothingRead, ![p].held = TRUE]
    /\ UNCHANGED <<file, open, guard>>

\* It reads the file again, or the file cannot be read, and lets go of the locks.
RereadsElsewhere(p) ==
    /\ cache[p].held
    /\ \E read \in {file, NothingRead} :
          cache' = [cache EXCEPT ![p].netconf = read, ![p].held = FALSE]
    /\ UNCHANGED <<file, open, guard>>

Step(o) ==
    \/ Begins(o) \/ Reads(o) \/ Looks(o) \/ Banner(o) \/ Trusts(o) \/ Unknown(o) \/ Probed(o)
    \/ AcceptLocks(o) \/ Decides(o) \/ Writes(o) \/ ReadsBack(o) \/ Opens(o) \/ Fails(o)
    \/ Calls(o) \/ Returns(o) \/ TearsDown(o)

Clock(o) == Passes(o) \/ Fires(o) \/ Expires(o) \/ Aborts(o)

Next ==
    \/ \E o \in Open : Step(o) \/ Clock(o)
    \/ \E k \in Key : Revokes(k)
    \/ \E p \in Elsewhere : ForgetsElsewhere(p) \/ RereadsElsewhere(p)

Spec == Init /\ [][Next]_vars

-----------------------------------------------------------------------------
(* Properties                                                              *)

\* The sessions whose key was checked, whatever became of them since.
Checked(o) == Policy(o) # "off" /\ open[o].stage \in {"auth", "ready", "busy", "closed"}

\* The first key that is trusted is the only one: of all sessions of one host that
\* checked its key, in any process and over either transport, no two were shown
\* different keys.
TrustOnFirstUse == \A o, q \in Open : Checked(o) /\ Checked(q) => open[o].key = open[q].key

\* No session is logged in under a key that was revoked when its open began, on file
\* for ssh and as far as its process had read the file for netconf, unless its key was
\* checked while another open of the process had forgotten the file: what was read of
\* revocations is otherwise never lost, over every forgetting, reading and caching.
RevokedRefused ==
    \A o \in Open : Checked(o) /\ ~open[o].blind => open[o].key \notin open[o].knew

\* What doc/netconf.md:41 says: with strict or accept-new, revoked keys are refused even
\* if a normal entry matches.
RevokedAlwaysRefused == \A o \in Open : Checked(o) /\ ~Ssh(o) => open[o].key \notin open[o].knew

\* A timer expires an open or a call only when the deadline in force has passed, never
\* for one that was moved on, or for a call that is over.
OnlyOverdue == \A o \in Open : guard[o].active /\ guard[o].expired => guard[o].over

\* A session is handed out, or back, with a transport no timer has aborted, and none
\* aborts it later.
HandedOutAlive ==
    \A o \in Open : At(o, "ready") => ~guard[o].down /\ ~guard[o].aborting
=============================================================================
