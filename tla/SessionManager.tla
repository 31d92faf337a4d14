--------------------------- MODULE SessionManager ---------------------------
(***************************************************************************)
(* The session manager of hssh/orchestrator/sessions.py and the way an     *)
(* attempt of the scheduler borrows from it: acquire under a budget, the   *)
(* commands of the run, the fresh session after a timed-out command,       *)
(* release.  Borrowers are asyncio tasks: what runs between two awaits is  *)
(* one step.  Their communicator calls run on threads that nobody can      *)
(* stop, so a call its borrower gave up on goes on beside everything else. *)
(*                                                                         *)
(* The condition's lock is never held across a suspension, so a block      *)
(* under it is part of the step around it.                                 *)
(***************************************************************************)
EXTENDS Naturals, FiniteSets, Sequences

CONSTANTS
    Borrower,       \* the target tasks of a run; each comes back in later runs
    Key,            \* session keys: driver, host, port, user, policy, credential
    KeyOf,          \* [Borrower -> Key]
    Session,        \* identities of open sessions; bound: how many at once
    NoOne,          \* no borrower
    Pool,           \* SessionManager.pool
    Keep,           \* kept sessions the descriptor limit has room for beside
                    \*   the workers: (limit - FDS_BASE - workers' fds) / 4
    Commands,       \* bound: commands of one borrow
    InTask          \* whether asyncio.wait_for runs the acquire it bounds in a
                    \*   task of its own, as Python before 3.12 does

ASSUME ManagerAssumption ==
    /\ KeyOf \in [Borrower -> Key]
    /\ NoOne \notin Borrower \cup Session
    /\ Pool \in BOOLEAN
    /\ InTask \in BOOLEAN
    /\ Keep \in Nat
    /\ Commands \in Nat \ {0}
    /\ IsFiniteSet(Session)

VARIABLES
    mgr,        \* the SessionManager object and its close threads
    task,       \* each borrower's task
    late,       \* sessions on which a call its borrower gave up still runs
    adrift,     \* an abandoned communicator.open() still runs
    orphaned    \* one of those has come to a session nobody refers to

vars == <<mgr, task, late, adrift, orphaned>>
threads == <<late, adrift, orphaned>>

NoSession == NoOne

\* An entry of self._entries.  `owner` is the borrower whose coroutine refers
\* to it, which tells one entry of a key from the next; the code has in_use
\* alone, here: the key is not in `idle`.
NoEntry == [owner |-> NoOne, ses |-> NoSession, there |-> FALSE]
Entry == [owner : Borrower \cup {NoOne}, ses : Session \cup {NoSession}, there : {TRUE}]
         \cup {NoEntry}

\* slot: self._entries.  idle: the keys not in use, by idle_since.  waiters: who
\* waits on the condition and has not been notified.  status: the sessions that
\* exist.  counted: those with a live close in self._closes.  listed:
\* self._closes is not empty.
Manager == [slot : [Key -> Entry], idle : Seq(Key), waiters : SUBSET Borrower,
            status : [Session -> {"none", "open", "closing"}],
            counted : SUBSET Session, listed : BOOLEAN]

\* pc: where the task is.  held: the session its call in progress works on.
\* fresh: its acquire is the one _fresh makes.  paid: the gate counted the login
\* that acquire may make.  left: the commands not finished.
\* (stranded: it waits on a condition that close_all has put out of use.)
Acquiring == {"starting", "waiting", "stranded", "checking", "rooming", "opening"}
Task == [pc : Acquiring \cup {"idle", "returning", "using", "cleaning"},
         held : Session \cup {NoSession}, fresh : BOOLEAN, paid : BOOLEAN,
         left : 0..Commands]
NoTask == [pc |-> "idle", held |-> NoSession, fresh |-> FALSE, paid |-> FALSE, left |-> 0]

TypeOK ==
    /\ mgr \in Manager
    /\ task \in [Borrower -> Task]
    /\ late \subseteq Session
    /\ adrift \in BOOLEAN
    /\ orphaned \in BOOLEAN

-----------------------------------------------------------------------------
(* What the manager's methods do to it                                     *)

IdleKeys(m) == {m.idle[i] : i \in DOMAIN m.idle}

InUse(m, k) == m.slot[k].there /\ k \notin IdleKeys(m)

\* pooled(): the next acquire of k is no login.
Pooled(m, k) == m.slot[k].there /\ k \in IdleKeys(m)

\* idle without k, which it lists once at most.
Without(idle, k) ==
    IF \A i \in DOMAIN idle : idle[i] # k THEN idle
    ELSE LET at == CHOOSE i \in DOMAIN idle : idle[i] = k
         IN  [i \in 1..(Len(idle) - 1) |-> idle[IF i < at THEN i ELSE i + 1]]

\* Seeded fault: the entry goes and nobody is told.
DroppedSilently(m, k) == [m EXCEPT !.slot[k] = NoEntry, !.idle = Without(@, k)]

\* _drop, by key: whatever entry is there goes, and every waiter looks again.
Dropped(m, k) == [m EXCEPT !.slot[k] = NoEntry, !.idle = Without(@, k), !.waiters = {}]

\* _start: a close or a discard of s on a thread of its own.
Torn(m, s) == [m EXCEPT !.status[s] = "closing", !.counted = @ \cup {s}, !.listed = TRUE]

\* b's acquire takes k, as a new entry or as the kept one.
Taken(m, b, k) ==
    [m EXCEPT !.slot[k] = [owner |-> b, ses |-> m.slot[k].ses, there |-> TRUE],
              !.idle = Without(@, k)]

\* The session of b's entry becomes s, when the entry is still the key's.
WithSession(m, b, k, s) ==
    IF m.slot[k].owner = b THEN [m EXCEPT !.slot[k].ses = s] ELSE m

\* b's coroutine ends without a word: its entry stays as it is, in use.
Left(m, b, k) == IF m.slot[k].owner = b THEN [m EXCEPT !.slot[k].owner = NoOne] ELSE m

\* _kept_fds, in sessions.
Kept(m) == Len(m.idle) + Cardinality(m.counted)

\* room: how many idle sessions are closed, least recently used first.
Short(m) ==
    LET over == IF Kept(m) > Keep THEN Kept(m) - Keep ELSE 0
    IN  IF over < Len(m.idle) THEN over ELSE Len(m.idle)

Trimmed(m) ==
    LET out == {m.idle[i] : i \in 1..Short(m)}
        gone == {m.slot[k].ses : k \in out}
    IN  [slot |-> [k \in Key |-> IF k \in out THEN NoEntry ELSE m.slot[k]],
         idle |-> SubSeq(m.idle, Short(m) + 1, Len(m.idle)),
         waiters |-> m.waiters,
         status |-> [s \in Session |-> IF s \in gone THEN "closing" ELSE m.status[s]],
         counted |-> m.counted \cup gone,
         listed |-> m.listed \/ gone # {}]

\* The end of a pooled release: the entry with session s is idle again, when it
\* is still the key's.
Offered(m, k, s) ==
    IF m.slot[k].ses = s /\ m.slot[k].there
    THEN [m EXCEPT !.slot[k].owner = NoOne, !.idle = Append(Without(@, k), k),
                   !.waiters = {}]
    ELSE [m EXCEPT !.waiters = {}]

\* Seeded fault: the entry goes and its session is left alone.
DiscardedOnly(m, k) == Dropped(m, k)

\* release(discard = TRUE), by key.
Discarded(m, k) ==
    IF m.slot[k].ses = NoSession
    THEN Dropped(m, k)
    ELSE Torn(Dropped(m, k), m.slot[k].ses)

-----------------------------------------------------------------------------
(* The borrowers' tasks                                                    *)

Put(b, t) == task' = [task EXCEPT ![b] = t]
Acting(t, place, s) == [t EXCEPT !.pc = place, !.held = s]

\* room() before an open, then the open; a listed close is waited for first.
RoomFor(b, m, t) ==
    /\ mgr' = Trimmed(m)
    /\ Put(b, Acting(t, IF Trimmed(m).listed THEN "rooming" ELSE "opening", NoSession))

\* acquire from its first line on, m and t being the manager and the task then.
Enter(b, m, t) ==
    LET k == KeyOf[b] IN
    \/ /\ InUse(m, k)
       /\ mgr' = [m EXCEPT !.waiters = @ \cup {b}]
       /\ Put(b, Acting(t, "waiting", NoSession))
    \/ /\ ~m.slot[k].there
       /\ RoomFor(b, Taken(m, b, k), t)
    \/ /\ Pooled(m, k)
       /\ mgr' = Taken(m, b, k)
       /\ Put(b, Acting(t, "checking", m.slot[k].ses))

\* A bounded acquire is called: at once, or as a task that starts later.
Call(b, m, t) ==
    \/ InTask /\ mgr' = m /\ Put(b, Acting(t, "starting", NoSession))
    \/ ~InTask /\ Enter(b, m, t)

\* One attempt begins: the gate counts a login unless a kept session waits.
Begin(b) ==
    /\ task[b].pc = "idle"
    /\ Call(b, mgr, [NoTask EXCEPT !.left = Commands, !.paid = ~Pooled(mgr, KeyOf[b])])
    /\ UNCHANGED threads

\* acquire raised, m being the manager then.  A borrow's first acquire ends the
\* attempt; after _fresh's the batch ends and the attempt releases, by key.
Raised(b, m) ==
    /\ mgr' = IF task[b].fresh THEN Discarded(m, KeyOf[b]) ELSE m
    /\ Put(b, NoTask)

Using(b, s) == Put(b, [NoTask EXCEPT !.pc = "using", !.held = s, !.left = task[b].left])

\* acquire ends with session s or, s being NoSession, a fault.  In a task of
\* its own it is the borrower's task that goes on, when the loop comes to it.
Ended(b, m, s) ==
    \/ InTask /\ mgr' = m /\ Put(b, Acting(task[b], "returning", s))
    \/ ~InTask /\ s # NoSession /\ mgr' = m /\ Using(b, s)
    \/ ~InTask /\ s = NoSession /\ Raised(b, m)

\* The borrower's task goes on with what its acquire ended with.
Returned(b) ==
    /\ task[b].pc = "returning"
    /\ \/ task[b].held # NoSession /\ Using(b, task[b].held) /\ UNCHANGED mgr
       \/ task[b].held = NoSession /\ Raised(b, mgr)

\* Seeded fault: a notified waiter takes the key without a second look.
ResumeUnchecked(b) ==
    /\ \/ task[b].pc = "starting" /\ Enter(b, mgr, task[b])
       \/ /\ task[b].pc = "waiting" /\ b \notin mgr.waiters
          /\ RoomFor(b, Taken(mgr, b, KeyOf[b]), task[b])
       \/ Returned(b)
    /\ UNCHANGED threads

\* The loop comes to b: the task of a bounded acquire starts, a notified waiter
\* looks again, or a task's result is there for its borrower.
Resume(b) ==
    /\ \/ /\ \/ task[b].pc = "starting"
             \/ task[b].pc = "waiting" /\ b \notin mgr.waiters
          /\ Enter(b, mgr, task[b])
       \/ Returned(b)
    /\ UNCHANGED threads

\* reuse() vouches for the kept session.
Vouched(b) ==
    /\ task[b].pc = "checking"
    /\ Ended(b, mgr, task[b].held)
    /\ UNCHANGED threads

\* The call in progress on b's session is given up, or, unless its budget is
\* over, has returned.
GiveUp(b) == late' = late \cup {task[b].held}
CallOver(b, over) == IF over THEN GiveUp(b) ELSE UNCHANGED late

\* Seeded fault: the login in place of a stale session is not asked for.
NotVouchedUncounted(b, over) ==
    LET m == WithSession(Torn(mgr, task[b].held), b, KeyOf[b], NoSession) IN
    /\ task[b].pc = "checking"
    /\ CallOver(b, over)
    /\ RoomFor(b, m, task[b])
    /\ UNCHANGED <<adrift, orphaned>>

\* reuse() does not vouch for it, or not in its budget: the session goes, and a
\* login in its place is asked for.  _fresh has asked before its acquire.
NotVouched(b, over) ==
    LET k == KeyOf[b]
        m == WithSession(Torn(mgr, task[b].held), b, k, NoSession)
    IN  /\ task[b].pc = "checking"
        /\ CallOver(b, over)
        /\ \/ RoomFor(b, m, [task[b] EXCEPT !.paid = TRUE])
           \/ ~task[b].fresh /\ Ended(b, Dropped(m, k), NoSession)
        /\ UNCHANGED <<adrift, orphaned>>

\* room() has waited for the closes, or long enough.
RoomJoined(b) ==
    /\ task[b].pc = "rooming"
    /\ Put(b, Acting(task[b], "opening", NoSession))
    /\ UNCHANGED <<mgr, threads>>

Unused(s) ==
    /\ mgr.status[s] = "none"
    /\ s \notin late
    /\ \A b \in Borrower : task[b].held # s
    /\ \A k \in Key : mgr.slot[k].ses # s

\* Identities are given out in a fixed order: they mean nothing.
NewSession == CHOOSE s \in Session : Unused(s)

Opened(b) ==
    LET m == [mgr EXCEPT !.status[NewSession] = "open"] IN
    /\ task[b].pc = "opening"
    /\ \E s \in Session : Unused(s)
    /\ Ended(b, WithSession(m, b, KeyOf[b], NewSession), NewSession)
    /\ UNCHANGED threads

OpenFails(b) ==
    /\ task[b].pc = "opening"
    /\ Ended(b, Dropped(mgr, KeyOf[b]), NoSession)
    /\ UNCHANGED threads


\* Seeded fault: whatever ends it, the key is dropped.
AbandonDrops(b) ==
    LET m == [mgr EXCEPT !.waiters = @ \ {b}] IN
    /\ task[b].pc \in {"waiting", "checking", "rooming", "opening"}
    /\ Ended(b, Dropped(m, KeyOf[b]), NoSession)
    /\ IF task[b].pc = "checking" THEN GiveUp(b) ELSE UNCHANGED late
    /\ UNCHANGED <<adrift, orphaned>>

\* The interrupt's cancel, or the budget around acquire, ends it where it
\* stands.  Only a failed open drops the entry.  The call in progress goes on.
\* (One that comes when the acquire has its result is lost: wait_for returns it.)
Abandon(b) ==
    LET k == KeyOf[b]
        m == [mgr EXCEPT !.waiters = @ \ {b}]
    IN  /\ \/ /\ task[b].pc \in {"starting", "waiting", "stranded"}
              /\ Ended(b, m, NoSession)
              /\ UNCHANGED threads
           \/ /\ task[b].pc = "checking"
              /\ Ended(b, Left(m, b, k), NoSession)
              /\ GiveUp(b)
              /\ UNCHANGED <<adrift, orphaned>>
           \/ /\ task[b].pc = "rooming"
              /\ Ended(b, Left(m, b, k), NoSession)
              /\ UNCHANGED threads
           \/ /\ task[b].pc = "opening"
              /\ Ended(b, Dropped(m, k), NoSession)
              /\ adrift' = TRUE
              /\ UNCHANGED <<late, orphaned>>

\* release, by key, m being the manager then: what entry the key has is the one
\* released, whoever put it there.
Release(b, m, discard) ==
    LET k == KeyOf[b]
        s == m.slot[k].ses
    IN  \/ /\ s = NoSession \/ discard \/ ~Pool
           /\ mgr' = Discarded(m, k)
           /\ Put(b, NoTask)
        \/ /\ s # NoSession /\ ~discard /\ Pool
           /\ mgr' = m
           /\ Put(b, [NoTask EXCEPT !.pc = "cleaning", !.held = s])

\* Seeded fault: one command too many.
CommandDoneOnceMore(b) ==
    /\ task[b].pc = "using"
    /\ \/ /\ task[b].left >= 0
          /\ Put(b, [task[b] EXCEPT !.left = @ - 1])
          /\ UNCHANGED mgr
       \/ task[b].left = 1 /\ Release(b, mgr, FALSE)
    /\ UNCHANGED threads

\* A command ends with a result or a refusal: the next one, or the end.
CommandDone(b) ==
    /\ task[b].pc = "using"
    /\ \/ /\ task[b].left > 1
          /\ Put(b, [task[b] EXCEPT !.left = @ - 1])
          /\ UNCHANGED mgr
       \/ task[b].left = 1 /\ Release(b, mgr, FALSE)
    /\ UNCHANGED threads

\* SESSION_LOST, a timeout of the last command, an unknown outcome or the
\* interrupt's cancel: the session is torn down.
InDoubt(b, over) ==
    /\ task[b].pc = "using"
    /\ CallOver(b, over)
    /\ Release(b, mgr, TRUE)
    /\ UNCHANGED <<adrift, orphaned>>

\* _fresh: a timed-out command that is not the last ends its session, and a
\* counted login is acquired for the rest.  A refused login ends the batch, and
\* the attempt releases by key once more.
Fresh(b, over) ==
    LET m == Discarded(mgr, KeyOf[b]) IN
    /\ task[b].pc = "using" /\ task[b].left > 1
    /\ CallOver(b, over)
    /\ \/ Release(b, m, TRUE)
       \/ Call(b, m, [task[b] EXCEPT !.fresh = TRUE, !.paid = TRUE, !.left = @ - 1])
    /\ UNCHANGED <<adrift, orphaned>>

\* Seeded fault: no trim when a session goes idle.
CleanedUntrimmed(b) ==
    /\ task[b].pc = "cleaning"
    /\ mgr' = Offered(mgr, KeyOf[b], task[b].held)
    /\ Put(b, NoTask)
    /\ UNCHANGED threads

\* The cleanup of a kept session succeeds: it is idle, and offered.
Cleaned(b) ==
    /\ task[b].pc = "cleaning"
    /\ mgr' = Trimmed(Offered(mgr, KeyOf[b], task[b].held))
    /\ Put(b, NoTask)
    /\ UNCHANGED threads

\* Seeded fault: a cleanup that does not succeed is not looked at.
NotCleanedKept(b, over) ==
    /\ task[b].pc = "cleaning"
    /\ CallOver(b, over)
    /\ mgr' = Trimmed(Offered(mgr, KeyOf[b], task[b].held))
    /\ Put(b, NoTask)
    /\ UNCHANGED <<adrift, orphaned>>

\* Seeded fault: the cleanup has no budget.
NotCleanedUnbounded(b, over) ==
    /\ task[b].pc = "cleaning" /\ ~over
    /\ mgr' = Torn(Dropped(mgr, KeyOf[b]), task[b].held)
    /\ Put(b, NoTask)
    /\ UNCHANGED threads

\* It fails, or is not over within its budget: the session is discarded.
NotCleaned(b, over) ==
    /\ task[b].pc = "cleaning"
    /\ CallOver(b, over)
    /\ mgr' = Torn(Dropped(mgr, KeyOf[b]), task[b].held)
    /\ Put(b, NoTask)
    /\ UNCHANGED <<adrift, orphaned>>

\* The interrupt's cancel during the cleanup.
CleaningCancelled(b) ==
    /\ task[b].pc = "cleaning"
    /\ GiveUp(b)
    /\ mgr' = Left(mgr, b, KeyOf[b])
    /\ Put(b, NoTask)
    /\ UNCHANGED <<adrift, orphaned>>

-----------------------------------------------------------------------------
(* The threads, and the run around the borrowers                           *)

LateReturns(s) ==
    /\ s \in late
    /\ late' = late \ {s}
    /\ UNCHANGED <<mgr, task, adrift, orphaned>>

\* An abandoned open fails, or comes to a session; others may still run.
LateOpen ==
    /\ adrift
    /\ adrift' \in BOOLEAN
    /\ orphaned' \in {orphaned, TRUE}
    /\ UNCHANGED <<mgr, task, late>>

CloseDone(s) ==
    /\ mgr.status[s] = "closing"
    /\ mgr' = [mgr EXCEPT !.status[s] = "none", !.counted = @ \ {s}]
    /\ UNCHANGED <<task, threads>>

NobodyBorrows == \A b \in Borrower : task[b].pc = "idle"

\* wait_for_closes at the end of a run: the list goes, whatever still runs.
RunEnd ==
    /\ NobodyBorrows /\ mgr.listed
    /\ mgr' = [mgr EXCEPT !.counted = {}, !.listed = FALSE]
    /\ UNCHANGED <<task, threads>>

\* close_all, between runs: idle sessions are closed, those left in use torn.
CloseAll ==
    LET gone == {mgr.slot[k].ses : k \in Key} \ {NoSession} IN
    /\ NobodyBorrows
    /\ \E k \in Key : mgr.slot[k].there
    /\ mgr' = [slot |-> [k \in Key |-> NoEntry], idle |-> <<>>, waiters |-> {},
               status |-> [s \in Session |-> IF s \in gone THEN "closing" ELSE mgr.status[s]],
               counted |-> {}, listed |-> FALSE]
    /\ UNCHANGED <<task, threads>>

Init ==
    /\ mgr = [slot |-> [k \in Key |-> NoEntry], idle |-> <<>>, waiters |-> {},
              status |-> [s \in Session |-> "none"], counted |-> {}, listed |-> FALSE]
    /\ task = [b \in Borrower |-> NoTask]
    /\ late = {}
    /\ adrift = FALSE
    /\ orphaned = FALSE

\* What b's task does when a communicator's call returns.
CallReturns(b) ==
    \/ Vouched(b) \/ NotVouched(b, FALSE)
    \/ Opened(b) \/ OpenFails(b)
    \/ CommandDone(b) \/ InDoubt(b, FALSE) \/ Fresh(b, FALSE)
    \/ Cleaned(b) \/ NotCleaned(b, FALSE)

\* What it does when the budget of a call is over, whatever the call does.
BudgetOver(b) ==
    \/ NotVouched(b, TRUE) \/ RoomJoined(b)
    \/ InDoubt(b, TRUE) \/ Fresh(b, TRUE) \/ NotCleaned(b, TRUE)

Borrows == \E b \in Borrower : Begin(b)

\* The loop's turn has many tasks that can go on, and whatever else is due may be queued
\* before or behind them: steps are taken in any order.
Tasks ==
    \E b \in Borrower : \/ Resume(b) \/ CallReturns(b) \/ BudgetOver(b)
                        \/ Abandon(b) \/ CleaningCancelled(b)

Threads == LateOpen \/ \E s \in Session : LateReturns(s) \/ CloseDone(s)

Next == Borrows \/ Tasks \/ Threads \/ RunEnd \/ CloseAll

\* Nothing makes a call return; the budgets end whoever waits for one, and the loop comes
\* to every task that can go on.
Fairness ==
    \A b \in Borrower : WF_vars(Resume(b)) /\ WF_vars(BudgetOver(b)) /\ WF_vars(Abandon(b))

Spec == Init /\ [][Next]_vars /\ Fairness

-----------------------------------------------------------------------------
(* Properties                                                              *)

\* A borrow owns its session from acquire until its cleanup is done: the entry
\* of the key is the borrower's own and in use, its session is the one the
\* borrower works on, and nobody has begun to close it.
BorrowOwns ==
    \A b \in Borrower : task[b].pc \in {"using", "cleaning"} =>
        /\ mgr.slot[KeyOf[b]] = [owner |-> b, ses |-> task[b].held, there |-> TRUE]
        /\ InUse(mgr, KeyOf[b])
        /\ mgr.status[task[b].held] = "open"

\* A session in doubt is never offered again: no call that an earlier borrower
\* gave up on still runs on a session that is idle, checked or in use.
NeverInDoubt ==
    /\ \A b \in Borrower : task[b].pc \in {"checking", "using", "cleaning"} => task[b].held \notin late
    /\ \A k \in IdleKeys(mgr) :
          /\ mgr.slot[k].there
          /\ mgr.status[mgr.slot[k].ses] = "open"
          /\ mgr.slot[k].ses \notin late

\* A second borrower of a key waits instead of logging in again: two tasks are
\* never past the wait for one key.
OneBorrowPerKey ==
    \A b, c \in Borrower :
        /\ b # c /\ KeyOf[b] = KeyOf[c]
        /\ task[b].pc \in {"checking", "rooming", "opening", "using", "cleaning"}
        => task[c].pc \notin {"checking", "rooming", "opening", "using", "cleaning"}

\* No wakeup is lost: whoever waits without a notification waits for a key that
\* is in use.
WaitsForUse ==
    \A b \in mgr.waiters : task[b].pc = "waiting" /\ InUse(mgr, KeyOf[b])

\* Every session that is open and not orphaned is in the hands of the manager:
\* it leaves an entry only into a close or a discard.
NothingDropped ==
    \A s \in Session : mgr.status[s] = "open" =>
        \E k \in Key : mgr.slot[k].ses = s

\* Whenever the loop is free the idle sessions fit beside the workers.
KeptFits == Len(mgr.idle) <= Keep

\* Every login is counted by the gate before it is made, with a kept session
\* that fails its check, a fresh session in a batch, and closes in between.
LoginCounted == \A b \in Borrower : task[b].pc = "opening" => task[b].paid

\* A session on which a cancelled or over-budget call still runs is torn down,
\* and an open that was given up leaves no session behind.
DoubtTornDown ==
    /\ \A s \in late : mgr.status[s] # "open"
    /\ ~orphaned

\* However the communicator's calls hang, every attempt comes to its end.
BorrowEnds == \A b \in Borrower : task[b].pc # "idle" ~> task[b].pc = "idle"
=============================================================================
