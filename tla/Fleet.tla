------------------------------- MODULE Fleet -------------------------------
(***************************************************************************)
(* A Fleet (hssh/frontends/fleet.py) and the threads that call it: it keeps *)
(* one SessionManager for all its runs, lets one run in at a time, and      *)
(* closes what is kept in close() or, when it is collected, in a finalizer. *)
(* A run works in an event loop of its own and so does close_all().         *)
(***************************************************************************)
EXTENDS SessionManager

CONSTANT User       \* threads that call this Fleet

VARIABLES
    user,           \* where each thread is in a method of the Fleet
    fleet           \* the Fleet

fleetVars == <<vars, user, fleet>>

\* checked: _run has seen the Fleet open.  in: it holds _busy and the run is on.
\* seen: close() has seen the Fleet open and _busy free.  marked: it has set
\* _closed and detached the finalizer.
\* raced (history): a run was on while the Fleet was closed.
FleetTypeOK ==
    /\ TypeOK
    /\ user \in [User -> {"out", "checked", "in", "seen", "marked"}]
    /\ fleet \in [closed : BOOLEAN, collected : BOOLEAN, raced : BOOLEAN]

FleetInit ==
    /\ Init
    /\ user = [u \in User |-> "out"]
    /\ fleet = [closed |-> FALSE, collected |-> FALSE, raced |-> FALSE]

-----------------------------------------------------------------------------
(* A run                                                                   *)

Busy == \E u \in User : user[u] = "in"

Moves(u, place) == user' = [user EXCEPT ![u] = place]

\* A closed Fleet refuses; a collected one is called by nobody.
RunChecks(u) ==
    /\ user[u] = "out"
    /\ ~fleet.closed /\ ~fleet.collected
    /\ Moves(u, "checked")
    /\ UNCHANGED <<vars, fleet>>

\* _busy is taken, or another run has it and this one is refused.
RunTakes(u) ==
    /\ user[u] = "checked"
    /\ IF Busy THEN Moves(u, "out") /\ UNCHANGED fleet
       ELSE /\ Moves(u, "in")
            /\ fleet' = [fleet EXCEPT !.raced = @ \/ fleet.closed]
    /\ UNCHANGED vars

\* The borrows of the run that is on.
RunWorks ==
    /\ Busy
    /\ Borrows \/ Tasks
    /\ UNCHANGED <<user, fleet>>

\* Every target is done; wait_for_closes, and _busy is free.
RunLeaves(u) ==
    /\ user[u] = "in"
    /\ NobodyBorrows
    /\ mgr' = [mgr EXCEPT !.counted = {}, !.listed = FALSE]
    /\ Moves(u, "out")
    /\ UNCHANGED <<task, threads, fleet>>

-----------------------------------------------------------------------------
(* The end                                                                 *)

CloseChecks(u) ==
    /\ user[u] = "out"
    /\ ~fleet.closed /\ ~fleet.collected /\ ~Busy
    /\ Moves(u, "seen")
    /\ UNCHANGED <<vars, fleet>>

CloseMarks(u) ==
    /\ user[u] = "seen"
    /\ Moves(u, "marked")
    /\ fleet' = [fleet EXCEPT !.closed = TRUE, !.raced = @ \/ Busy]
    /\ UNCHANGED vars

\* What close_all leaves: nothing in the tables, and the sessions in `gone` on
\* threads that end them.
Emptied(gone) ==
    [slot |-> [k \in Key |-> NoEntry], idle |-> <<>>, waiters |-> {},
     status |-> [s \in Session |-> IF s \in gone THEN "closing" ELSE mgr.status[s]],
     counted |-> {}, listed |-> FALSE]

\* In its own loop the manager has a condition of its own: who waits on the one
\* of a run is not told that the keys are free.
Strands == task' = [b \in Borrower |->
    IF b \in mgr.waiters THEN [task[b] EXCEPT !.pc = "stranded"] ELSE task[b]]

\* Seeded fault: a session in use is left to its borrower.
ClosesAllIdle ==
    /\ mgr' = Emptied({mgr.slot[k].ses : k \in IdleKeys(mgr)})
    /\ Strands
    /\ UNCHANGED threads

\* close_all, beside a run too: idle sessions are closed, those in use torn
\* down, and an entry whose open still runs only forgotten.
ClosesAll ==
    /\ mgr' = Emptied({mgr.slot[k].ses : k \in Key} \ {NoSession})
    /\ Strands
    /\ UNCHANGED threads

CloseEnds(u) ==
    /\ user[u] = "marked"
    /\ ClosesAll
    /\ Moves(u, "out")
    /\ UNCHANGED fleet

\* Nobody refers to the Fleet any more, or the interpreter exits: the finalizer,
\* unless close() has detached it.
Collected ==
    /\ \A u \in User : user[u] = "out"
    /\ ~fleet.closed /\ ~fleet.collected
    /\ ClosesAll
    /\ fleet' = [fleet EXCEPT !.collected = TRUE]
    /\ UNCHANGED user

FleetNext ==
    \/ \E u \in User : \/ RunChecks(u) \/ RunTakes(u) \/ RunLeaves(u)
                       \/ CloseChecks(u) \/ CloseMarks(u) \/ CloseEnds(u)
    \/ RunWorks
    \/ Threads /\ UNCHANGED <<user, fleet>>
    \/ Collected

\* As SessionManager's: the budgets end whoever waits for a call.
FleetFairness ==
    LET Run(A) == Busy /\ A /\ UNCHANGED <<user, fleet>> IN
    \A b \in Borrower : /\ WF_fleetVars(Run(Resume(b)))
                        /\ WF_fleetVars(Run(BudgetOver(b)))
                        /\ WF_fleetVars(Run(Abandon(b)))

FleetSpec == FleetInit /\ [][FleetNext]_fleetVars /\ FleetFairness

-----------------------------------------------------------------------------
(* Properties                                                              *)

\* "no session outlives the script": when a Fleet is closed or collected and no
\* thread is in a method of it, no session is kept or open, those a cancelled
\* borrow has left in use included.  A run beside or after close(), which took
\* _busy between close()'s look at it and the mark, may leave one.
ClosedKeepsNothing ==
    /\ fleet.closed \/ fleet.collected
    /\ \A u \in User : user[u] = "out"
    => \/ fleet.raced
       \/ /\ \A k \in Key : ~mgr.slot[k].there
          /\ \A s \in Session : mgr.status[s] # "open"
=============================================================================
