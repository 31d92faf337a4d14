----------------------------- MODULE FleetProofs -----------------------------
(***************************************************************************)
(* What a Fleet leaves behind, proved for any number of threads, borrowers *)
(* and keys, where asyncio.wait_for runs the acquire it bounds in the      *)
(* caller's task.                                                          *)
(***************************************************************************)
EXTENDS Fleet, SessionOwnershipProofs

USE ManagerAssumption

-----------------------------------------------------------------------------
(* The manager below the Fleet                                             *)

\* A record with another pc.
LEMMA StrandedFact ==
    ASSUME NEW t \in Task
    PROVE  /\ [t EXCEPT !.pc = "stranded"] \in Task
           /\ [t EXCEPT !.pc = "stranded"].pc = "stranded"
  BY DEF Task, Acquiring

\* close_all, beside whoever borrows.
LEMMA ClosesAllKeeps ==
    ASSUME GInv, ClosesAll
    PROVE  GInv' /\ \A k \in Key : mgr'.slot[k] = NoEntry
  <1> DEFINE gone == {mgr.slot[k].ses : k \in Key} \ {NoSession}
             status == [s \in Session |-> IF s \in gone THEN "closing" ELSE mgr.status[s]]
  <1>1. Sound(mgr) /\ task \in [Borrower -> Task] /\ late' = late
        /\ late \subseteq Session /\ adrift \in BOOLEAN /\ orphaned \in BOOLEAN
    BY GInvParts DEF GInv, TypeOK, ClosesAll, threads
  <1>2. status \in [Session -> {"none", "open", "closing"}]
    BY <1>1, SoundParts
  <1>3. mgr' = [slot |-> [k \in Key |-> NoEntry], idle |-> <<>>, waiters |-> {},
                status |-> status, counted |-> {}, listed |-> FALSE]
    BY DEF ClosesAll, Emptied
  <1> HIDE DEF status
  <1>4. Sound(mgr') /\ mgr'.idle = <<>> /\ mgr'.waiters = {} /\ mgr'.slot = [k \in Key |-> NoEntry]
    BY <1>2, <1>3, EmptyFact
  <1>5. task' = [b \in Borrower |->
                    IF b \in mgr.waiters THEN [task[b] EXCEPT !.pc = "stranded"] ELSE task[b]]
    BY DEF ClosesAll, Strands
  <1>6. ASSUME NEW b \in Borrower
        PROVE  task'[b] \in Task /\ HasSession(task'[b]) /\ HasPaid(task'[b])
    <2>1. PICK t \in Task : t = task[b]
      BY <1>1
    <2>2. HasSession(t) /\ HasPaid(t)
      BY <2>1 DEF GInv, PaidInv
    <2>3. CASE b \in mgr.waiters
      <3>1. PICK u : u = [t EXCEPT !.pc = "stranded"]
        OBVIOUS
      <3>2. u \in Task /\ u.pc = "stranded"
        BY <3>1, StrandedFact
      <3>3. task'[b] = u
        BY <1>5, <2>1, <2>3, <3>1
      <3>4. QED
        BY <3>2, <3>3 DEF HasSession, HasPaid
    <2>4. CASE b \notin mgr.waiters
      BY <1>5, <2>1, <2>2, <2>4
    <2>5. QED
      BY <2>3, <2>4
  <1>7. task' \in [Borrower -> Task]
    <2>1. \A b \in Borrower : (IF b \in mgr.waiters THEN [task[b] EXCEPT !.pc = "stranded"] ELSE task[b]) \in Task
      BY <1>5, <1>6
    <2>2. QED
      BY <1>5, <2>1
  <1>8. TypeOK' /\ KeptFits' /\ WaitsForUse'
    <2>1. adrift' \in BOOLEAN /\ orphaned' \in BOOLEAN
      BY <1>1 DEF ClosesAll, threads
    <2>2. QED
      BY <1>1, <1>4, <1>7, <2>1 DEF TypeOK, Sound, KeptFits, WaitsForUse
  <1>9. PaidInv'
    BY <1>6 DEF PaidInv, HasPaid, Paid
  <1>10. QED
    BY <1>4, <1>6, <1>8, <1>9 DEF GInv, Sound, IdleFree, IdleKeys, Unique, HasSession

-----------------------------------------------------------------------------
(* The invariant                                                           *)

Empty == \A k \in Key : mgr.slot[k] = NoEntry

\* The manager's part.  A run that was on while the Fleet was closed has lost
\* its entries: then who owns what is not said any more.
Below ==
    /\ GInv
    /\ ~fleet.raced => OInv
    /\ ~Busy => NobodyBorrows

\* The Fleet's part.
Doors ==
    /\ user \in [User -> {"out", "checked", "in", "seen", "marked"}]
    /\ fleet \in [closed : BOOLEAN, collected : BOOLEAN, raced : BOOLEAN]
    /\ \A u, v \in User : user[u] = "in" /\ user[v] = "in" => u = v
    /\ \A u \in User : user[u] = "marked" => fleet.closed
    /\ fleet.collected => \A u \in User : user[u] = "out"
    /\ ~fleet.raced /\ fleet.closed => ~Busy

\* Once close() is through, or the finalizer, there is nothing in the tables.
Cleared ==
    /\ fleet.closed /\ ~fleet.raced /\ (\A u \in User : user[u] # "marked") => Empty
    /\ fleet.collected /\ ~fleet.raced => Empty

FInv == Below /\ Doors /\ Cleared

\* Steps that leave the manager alone.
LEMMA BelowStays ==
    ASSUME GInv, ~InTask, UNCHANGED vars
    PROVE  /\ GInv' /\ (NobodyBorrows => NobodyBorrows') /\ (OInv => OInv')
           /\ (Empty <=> Empty')
  <1>1. GInv'
    BY GInvStep
  <1>2. OInv => OInv'
    BY OInvStep
  <1>3. (NobodyBorrows => NobodyBorrows') /\ (Empty <=> Empty')
    BY DEF NobodyBorrows, Empty, vars
  <1>4. QED
    BY <1>1, <1>2, <1>3

LEMMA MovesFact ==
    ASSUME NEW place \in {"out", "checked", "in", "seen", "marked"}, NEW u \in User, Moves(u, place),
           user \in [User -> {"out", "checked", "in", "seen", "marked"}]
    PROVE  /\ user' \in [User -> {"out", "checked", "in", "seen", "marked"}]
           /\ user'[u] = place
           /\ \A v \in User \ {u} : user'[v] = user[v]
  BY DEF Moves

\* Into and out of the Fleet's methods, without a run taken or left.
LEMMA StepsAside ==
    ASSUME FInv, ~InTask, NEW u \in User, RunChecks(u) \/ CloseChecks(u)
    PROVE  FInv'
  <1>1. /\ user \in [User -> {"out", "checked", "in", "seen", "marked"}]
        /\ UNCHANGED vars /\ fleet' = fleet /\ user[u] = "out" /\ ~fleet.closed /\ ~fleet.collected
        /\ Moves(u, "checked") \/ Moves(u, "seen")
    BY DEF FInv, Doors, RunChecks, CloseChecks
  <1>2. /\ user' \in [User -> {"out", "checked", "in", "seen", "marked"}]
        /\ user'[u] \in {"checked", "seen"}
        /\ \A v \in User \ {u} : user'[v] = user[v]
    BY <1>1, MovesFact
  <1>3. Busy' <=> Busy
    BY <1>1, <1>2 DEF Busy
  <1>4. Below'
    BY <1>1, <1>3, BelowStays DEF FInv, Below
  <1>5. Doors'
    BY <1>1, <1>2, <1>3 DEF FInv, Doors
  <1>6. Cleared'
    BY <1>1 DEF FInv, Cleared
  <1>7. QED
    BY <1>4, <1>5, <1>6 DEF FInv

LEMMA RunTakesKeeps ==
    ASSUME FInv, ~InTask, NEW u \in User, RunTakes(u)
    PROVE  FInv'
  <1>1. /\ user \in [User -> {"out", "checked", "in", "seen", "marked"}]
        /\ fleet \in [closed : BOOLEAN, collected : BOOLEAN, raced : BOOLEAN]
        /\ UNCHANGED vars /\ user[u] = "checked" /\ ~fleet.collected
    BY DEF FInv, Doors, RunTakes
  <1>2. CASE Busy /\ Moves(u, "out") /\ fleet' = fleet
    <2>1. /\ user' \in [User -> {"out", "checked", "in", "seen", "marked"}]
          /\ user'[u] = "out" /\ \A v \in User \ {u} : user'[v] = user[v]
      BY <1>1, <1>2, MovesFact
    <2>2. Busy'
      BY <1>1, <1>2, <2>1 DEF Busy
    <2>3. Below'
      BY <1>1, <1>2, <2>2, BelowStays DEF FInv, Below
    <2>4. Doors'
      BY <1>1, <1>2, <2>1, <2>2 DEF FInv, Doors
    <2>5. Cleared'
      <3>1. (\A v \in User : user'[v] # "marked") => \A v \in User : user[v] # "marked"
        BY <1>1, <2>1
      <3>2. Empty <=> Empty'
        BY <1>1, BelowStays DEF FInv, Below
      <3>3. QED
        BY <1>2, <3>1, <3>2 DEF FInv, Cleared
    <2>6. QED
      BY <2>3, <2>4, <2>5 DEF FInv
  <1>3. CASE ~Busy /\ Moves(u, "in") /\ fleet' = [fleet EXCEPT !.raced = @ \/ fleet.closed]
    <2>1. /\ user' \in [User -> {"out", "checked", "in", "seen", "marked"}]
          /\ user'[u] = "in" /\ \A v \in User \ {u} : user'[v] = user[v]
      BY <1>1, <1>3, MovesFact
    <2>2. /\ fleet' \in [closed : BOOLEAN, collected : BOOLEAN, raced : BOOLEAN]
          /\ fleet'.closed = fleet.closed /\ fleet'.collected = fleet.collected
          /\ fleet'.raced <=> (fleet.raced \/ fleet.closed)
      BY <1>1, <1>3
    <2>3. Busy'
      BY <2>1 DEF Busy
    <2>4. Below'
      BY <1>1, <2>2, <2>3, BelowStays DEF FInv, Below
    <2>5. Doors'
      <3>1. \A v \in User : user[v] # "in"
        BY <1>3 DEF Busy
      <3>2. QED
        BY <1>1, <2>1, <2>2, <3>1 DEF FInv, Doors
    <2>6. Cleared'
      BY <1>1, <2>2 DEF FInv, Cleared
    <2>7. QED
      BY <2>4, <2>5, <2>6 DEF FInv
  <1>4. QED
    BY <1>2, <1>3 DEF RunTakes

LEMMA CloseMarksKeeps ==
    ASSUME FInv, ~InTask, NEW u \in User, CloseMarks(u)
    PROVE  FInv'
  <1>1. /\ user \in [User -> {"out", "checked", "in", "seen", "marked"}]
        /\ fleet \in [closed : BOOLEAN, collected : BOOLEAN, raced : BOOLEAN]
        /\ UNCHANGED vars /\ user[u] = "seen" /\ ~fleet.collected /\ Moves(u, "marked")
    BY DEF FInv, Doors, CloseMarks
  <1>2. /\ user' \in [User -> {"out", "checked", "in", "seen", "marked"}]
        /\ user'[u] = "marked" /\ \A v \in User \ {u} : user'[v] = user[v]
    BY <1>1, MovesFact
  <1>3. Busy' <=> Busy
    BY <1>1, <1>2 DEF Busy
  <1>4. /\ fleet' \in [closed : BOOLEAN, collected : BOOLEAN, raced : BOOLEAN]
        /\ fleet'.closed /\ fleet'.collected = fleet.collected
        /\ fleet'.raced <=> (fleet.raced \/ Busy)
    <2>1. fleet' = [closed |-> TRUE, collected |-> fleet.collected, raced |-> (fleet.raced \/ Busy)]
      BY <1>1 DEF CloseMarks
    <2>2. (fleet.raced \/ Busy) \in BOOLEAN
      BY DEF Busy
    <2>3. QED
      BY <1>1, <2>1, <2>2
  <1>5. Below'
    BY <1>1, <1>3, <1>4, BelowStays DEF FInv, Below
  <1>6. Doors'
    BY <1>1, <1>2, <1>3, <1>4 DEF FInv, Doors
  <1>7. Cleared'
    BY <1>1, <1>2, <1>4 DEF FInv, Cleared
  <1>8. QED
    BY <1>5, <1>6, <1>7 DEF FInv

LEMMA RunLeavesKeeps ==
    ASSUME FInv, ~InTask, NEW u \in User, RunLeaves(u)
    PROVE  FInv'
  <1>1. /\ user \in [User -> {"out", "checked", "in", "seen", "marked"}]
        /\ user[u] = "in" /\ Moves(u, "out") /\ NobodyBorrows
        /\ task' = task /\ fleet' = fleet /\ UNCHANGED threads
        /\ mgr' = [mgr EXCEPT !.counted = {}, !.listed = FALSE]
        /\ GInv /\ mgr \in Manager
    BY DEF FInv, Below, Doors, RunLeaves, GInv, TypeOK
  <1>2. /\ user' \in [User -> {"out", "checked", "in", "seen", "marked"}]
        /\ user'[u] = "out" /\ \A v \in User \ {u} : user'[v] = user[v]
    BY <1>1, MovesFact
  <1>3. /\ mgr' \in Manager /\ mgr'.slot = mgr.slot /\ mgr'.idle = mgr.idle
        /\ mgr'.waiters = mgr.waiters /\ mgr'.status = mgr.status
    BY <1>1 DEF Manager
  <1>4. late' = late /\ ThreadsTyped
    BY <1>1 DEF threads, ThreadsTyped, GInv, TypeOK
  <1>5. GInv'
    BY <1>1, <1>3, <1>4, BesideKeeps
  <1>6. OInv => OInv'
    BY <1>1, <1>3, <1>4, <1>5, BesideOwns
  <1>7. NobodyBorrows' /\ (Empty <=> Empty')
    BY <1>1, <1>3 DEF NobodyBorrows, Empty
  <1>8. Below'
    BY <1>1, <1>5, <1>6, <1>7 DEF FInv, Below
  <1>9. \A v \in User : user'[v] # "in"
    BY <1>1, <1>2 DEF FInv, Doors
  <1>10. Doors'
    BY <1>1, <1>2, <1>9 DEF FInv, Doors, Busy
  <1>11. Cleared'
    <2>1. (\A v \in User : user'[v] # "marked") => \A v \in User : user[v] # "marked"
      BY <1>1, <1>2
    <2>2. QED
      BY <1>1, <1>7, <2>1 DEF FInv, Cleared
  <1>12. QED
    BY <1>8, <1>10, <1>11 DEF FInv

\* What close_all leaves of the manager's part.
LEMMA BelowClosed ==
    ASSUME Below, ~InTask, ClosesAll, fleet'.raced = fleet.raced, Busy' <=> Busy,
           ~fleet.raced => ~Busy
    PROVE  Below' /\ Empty'
  <1>1. GInv' /\ Empty'
    BY ClosesAllKeeps DEF Below, Empty
  <1>2. task \in [Borrower -> Task] /\ WaitsForUse /\ mgr.waiters \subseteq Borrower
    BY SoundParts DEF Below, GInv, TypeOK
  <1>3. ASSUME NobodyBorrows PROVE task' = task
    <2>1. \A b \in Borrower : b \notin mgr.waiters
      BY <1>2, <1>3 DEF NobodyBorrows, WaitsForUse
    <2>2. task' = [b \in Borrower |-> task[b]]
      BY <2>1 DEF ClosesAll, Strands
    <2>3. QED
      BY <1>2, <2>2
  <1>4. ~Busy' => NobodyBorrows'
    BY <1>3 DEF Below, NobodyBorrows
  <1>5. ASSUME ~fleet.raced PROVE OInv'
    <2>1. OInv /\ NobodyBorrows
      BY <1>5 DEF Below
    <2>2. /\ task' = task /\ late' = late
          /\ mgr' = [slot |-> [k \in Key |-> NoEntry], idle |-> <<>>, waiters |-> {},
                     status |-> [s \in Session |-> IF s \in {mgr.slot[k].ses : k \in Key} \ {NoSession}
                                                   THEN "closing" ELSE mgr.status[s]],
                     counted |-> {}, listed |-> FALSE]
      BY <1>3, <2>1 DEF ClosesAll, Emptied, threads
    <2>3. QED
      BY <1>1, <2>1, <2>2, EmptiedOwns
  <1>6. QED
    BY <1>1, <1>4, <1>5 DEF Below

LEMMA CloseEndsKeeps ==
    ASSUME FInv, ~InTask, NEW u \in User, CloseEnds(u)
    PROVE  FInv'
  <1>1. /\ user \in [User -> {"out", "checked", "in", "seen", "marked"}]
        /\ ClosesAll /\ user[u] = "marked" /\ fleet' = fleet /\ Moves(u, "out")
        /\ fleet.closed
    BY DEF FInv, Doors, CloseEnds
  <1>2. /\ user' \in [User -> {"out", "checked", "in", "seen", "marked"}]
        /\ user'[u] = "out" /\ \A v \in User \ {u} : user'[v] = user[v]
    BY <1>1, MovesFact
  <1>3. Busy' <=> Busy
    BY <1>1, <1>2 DEF Busy
  <1>4. Below' /\ Empty'
    BY <1>1, <1>3, BelowClosed DEF FInv, Doors
  <1>5. Doors'
    BY <1>1, <1>2, <1>3 DEF FInv, Doors
  <1>6. Cleared'
    BY <1>4 DEF Cleared
  <1>7. QED
    BY <1>4, <1>5, <1>6 DEF FInv

LEMMA CollectedKeeps ==
    ASSUME FInv, ~InTask, Collected
    PROVE  FInv'
  <1>1. /\ fleet \in [closed : BOOLEAN, collected : BOOLEAN, raced : BOOLEAN]
        /\ ClosesAll /\ user' = user /\ ~fleet.closed /\ \A u \in User : user[u] = "out"
        /\ fleet' = [fleet EXCEPT !.collected = TRUE]
    BY DEF FInv, Doors, Collected
  <1>2. /\ fleet' \in [closed : BOOLEAN, collected : BOOLEAN, raced : BOOLEAN]
        /\ fleet'.raced = fleet.raced /\ ~fleet'.closed
    BY <1>1
  <1>3. ~Busy /\ ~Busy'
    BY <1>1 DEF Busy
  <1>4. Below' /\ Empty'
    BY <1>1, <1>2, <1>3, BelowClosed DEF FInv
  <1>5. Doors'
    BY <1>1, <1>2, <1>3 DEF FInv, Doors
  <1>6. Cleared'
    BY <1>4 DEF Cleared
  <1>7. QED
    BY <1>4, <1>5, <1>6 DEF FInv

LEMMA RunWorksKeeps ==
    ASSUME FInv, ~InTask, RunWorks
    PROVE  FInv'
  <1>1. /\ Busy /\ (Borrows \/ Tasks) /\ user' = user /\ fleet' = fleet /\ GInv
    BY DEF FInv, Below, RunWorks
  <1>2. [Next]_vars
    BY <1>1 DEF Next
  <1>3. GInv' /\ (OInv => OInv')
    BY <1>1, <1>2, GInvStep, OInvStep
  <1>4. Busy'
    BY <1>1 DEF Busy
  <1>5. Below'
    BY <1>1, <1>3, <1>4 DEF FInv, Below
  <1>6. Doors'
    BY <1>1, <1>4 DEF FInv, Doors
  <1>7. Cleared'
    BY <1>1 DEF FInv, Cleared, Doors, Busy
  <1>8. QED
    BY <1>5, <1>6, <1>7 DEF FInv

LEMMA FleetThreadsKeep ==
    ASSUME FInv, ~InTask, Threads, UNCHANGED <<user, fleet>>
    PROVE  FInv'
  <1>1. GInv /\ [Next]_vars
    BY DEF FInv, Below, Next
  <1>2. GInv' /\ (OInv => OInv')
    BY <1>1, GInvStep, OInvStep
  <1>3. task' = task /\ mgr'.slot = mgr.slot
    <2>1. ASSUME NEW s \in Session, CloseDone(s) PROVE task' = task /\ mgr'.slot = mgr.slot
      BY <1>1, <2>1 DEF CloseDone, GInv, TypeOK, Manager
    <2>2. QED
      BY <2>1 DEF Threads, LateOpen, LateReturns
  <1>4. (NobodyBorrows => NobodyBorrows') /\ (Empty <=> Empty') /\ (Busy' <=> Busy)
    BY <1>1, <1>3 DEF NobodyBorrows, Empty, Busy
  <1>5. Below'
    BY <1>1, <1>2, <1>4 DEF FInv, Below
  <1>6. Doors'
    BY <1>4 DEF FInv, Doors
  <1>7. Cleared'
    BY <1>4 DEF FInv, Cleared
  <1>8. QED
    BY <1>5, <1>6, <1>7 DEF FInv

LEMMA FInvStep ==
    ASSUME ~InTask, FInv, [FleetNext]_fleetVars
    PROVE  FInv'
  <1>1. CASE UNCHANGED fleetVars
    <2>1. UNCHANGED vars /\ user' = user /\ fleet' = fleet /\ GInv
      BY <1>1 DEF fleetVars, FInv, Below
    <2>2. /\ GInv' /\ (NobodyBorrows => NobodyBorrows') /\ (OInv => OInv')
          /\ (Empty <=> Empty') /\ (Busy' <=> Busy)
      BY <2>1, BelowStays DEF Busy
    <2>3. QED
      BY <2>1, <2>2 DEF FInv, Below, Doors, Cleared
  <1>2. QED
    BY <1>1, StepsAside, RunTakesKeeps, RunLeavesKeeps, CloseMarksKeeps, CloseEndsKeeps,
       CollectedKeeps, RunWorksKeeps, FleetThreadsKeep DEF FleetNext

LEMMA FInvInit ==
    ASSUME FleetInit
    PROVE  FInv
  <1>1. GInv /\ OInv
    BY GInvInit, OInvInit DEF FleetInit
  <1>2. NobodyBorrows
    BY NoTaskFact DEF NobodyBorrows, FleetInit, Init
  <1>3. Doors /\ Cleared
    BY DEF Doors, Cleared, Busy, FleetInit
  <1>4. QED
    BY <1>1, <1>2, <1>3 DEF FInv, Below

LEMMA FInvAlways ==
    ASSUME ~InTask
    PROVE  FleetSpec => []FInv
  <1>1. FleetInit => FInv
    BY FInvInit
  <1>2. FInv /\ [FleetNext]_fleetVars => FInv'
    BY FInvStep
  <1>3. QED
    BY <1>1, <1>2, PTL DEF FleetSpec

\* The threads' places in the Fleet's methods and the manager below keep their
\* types, close() beside a run included, where wait_for runs acquire in the
\* caller's task.
THEOREM FleetTyped == ~InTask => (FleetSpec => []FleetTypeOK)
  <1> SUFFICES ASSUME ~InTask PROVE FleetSpec => []FleetTypeOK
    OBVIOUS
  <1>1. FleetSpec => []FInv
    BY FInvAlways
  <1>2. FInv => FleetTypeOK
    BY DEF FInv, Below, Doors, GInv, FleetTypeOK
  <1>3. QED
    BY <1>1, <1>2, PTL

\* A Fleet that was closed or collected while no run was on keeps no session
\* and leaves none open, whatever cancelled borrows left in use, where wait_for
\* runs acquire in the caller's task.
THEOREM NothingOutlives == ~InTask => (FleetSpec => []ClosedKeepsNothing)
  <1> SUFFICES ASSUME ~InTask PROVE FleetSpec => []ClosedKeepsNothing
    OBVIOUS
  <1>1. FleetSpec => []FInv
    BY FInvAlways
  <1>2. FInv => ClosedKeepsNothing
    <2> SUFFICES ASSUME FInv, fleet.closed \/ fleet.collected,
                        \A u \in User : user[u] = "out", ~fleet.raced
                 PROVE  /\ \A k \in Key : ~mgr.slot[k].there
                        /\ \A s \in Session : mgr.status[s] # "open"
      BY DEF ClosedKeepsNothing
    <2>1. Empty /\ OInv
      BY DEF FInv, Below, Cleared
    <2>2. \A k \in Key : ~mgr.slot[k].there /\ mgr.slot[k].ses = NoSession
      BY <2>1 DEF Empty, NoEntry
    <2>3. \A s \in Session : s # NoSession
      BY DEF NoSession
    <2>4. QED
      BY <2>1, <2>2, <2>3 DEF OInv, Entries
  <1>3. QED
    BY <1>1, <1>2, PTL
=============================================================================
