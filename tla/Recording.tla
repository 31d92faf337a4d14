------------------------------ MODULE Recording ------------------------------
(***************************************************************************)
(* The records of runs: the recorder (hssh/orchestrator/recorder.py) as    *)
(* Scheduler.run drives it, on the result store (hssh/store.py) and on an   *)
(* append-only log (hssh/audit.py), which several processes share.  A       *)
(* transaction of SQLite is one step; another process, or whoever removes  *)
(* the file, comes between the steps.  Every write may fail, and a process *)
(* may die between any two steps.                                          *)
(*                                                                         *)
(* The store is a file under a path: a process works on the file it has    *)
(* opened, wherever the path leads by then.                                *)
(***************************************************************************)
EXTENDS Naturals, FiniteSets

CONSTANTS
    Process,        \* runs of the program, each with a recorder
    Target,         \* the targets of a run
    File,           \* identities (device and inode) a store file may have
    NoFile          \* no file

ASSUME RecordingAssumption ==
    NoFile \notin File /\ IsFiniteSet(Process) /\ IsFiniteSet(Target)

VARIABLES
    path,           \* the file the store's path leads to
    store,          \* what each file holds
    log,            \* the audit log
    rec             \* each process's run and its recorder

vars == <<path, store, log, rec>>

\* run: each process's row in the table runs.  rows: whose rows of which target.
Store == [run : [Process -> {"none", "open", "closed"}], rows : SUBSET (Process \X Target)]

\* entries: those a reader finds on a line of their own.  torn: the last line has no end.
Log == [entries : SUBSET (Process \X Target), torn : BOOLEAN]

\* made: O_EXCL created the file.  file: its identity, once opened.  at: how far
\* the records of each target are.  sent: history, the targets whose device was
\* contacted.  said: history, the entries that were not counted as lost.
\* lost: not_kept.
Stage == {"new", "proved", "aborting", "created", "connected", "open", "working",
          "finished", "ended", "refused", "killed"}
MostLost == 2 * Cardinality(Target) + 2
Run == [stage : Stage, made : BOOLEAN, file : File \cup {NoFile},
        at : [Target -> {"waiting", "contacted", "rowed", "done"}],
        sent : SUBSET Target, said : SUBSET Target, lost : 0..MostLost]

TypeOK ==
    /\ path \in File \cup {NoFile}
    /\ store \in [File -> Store]
    /\ log \in Log
    /\ rec \in [Process -> Run]

NoRecords == [run |-> [p \in Process |-> "none"], rows |-> {}]

Init ==
    /\ path \in {NoFile} \cup File
    /\ store = [f \in File |-> NoRecords]
    /\ log = [entries |-> {}, torn |-> FALSE]
    /\ rec = [p \in Process |->
          [stage |-> "new", made |-> FALSE, file |-> NoFile, at |-> [t \in Target |-> "waiting"],
           sent |-> {}, said |-> {}, lost |-> 0]]

-----------------------------------------------------------------------------

Stands(p, stage) == rec[p].stage = stage
Moves(p, stage) == rec' = [rec EXCEPT ![p].stage = stage]

\* p has its connection open.
Holds(p) == rec[p].stage \in {"connected", "open", "working", "finished"}

\* _check_identity: the path still leads to p's file.
Same(p) == path = rec[p].file

AllDone(p) == \A t \in Target : rec[p].at[t] = "done"

-----------------------------------------------------------------------------
(* Before the first target                                                 *)

\* preflight: every destination but the store is proved by writing nothing.
Preflight(p) ==
    /\ Stands(p, "new")
    /\ \E stage \in {"proved", "refused"} : Moves(p, stage)
    /\ UNCHANGED <<path, store, log>>

\* _dead_edit: an audit entry per dead target, and the run is refused.
DeadEdit(p) ==
    /\ Stands(p, "proved")
    /\ \E dead \in SUBSET Target \ {{}} :
          rec' = [rec EXCEPT ![p].stage = "aborting",
                  ![p].at = [t \in Target |-> IF t \in dead THEN "rowed" ELSE "done"]]
    /\ UNCHANGED <<path, store, log>>

Aborts(p) ==
    /\ Stands(p, "aborting") /\ AllDone(p)
    /\ Moves(p, "refused")
    /\ UNCHANGED <<path, store, log>>

\* A file nobody has: a new one may get its identity.
Free(f) == f # path /\ \A q \in Process : Holds(q) => rec[q].file # f

\* _open: the file is created unless there is one.
Creates(p) ==
    /\ Stands(p, "proved")
    /\ IF path = NoFile
       THEN \E f \in File :
               /\ Free(f)
               /\ path' = f
               /\ store' = [store EXCEPT ![f] = NoRecords]
               /\ rec' = [rec EXCEPT ![p].stage = "created", ![p].made = TRUE]
       ELSE Moves(p, "created") /\ UNCHANGED <<path, store>>
    /\ UNCHANGED log

\* _open: the identity of whatever is at the path, and a connection to it.
Connects(p) ==
    /\ Stands(p, "created") /\ path # NoFile
    /\ rec' = [rec EXCEPT ![p].stage = "connected", ![p].file = path]
    /\ UNCHANGED <<path, store, log>>

\* _open: the schema is there or is made, in one transaction.
Opens(p) ==
    /\ Stands(p, "connected") /\ Same(p)
    /\ Moves(p, "open")
    /\ UNCHANGED <<path, store, log>>

\* _open fails at any of its steps: what it has made is removed, by name.
OpenFails(p) ==
    /\ rec[p].stage \in {"proved", "created", "connected"}
    /\ path' = IF rec[p].made THEN NoFile ELSE path
    /\ Moves(p, "refused")
    /\ UNCHANGED <<store, log>>

\* start_run: the run's row.
Begins(p) ==
    /\ Stands(p, "open") /\ Same(p)
    /\ store' = [store EXCEPT ![rec[p].file].run[p] = "open"]
    /\ Moves(p, "working")
    /\ UNCHANGED <<path, log>>

\* Seeded fault: a row that cannot be written is counted like any other record.
BeginFailsCounted(p) ==
    /\ Stands(p, "open")
    /\ rec' = [rec EXCEPT ![p].stage = "working", ![p].lost = 1]
    /\ UNCHANGED <<path, store, log>>

\* start_run fails, before its commit or in the checks after it.
BeginFails(p) ==
    /\ Stands(p, "open")
    /\ \E word \in {"none", "open"} : store' = [store EXCEPT ![rec[p].file].run[p] = word]
    /\ Moves(p, "refused")
    /\ UNCHANGED <<path, log>>

-----------------------------------------------------------------------------
(* The targets                                                             *)

\* An attempt logs in.
Contacts(p, t) ==
    /\ Stands(p, "working") /\ rec[p].at[t] = "waiting"
    /\ rec' = [rec EXCEPT ![p].at[t] = "contacted", ![p].sent = @ \cup {t}]
    /\ UNCHANGED <<path, store, log>>

\* A task the interrupt cancels before it begins records nothing.
NeverBegins(p, t) ==
    /\ Stands(p, "working") /\ rec[p].at[t] = "waiting"
    /\ rec' = [rec EXCEPT ![p].at[t] = "done"]
    /\ UNCHANGED <<path, store, log>>

\* What follows the row: an audit entry for a change that was sent, unless the
\* interrupt has cut the target short.
AfterRow(p, t) == IF rec[p].at[t] = "contacted" THEN {"rowed", "done"} ELSE {"done"}

RowDue(p, t) == Stands(p, "working") /\ rec[p].at[t] \in {"waiting", "contacted"}

RowWritten(p, t) == [store EXCEPT ![rec[p].file].rows = @ \cup {<<p, t>>}]

\* Recorder.result.  A row is counted as lost when it cannot be written, and
\* when the file has gone or its data has no JSON though the row is written.
RowKept(p, t) ==
    /\ RowDue(p, t) /\ Same(p)
    /\ store' = RowWritten(p, t)
    /\ \E next \in AfterRow(p, t) : rec' = [rec EXCEPT ![p].at[t] = next]
    /\ UNCHANGED <<path, log>>

RowLost(p, t) ==
    /\ RowDue(p, t)
    /\ store' \in {store, RowWritten(p, t)}
    /\ \E next \in AfterRow(p, t) :
          rec' = [rec EXCEPT ![p].at[t] = next, ![p].lost = @ + 1]
    /\ UNCHANGED <<path, log>>

EntryDue(p, t) == rec[p].stage \in {"working", "aborting"} /\ rec[p].at[t] = "rowed"

\* Recorder.change.  The line is appended in whole, behind whatever the log ends with.
EntryKept(p, t) ==
    /\ EntryDue(p, t)
    /\ log' = [entries |-> IF log.torn THEN log.entries ELSE log.entries \cup {<<p, t>>},
               torn |-> FALSE]
    /\ rec' = [rec EXCEPT ![p].at[t] = "done", ![p].said = @ \cup {t}]
    /\ UNCHANGED <<path, store>>

\* Seeded fault: an append cut short goes uncounted.
EntryLostUnsaid(p, t) ==
    /\ EntryDue(p, t)
    /\ \E torn \in {log.torn, TRUE} : log' = [log EXCEPT !.torn = torn]
    /\ rec' = [rec EXCEPT ![p].at[t] = "done"]
    /\ UNCHANGED <<path, store>>

\* It fails before its first byte or after some.
EntryLost(p, t) ==
    /\ EntryDue(p, t)
    /\ \E torn \in {log.torn, TRUE} : log' = [log EXCEPT !.torn = torn]
    /\ rec' = [rec EXCEPT ![p].at[t] = "done", ![p].lost = @ + 1]
    /\ UNCHANGED <<path, store>>

-----------------------------------------------------------------------------
(* After the last target                                                   *)

RunClosed(p) == [store EXCEPT ![rec[p].file].run[p] = "closed"]

\* Recorder.finish.
Finishes(p) ==
    /\ Stands(p, "working") /\ AllDone(p)
    /\ Same(p)
    /\ store' = RunClosed(p)
    /\ Moves(p, "finished")
    /\ UNCHANGED <<path, log>>

\* Seeded fault: a row that was not closed is closed again.
FinishFailsRetried(p) ==
    /\ Stands(p, "working") /\ AllDone(p)
    /\ rec' = [rec EXCEPT ![p].lost = @ + 1]
    /\ UNCHANGED <<path, store, log>>

FinishFails(p) ==
    /\ Stands(p, "working") /\ AllDone(p)
    /\ store' \in {store, RunClosed(p)}
    /\ rec' = [rec EXCEPT ![p].stage = "finished", ![p].lost = @ + 1]
    /\ UNCHANGED <<path, log>>

\* Seeded fault: the store is closed without a last look at its file.
ClosesBlindly(p) ==
    /\ Stands(p, "finished")
    /\ Moves(p, "ended")
    /\ UNCHANGED <<path, store, log>>

\* Recorder.close, after which the report has its final count.
Closes(p) ==
    /\ Stands(p, "finished") /\ Same(p)
    /\ Moves(p, "ended")
    /\ UNCHANGED <<path, store, log>>

CloseFails(p) ==
    /\ Stands(p, "finished")
    /\ rec' = [rec EXCEPT ![p].stage = "ended", ![p].lost = @ + 1]
    /\ UNCHANGED <<path, store, log>>

-----------------------------------------------------------------------------
(* Around the program                                                      *)

\* The process dies, in the middle of an append if it was at one.
Kill(p) ==
    /\ rec[p].stage \notin {"ended", "refused", "killed"}
    /\ Moves(p, "killed")
    /\ \E torn \in {log.torn} \cup {TRUE : t \in {u \in Target : EntryDue(p, u)}} :
          log' = [log EXCEPT !.torn = torn]
    /\ UNCHANGED <<path, store>>

\* Somebody removes the store.
Vanish ==
    /\ path # NoFile
    /\ path' = NoFile
    /\ UNCHANGED <<store, log, rec>>

Before(p) ==
    \/ Preflight(p) \/ DeadEdit(p) \/ Aborts(p) \/ Creates(p) \/ Connects(p)
    \/ Opens(p) \/ OpenFails(p) \/ Begins(p) \/ BeginFails(p)

During(p, t) ==
    \/ Contacts(p, t) \/ NeverBegins(p, t) \/ RowKept(p, t) \/ RowLost(p, t)
    \/ EntryKept(p, t) \/ EntryLost(p, t)

After(p) == Finishes(p) \/ FinishFails(p) \/ Closes(p) \/ CloseFails(p)

Next ==
    \/ \E p \in Process : Before(p) \/ After(p) \/ Kill(p)
    \/ \E p \in Process, t \in Target : During(p, t)
    \/ Vanish

Spec == Init /\ [][Next]_vars

-----------------------------------------------------------------------------
(* Properties                                                              *)

\* A run that reports no lost record has them all in the store as it closes it,
\* its own row closed and a row for every device it contacted, whoever removed
\* or remade the file meanwhile.
StoreComplete ==
    [][\A p \in Process :
          rec[p].stage = "finished" /\ rec'[p].stage = "ended" /\ rec'[p].lost = 0 =>
              /\ path = rec[p].file
              /\ store[path].run[p] = "closed"
              /\ \A t \in rec[p].sent : <<p, t>> \in store[path].rows]_vars

\* No device is contacted before the run's row is committed, so that a process
\* that dies leaves its run in the store it has opened.
RunTraced ==
    \A p \in Process :
        Holds(p) /\ rec[p].sent # {} => store[rec[p].file].run[p] # "none"

\* The entries that count as kept and that no reader finds.
Missing == {e \in Process \X Target : e[2] \in rec[e[1]].said /\ e \notin log.entries}

\* The losses there were, numbered: those p has counted, and p's death.
Counts(p) == rec[p].lost + IF Stands(p, "killed") THEN 1 ELSE 0
Losses == {l \in Process \X (0..MostLost) : l[2] < Counts(l[1])}

\* An entry that was written in whole is missing from the log only behind one that
\* was not: no more of them are missing than losses were reported or processes died.
EntriesAccounted == Cardinality(Missing) <= Cardinality(Losses)
=============================================================================
