--------------------------- MODULE RecordingProofs ---------------------------
(***************************************************************************)
(* Proofs about Recording, for every set of processes, targets and file    *)
(* identities.                                                             *)
(***************************************************************************)
EXTENDS Recording, FiniteSetTheorems, TLAPS

LEMMA NoFileIsNone == NoFile \notin File
  BY RecordingAssumption

USE NoFileIsNone

\* TypeOK without the bound on the count, which holds by counting records.
Counted == [stage : Stage, made : BOOLEAN, file : File \cup {NoFile},
            at : [Target -> {"waiting", "contacted", "rowed", "done"}],
            sent : SUBSET Target, said : SUBSET Target, lost : Nat]

Typed ==
    /\ path \in File \cup {NoFile}
    /\ store \in [File -> Store]
    /\ rec \in [Process -> Counted]

\* p's transactions so far are in the file it holds: the run's row from before
\* the first contact on, and as long as nothing is counted as lost, the row of
\* each target that is past it, and the row that closes the run.
Recorded(p) ==
    /\ Holds(p) => rec[p].file \in File
    /\ rec[p].stage \notin {"working", "finished", "ended", "killed", "refused"} => rec[p].sent = {}
    /\ rec[p].stage \in {"working", "finished"} => store[rec[p].file].run[p] # "none"
    /\ rec[p].stage \in {"working", "finished"} /\ rec[p].lost = 0 =>
          \A t \in rec[p].sent :
              rec[p].at[t] = "contacted" \/ <<p, t>> \in store[rec[p].file].rows
    /\ rec[p].stage = "finished" => AllDone(p)
    /\ rec[p].stage = "finished" /\ rec[p].lost = 0 => store[rec[p].file].run[p] = "closed"

RecordedInv == Typed /\ \A p \in Process : Recorded(p)

-----------------------------------------------------------------------------
(* What a step changes                                                     *)

\* A run keeps its type when a step gives its fields values of theirs.
LEMMA RunTyped ==
    ASSUME Typed, NEW p \in Process
    PROVE  /\ \A stage \in Stage : [rec EXCEPT ![p].stage = stage] \in [Process -> Counted]
           /\ \A stage \in Stage, n \in Nat :
                 [rec EXCEPT ![p].stage = stage, ![p].lost = n] \in [Process -> Counted]
           /\ \A stage \in Stage, b \in BOOLEAN :
                 [rec EXCEPT ![p].stage = stage, ![p].made = b] \in [Process -> Counted]
           /\ \A stage \in Stage, f \in File \cup {NoFile} :
                 [rec EXCEPT ![p].stage = stage, ![p].file = f] \in [Process -> Counted]
  <1>1. rec \in [Process -> Counted] /\ rec[p] \in Counted
    BY DEF Typed
  <1>2. QED
    BY <1>1 DEF Counted

LEMMA StoreTyped ==
    ASSUME Typed, NEW p \in Process, NEW f \in File
    PROVE  /\ NoRecords \in Store
           /\ [store EXCEPT ![f] = NoRecords] \in [File -> Store]
           /\ \A word \in {"none", "open", "closed"} :
                 [store EXCEPT ![f].run[p] = word] \in [File -> Store]
           /\ \A t \in Target : [store EXCEPT ![f].rows = @ \cup {<<p, t>>}] \in [File -> Store]
  <1>1. store \in [File -> Store] /\ store[f] \in Store
    BY DEF Typed
  <1>2. NoRecords \in Store
    BY DEF Store, NoRecords
  <1>3. [store EXCEPT ![f] = NoRecords] \in [File -> Store]
    BY <1>1, <1>2
  <1>4. \A word \in {"none", "open", "closed"} :
           [store EXCEPT ![f].run[p] = word] \in [File -> Store]
    BY <1>1 DEF Store
  <1>5. \A t \in Target : store[f].rows \cup {<<p, t>>} \in SUBSET (Process \X Target)
    BY <1>1 DEF Store
  <1>6. \A t \in Target : [store EXCEPT ![f].rows = @ \cup {<<p, t>>}] \in [File -> Store]
    BY <1>1, <1>5 DEF Store
  <1>7. QED
    BY <1>2, <1>3, <1>4, <1>6

\* What a file holds of q's run is there after a step, and no row is gone.
Untouched(q) ==
    /\ store'[rec[q].file].run[q] = store[rec[q].file].run[q]
    /\ store[rec[q].file].rows \subseteq store'[rec[q].file].rows

\* A step of p keeps the invariant when it keeps what it says of p and leaves
\* alone what the others hold.
LEMMA StepOf ==
    ASSUME RecordedInv, NEW p \in Process,
           path' \in File \cup {NoFile}, store' \in [File -> Store],
           rec' \in [Process -> Counted],
           \A q \in Process \ {p} : rec'[q] = rec[q],
           \A q \in Process \ {p} : Holds(q) => Untouched(q),
           Recorded(p)'
    PROVE  RecordedInv'
  <1>1. ASSUME NEW q \in Process \ {p} PROVE Recorded(q)'
    <2>1. Recorded(q) /\ rec'[q] = rec[q] /\ (Holds(q) => Untouched(q))
      BY DEF RecordedInv
    <2>2. QED
      BY <2>1 DEF Recorded, Holds, AllDone, Untouched
  <1>2. \A q \in Process : Recorded(q)'
    BY <1>1
  <1>3. QED
    BY <1>2 DEF RecordedInv, Typed

\* The three ways a step of p changes the store.
LEMMA StoreKept ==
    ASSUME RecordedInv, NEW p \in Process, NEW q \in Process \ {p}, Holds(q)
    PROVE  /\ store' = store => Untouched(q)
           /\ \A f \in File : Free(f) /\ store' = [store EXCEPT ![f] = NoRecords] => Untouched(q)
           /\ \A f \in File, word \in {"none", "open", "closed"} :
                 store' = [store EXCEPT ![f].run[p] = word] => Untouched(q)
           /\ \A f \in File, t \in Target :
                 store' = [store EXCEPT ![f].rows = @ \cup {<<p, t>>}] => Untouched(q)
  <1>1. rec[q].file \in File /\ store \in [File -> Store] /\ store[rec[q].file] \in Store
    BY DEF RecordedInv, Recorded, Typed
  <1>2. store' = store => Untouched(q)
    BY DEF Untouched
  <1>3. ASSUME NEW f \in File, Free(f), store' = [store EXCEPT ![f] = NoRecords]
        PROVE  Untouched(q)
    BY <1>1, <1>3 DEF Untouched, Free
  <1>4. ASSUME NEW f \in File, NEW word \in {"none", "open", "closed"},
               store' = [store EXCEPT ![f].run[p] = word]
        PROVE  Untouched(q)
    BY <1>1, <1>4 DEF Untouched, Store
  <1>5. ASSUME NEW f \in File, NEW t \in Target,
               store' = [store EXCEPT ![f].rows = @ \cup {<<p, t>>}]
        PROVE  Untouched(q)
    BY <1>1, <1>5 DEF Untouched, Store
  <1>6. QED
    BY <1>2, <1>3, <1>4, <1>5

-----------------------------------------------------------------------------
(* The steps                                                               *)

\* A step of p that leaves path and store alone.
LEMMA StepAside ==
    ASSUME RecordedInv, NEW p \in Process,
           path' = path \/ path' = NoFile, store' = store,
           rec' \in [Process -> Counted],
           \A q \in Process \ {p} : rec'[q] = rec[q],
           Recorded(p)'
    PROVE  RecordedInv'
  <1>1. path' \in File \cup {NoFile} /\ store' \in [File -> Store]
    BY DEF RecordedInv, Typed
  <1>2. \A q \in Process \ {p} : Holds(q) => Untouched(q)
    BY StoreKept
  <1>3. QED
    BY <1>1, <1>2, StepOf

LEMMA BeforeStep ==
    ASSUME RecordedInv, NEW p \in Process, Before(p)
    PROVE  RecordedInv'
  <1>1. Typed /\ Recorded(p) /\ rec \in [Process -> Counted] /\ rec[p] \in Counted
    BY DEF RecordedInv, Typed
  <1> USE DEF Stands, Moves
  <1>2. CASE Preflight(p) \/ Aborts(p) \/ Opens(p) \/ OpenFails(p)
    <2>1. rec' \in [Process -> Counted]
      <3>1. PICK stage \in Stage : rec' = [rec EXCEPT ![p].stage = stage]
        BY <1>2 DEF Preflight, Aborts, Opens, OpenFails, Stage
      <3>2. QED
        BY <1>1, <3>1, RunTyped
    <2>2. Recorded(p)'
      BY <1>1, <1>2 DEF Preflight, Aborts, Opens, OpenFails, Recorded, Holds, Counted
    <2>3. \A q \in Process \ {p} : rec'[q] = rec[q]
      BY <1>1, <1>2 DEF Preflight, Aborts, Opens, OpenFails
    <2>4. (path' = path \/ path' = NoFile) /\ store' = store
      BY <1>2 DEF Preflight, Aborts, Opens, OpenFails
    <2>5. QED
      BY <2>1, <2>2, <2>3, <2>4, StepAside
  <1>3. CASE DeadEdit(p)
    <2>1. PICK dead \in SUBSET Target \ {{}} :
             rec' = [rec EXCEPT ![p].stage = "aborting",
                     ![p].at = [t \in Target |-> IF t \in dead THEN "rowed" ELSE "done"]]
      BY <1>3 DEF DeadEdit
    <2>2. rec' \in [Process -> Counted]
      <3>1. PICK f \in [Target -> {"waiting", "contacted", "rowed", "done"}] :
               f = [t \in Target |-> IF t \in dead THEN "rowed" ELSE "done"]
        OBVIOUS
      <3>2. rec' = [rec EXCEPT ![p].stage = "aborting", ![p].at = f]
        BY <2>1, <3>1
      <3>3. "aborting" \in Stage
        BY DEF Stage
      <3>4. QED
        BY <1>1, <3>2, <3>3 DEF Counted
    <2>3. Recorded(p)' /\ \A q \in Process \ {p} : rec'[q] = rec[q]
      BY <1>1, <1>3, <2>1 DEF DeadEdit, Recorded, Holds, Counted
    <2>4. path' = path /\ store' = store
      BY <1>3 DEF DeadEdit
    <2>5. QED
      BY <2>2, <2>3, <2>4, StepAside
  <1>4. CASE Creates(p) /\ path # NoFile
    <2>1. rec' \in [Process -> Counted]
      <3>1. rec' = [rec EXCEPT ![p].stage = "created"]
        BY <1>4 DEF Creates
      <3>2. "created" \in Stage
        BY DEF Stage
      <3>3. QED
        BY <1>1, <3>1, <3>2, RunTyped
    <2>2. Recorded(p)' /\ \A q \in Process \ {p} : rec'[q] = rec[q]
      BY <1>1, <1>4 DEF Creates, Recorded, Holds, Counted
    <2>3. path' = path /\ store' = store
      BY <1>4 DEF Creates
    <2>4. QED
      BY <2>1, <2>2, <2>3, StepAside
  <1>5. CASE Creates(p) /\ path = NoFile
    <2>1. PICK f \in File :
             /\ Free(f) /\ path' = f
             /\ store' = [store EXCEPT ![f] = NoRecords]
             /\ rec' = [rec EXCEPT ![p].stage = "created", ![p].made = TRUE]
      BY <1>5 DEF Creates
    <2>2. rec' \in [Process -> Counted]
      <3>1. "created" \in Stage
        BY DEF Stage
      <3>2. QED
        BY <1>1, <2>1, <3>1, RunTyped
    <2>3. Recorded(p)' /\ \A q \in Process \ {p} : rec'[q] = rec[q]
      BY <1>1, <1>5, <2>1 DEF Creates, Recorded, Holds, Counted
    <2>4. store' \in [File -> Store]
      <3>1. \A g \in File : [store EXCEPT ![g] = NoRecords] \in [File -> Store]
        BY <1>1 DEF Typed, NoRecords, Store
      <3>2. QED
        BY <2>1, <3>1
    <2>5. \A q \in Process \ {p} : Holds(q) => Untouched(q)
      BY <2>1, StoreKept
    <2>6. QED
      BY <2>1, <2>2, <2>3, <2>4, <2>5, StepOf
  <1>6. CASE Connects(p)
    <2>1. rec' \in [Process -> Counted]
      <3>1. "connected" \in Stage /\ path \in File \cup {NoFile}
        BY <1>1 DEF Stage, Typed
      <3>2. rec' = [rec EXCEPT ![p].stage = "connected", ![p].file = path]
        BY <1>6 DEF Connects
      <3>3. QED
        BY <1>1, <3>1, <3>2, RunTyped
    <2>2. Recorded(p)' /\ \A q \in Process \ {p} : rec'[q] = rec[q]
      BY <1>1, <1>6 DEF Connects, Recorded, Holds, Counted, Typed
    <2>3. path' = path /\ store' = store
      BY <1>6 DEF Connects
    <2>4. QED
      BY <2>1, <2>2, <2>3, StepAside
  <1>7. CASE Begins(p) \/ BeginFails(p)
    <2>1. PICK stage \in Stage, word \in {"none", "open"} :
             /\ rec[p].stage = "open"
             /\ stage \in {"working", "refused"} /\ (stage = "working" => word = "open")
             /\ store' = [store EXCEPT ![rec[p].file].run[p] = word]
             /\ rec' = [rec EXCEPT ![p].stage = stage]
             /\ path' = path
      BY <1>7 DEF Begins, BeginFails, Stage
    <2>2. rec' \in [Process -> Counted]
      BY <1>1, <2>1, RunTyped
    <2>3. rec[p].file \in File /\ store[rec[p].file] \in Store
      BY <1>1, <2>1 DEF Recorded, Holds, Typed
    <2>4. store' \in [File -> Store]
      BY <1>1, <2>1, <2>3 DEF Store, Typed
    <2>5. \A q \in Process \ {p} : Holds(q) => Untouched(q)
      BY <2>1, <2>3, StoreKept
    <2>6. \A q \in Process \ {p} : rec'[q] = rec[q]
      BY <1>1, <2>1
    <2>7. stage = "working" => store'[rec[p].file].run[p] = "open"
      BY <1>1, <2>1, <2>3 DEF Store, Typed
    <2>8. /\ rec'[p].stage = stage /\ rec'[p].file = rec[p].file /\ rec'[p].sent = {}
      BY <1>1, <2>1 DEF Recorded, Counted
    <2>9. Recorded(p)'
      BY <2>1, <2>3, <2>7, <2>8 DEF Recorded, Holds
    <2>10. QED
      BY <1>1, <2>1, <2>2, <2>4, <2>5, <2>6, <2>9, StepOf DEF Typed
  <1>8. QED
    BY <1>2, <1>3, <1>4, <1>5, <1>6, <1>7 DEF Before

LEMMA DuringStep ==
    ASSUME RecordedInv, NEW p \in Process, NEW t \in Target, During(p, t)
    PROVE  RecordedInv'
  <1>1. Typed /\ Recorded(p) /\ rec \in [Process -> Counted] /\ rec[p] \in Counted
    BY DEF RecordedInv, Typed
  <1> USE DEF Stands
  <1>2. CASE Contacts(p, t) \/ NeverBegins(p, t)
    <2>1. rec' \in [Process -> Counted]
      <3>1. \/ rec' = [rec EXCEPT ![p].at[t] = "contacted", ![p].sent = @ \cup {t}]
            \/ rec' = [rec EXCEPT ![p].at[t] = "done"]
        BY <1>2 DEF Contacts, NeverBegins
      <3>2. [rec EXCEPT ![p].at[t] = "contacted", ![p].sent = @ \cup {t}] \in [Process -> Counted]
        BY <1>1 DEF Counted
      <3>3. [rec EXCEPT ![p].at[t] = "done"] \in [Process -> Counted]
        BY <1>1 DEF Counted
      <3>4. QED
        BY <3>1, <3>2, <3>3
    <2> rec[p].at \in [Target -> {"waiting", "contacted", "rowed", "done"}]
      BY <1>1 DEF Counted
    <2>2. \A q \in Process \ {p} : rec'[q] = rec[q]
      BY <1>1, <1>2 DEF Contacts, NeverBegins
    <2>3. path' = path /\ store' = store
      BY <1>2 DEF Contacts, NeverBegins
    <2>4. /\ rec[p].stage = "working" /\ rec'[p].stage = "working"
          /\ rec'[p].file = rec[p].file /\ rec'[p].lost = rec[p].lost
          /\ \A u \in Target \ {t} : rec'[p].at[u] = rec[p].at[u]
      BY <1>1, <1>2 DEF Contacts, NeverBegins, Counted
    <2>6. \/ rec'[p].sent = rec[p].sent /\ rec[p].at[t] = "waiting"
          \/ rec'[p].sent = rec[p].sent \cup {t} /\ rec'[p].at[t] = "contacted"
      BY <1>1, <1>2 DEF Contacts, NeverBegins, Counted
    <2>8. rec[p].sent \subseteq Target
      BY <1>1 DEF Counted
    <2>7. Recorded(p)'
      BY <1>1, <2>3, <2>4, <2>6, <2>8 DEF Recorded, Holds
    <2>5. QED
      BY <2>1, <2>2, <2>3, <2>7, StepAside
  <1>3. CASE EntryKept(p, t) \/ EntryLost(p, t)
    <2>1. rec' \in [Process -> Counted]
      <3>1. PICK n \in Nat : n = rec[p].lost + 1
        BY <1>1 DEF Counted
      <3>2. \/ rec' = [rec EXCEPT ![p].at[t] = "done", ![p].said = @ \cup {t}]
            \/ rec' = [rec EXCEPT ![p].at[t] = "done", ![p].lost = n]
        <4>1. CASE EntryKept(p, t)
          BY <4>1 DEF EntryKept
        <4>2. CASE EntryLost(p, t)
          BY <1>1, <3>1, <4>2 DEF EntryLost, Counted
        <4>3. QED
          BY <1>3, <4>1, <4>2
      <3>3. [rec EXCEPT ![p].at[t] = "done", ![p].said = @ \cup {t}] \in [Process -> Counted]
        BY <1>1 DEF Counted
      <3>4. [rec EXCEPT ![p].at[t] = "done", ![p].lost = n] \in [Process -> Counted]
        BY <1>1 DEF Counted
      <3>5. QED
        BY <3>2, <3>3, <3>4
    <2>2. \A q \in Process \ {p} : rec'[q] = rec[q]
      BY <1>1, <1>3 DEF EntryKept, EntryLost
    <2>3. path' = path /\ store' = store
      BY <1>3 DEF EntryKept, EntryLost
    <2>4. /\ rec[p].stage \in {"working", "aborting"} /\ rec'[p].stage = rec[p].stage
          /\ rec'[p].file = rec[p].file /\ rec'[p].sent = rec[p].sent
          /\ \A u \in Target \ {t} : rec'[p].at[u] = rec[p].at[u]
          /\ rec[p].at[t] = "rowed"
      BY <1>1, <1>3 DEF EntryKept, EntryLost, EntryDue, Counted
    <2>5. rec'[p].lost = 0 => rec[p].lost = 0
      BY <1>1, <1>3 DEF EntryKept, EntryLost, Counted
    <2>6. rec[p].sent \subseteq Target
      BY <1>1 DEF Counted
    <2>7. Recorded(p)'
      BY <1>1, <2>3, <2>4, <2>5, <2>6 DEF Recorded, Holds
    <2>8. QED
      BY <2>1, <2>2, <2>3, <2>7, StepAside
  <1>4. CASE RowKept(p, t) \/ RowLost(p, t)
    <2>1. PICK next \in {"rowed", "done"}, n \in Nat :
             /\ rec[p].stage = "working" /\ path' = path
             /\ \/ n = rec[p].lost /\ store' = RowWritten(p, t)
                   /\ rec' = [rec EXCEPT ![p].at[t] = next]
                \/ n = rec[p].lost + 1 /\ store' \in {store, RowWritten(p, t)}
                   /\ rec' = [rec EXCEPT ![p].at[t] = next, ![p].lost = n]
      <3>1. rec[p].lost \in Nat /\ rec[p].lost + 1 \in Nat
        BY <1>1 DEF Counted
      <3>2. rec[p].stage = "working" /\ path' = path
        BY <1>4 DEF RowKept, RowLost, RowDue
      <3>3. CASE RowKept(p, t)
        <4>1. PICK next \in {"rowed", "done"} : rec' = [rec EXCEPT ![p].at[t] = next]
          BY <3>3 DEF RowKept, AfterRow
        <4>2. QED
          BY <3>1, <3>2, <3>3, <4>1 DEF RowKept
      <3>4. CASE RowLost(p, t)
        <4>1. PICK next \in {"rowed", "done"} :
                 rec' = [rec EXCEPT ![p].at[t] = next, ![p].lost = @ + 1]
          BY <3>4 DEF RowLost, AfterRow
        <4>2. rec' = [rec EXCEPT ![p].at[t] = next, ![p].lost = rec[p].lost + 1]
          BY <1>1, <4>1 DEF Counted
        <4>3. QED
          BY <3>1, <3>2, <3>4, <4>2 DEF RowLost
      <3>5. QED
        BY <1>4, <3>3, <3>4
    <2>2. rec' \in [Process -> Counted]
      <3>1. [rec EXCEPT ![p].at[t] = next] \in [Process -> Counted]
        BY <1>1 DEF Counted
      <3>2. [rec EXCEPT ![p].at[t] = next, ![p].lost = n] \in [Process -> Counted]
        BY <1>1 DEF Counted
      <3>3. QED
        BY <2>1, <3>1, <3>2
    <2>3. rec[p].file \in File /\ store[rec[p].file] \in Store
      BY <1>1, <2>1 DEF Recorded, Holds, Typed
    <2>4. RowWritten(p, t) \in [File -> Store]
      BY <1>1, <2>3, StoreTyped DEF RowWritten
    <2>5. store' \in [File -> Store]
      BY <1>1, <2>1, <2>4 DEF Typed
    <2>6. \A q \in Process \ {p} : Holds(q) => Untouched(q)
      BY <2>1, <2>3, StoreKept DEF RowWritten
    <2>7. \A q \in Process \ {p} : rec'[q] = rec[q]
      BY <1>1, <2>1
    <2>8. /\ rec'[p].stage = "working" /\ rec'[p].file = rec[p].file
          /\ rec'[p].sent = rec[p].sent /\ rec'[p].lost = n
          /\ \A u \in Target \ {t} : rec'[p].at[u] = rec[p].at[u]
      BY <1>1, <2>1 DEF Counted
    <2>9. /\ store'[rec[p].file].run = store[rec[p].file].run
          /\ store[rec[p].file].rows \subseteq store'[rec[p].file].rows
          /\ n = 0 => n = rec[p].lost /\ <<p, t>> \in store'[rec[p].file].rows
      BY <1>1, <2>1, <2>3 DEF RowWritten, Store, Typed, Counted
    <2>10. rec[p].sent \subseteq Target
      BY <1>1 DEF Counted
    <2>11. Recorded(p)'
      BY <1>1, <2>1, <2>3, <2>8, <2>9, <2>10 DEF Recorded, Holds
    <2>12. QED
      BY <1>1, <2>1, <2>2, <2>5, <2>6, <2>7, <2>11, StepOf DEF Typed
  <1>5. QED
    BY <1>2, <1>3, <1>4 DEF During

LEMMA AfterStep ==
    ASSUME RecordedInv, NEW p \in Process, After(p) \/ Kill(p)
    PROVE  RecordedInv'
  <1>1. Typed /\ Recorded(p) /\ rec \in [Process -> Counted] /\ rec[p] \in Counted
    BY DEF RecordedInv, Typed
  <1> USE DEF Stands, Moves
  <1>2. CASE Closes(p) \/ CloseFails(p) \/ Kill(p)
    <2>1. rec' \in [Process -> Counted]
      <3> PICK n \in Nat : n = rec[p].lost + 1
        BY <1>1 DEF Counted
      <3>1. \/ rec' = [rec EXCEPT ![p].stage = "ended"]
            \/ rec' = [rec EXCEPT ![p].stage = "killed"]
            \/ rec' = [rec EXCEPT ![p].stage = "ended", ![p].lost = n]
        <4>1. CASE Closes(p) \/ Kill(p)
          BY <4>1 DEF Closes, Kill
        <4>2. CASE CloseFails(p)
          BY <1>1, <4>2 DEF CloseFails, Counted
        <4>3. QED
          BY <1>2, <4>1, <4>2
      <3>2. /\ [rec EXCEPT ![p].stage = "ended"] \in [Process -> Counted]
            /\ [rec EXCEPT ![p].stage = "killed"] \in [Process -> Counted]
        BY <1>1 DEF Counted, Stage
      <3>3. [rec EXCEPT ![p].stage = "ended", ![p].lost = n] \in [Process -> Counted]
        BY <1>1 DEF Counted, Stage
      <3>4. QED
        BY <3>1, <3>2, <3>3
    <2>2. \A q \in Process \ {p} : rec'[q] = rec[q]
      BY <1>1, <1>2 DEF Closes, CloseFails, Kill
    <2>3. path' = path /\ store' = store
      BY <1>2 DEF Closes, CloseFails, Kill
    <2>4. Recorded(p)'
      <3>1. rec'[p].stage \in {"ended", "killed"}
        <4>1. CASE Closes(p)
          BY <1>1, <4>1 DEF Closes, Counted
        <4>2. CASE CloseFails(p)
          BY <1>1, <4>2 DEF CloseFails, Counted
        <4>3. CASE Kill(p)
          BY <1>1, <4>3 DEF Kill, Counted
        <4>4. QED
          BY <1>2, <4>1, <4>2, <4>3
      <3>2. QED
        BY <3>1 DEF Recorded, Holds
    <2>5. QED
      BY <2>1, <2>2, <2>3, <2>4, StepAside
  <1>3. CASE Finishes(p) \/ FinishFails(p)
    <2>1. PICK n \in Nat :
             /\ rec[p].stage = "working" /\ path' = path /\ AllDone(p)
             /\ \/ n = rec[p].lost /\ store' = RunClosed(p)
                   /\ rec' = [rec EXCEPT ![p].stage = "finished"]
                \/ n = rec[p].lost + 1 /\ store' \in {store, RunClosed(p)}
                   /\ rec' = [rec EXCEPT ![p].stage = "finished", ![p].lost = n]
      <3>1. rec[p].lost \in Nat /\ rec[p].lost + 1 \in Nat
        BY <1>1 DEF Counted
      <3>2. CASE Finishes(p)
        BY <3>1, <3>2 DEF Finishes
      <3>3. CASE FinishFails(p)
        <4>1. rec' = [rec EXCEPT ![p].stage = "finished", ![p].lost = rec[p].lost + 1]
          BY <1>1, <3>3 DEF FinishFails, Counted
        <4>2. QED
          BY <3>1, <3>3, <4>1 DEF FinishFails
      <3>4. QED
        BY <1>3, <3>2, <3>3
    <2>2. rec' \in [Process -> Counted]
      <3>1. [rec EXCEPT ![p].stage = "finished"] \in [Process -> Counted]
        BY <1>1 DEF Counted, Stage
      <3>2. [rec EXCEPT ![p].stage = "finished", ![p].lost = n] \in [Process -> Counted]
        BY <1>1 DEF Counted, Stage
      <3>3. QED
        BY <2>1, <3>1, <3>2
    <2>3. rec[p].file \in File /\ store[rec[p].file] \in Store
      BY <1>1, <2>1 DEF Recorded, Holds, Typed
    <2>4. store' \in [File -> Store]
      <3>1. RunClosed(p) \in [File -> Store]
        BY <1>1, <2>3 DEF RunClosed, Store, Typed
      <3>2. QED
        BY <1>1, <2>1, <3>1 DEF Typed
    <2>5. \A q \in Process \ {p} : Holds(q) => Untouched(q)
      BY <2>1, <2>3, StoreKept DEF RunClosed
    <2>6. \A q \in Process \ {p} : rec'[q] = rec[q]
      BY <1>1, <2>1
    <2>7. /\ rec'[p].stage = "finished" /\ rec'[p].file = rec[p].file
          /\ rec'[p].sent = rec[p].sent /\ rec'[p].at = rec[p].at /\ rec'[p].lost = n
      BY <1>1, <2>1 DEF Counted
    <2>8. /\ store'[rec[p].file].rows = store[rec[p].file].rows
          /\ store'[rec[p].file].run[p] \in {store[rec[p].file].run[p], "closed"}
          /\ n = 0 => n = rec[p].lost /\ store'[rec[p].file].run[p] = "closed"
      BY <1>1, <2>1, <2>3 DEF RunClosed, Store, Typed, Counted
    <2>9. Recorded(p)'
      BY <1>1, <2>1, <2>3, <2>7, <2>8 DEF Recorded, Holds, AllDone
    <2>10. QED
      BY <1>1, <2>1, <2>2, <2>4, <2>5, <2>6, <2>9, StepOf DEF Typed
  <1>4. QED
    BY <1>2, <1>3 DEF After

LEMMA RecordedStep == RecordedInv /\ [Next]_vars => RecordedInv'
  <1> SUFFICES ASSUME RecordedInv, [Next]_vars PROVE RecordedInv'
    OBVIOUS
  <1>1. CASE Vanish
    BY <1>1 DEF Vanish, RecordedInv, Typed, Recorded, Holds, AllDone
  <1>2. CASE UNCHANGED vars
    BY <1>2 DEF vars, RecordedInv, Typed, Recorded, Holds, AllDone
  <1>3. QED
    BY <1>1, <1>2, BeforeStep, DuringStep, AfterStep DEF Next

LEMMA RecordedInit == Init => RecordedInv
  BY DEF Init, RecordedInv, Typed, Recorded, Holds, AllDone, NoRecords, Store, Counted, Stage

-----------------------------------------------------------------------------
(* What it comes to                                                        *)

\* The file a process holds has its transactions, whatever the others do to the
\* path and to their own records.
THEOREM RecordsAreKept == Spec => []RecordedInv
  BY RecordedInit, RecordedStep, PTL DEF Spec

\* A process that dies after it has contacted a device leaves its run in the
\* store it has opened.
THEOREM EveryRunTraced == Spec => []RunTraced
  <1>1. RecordedInv => RunTraced
    BY DEF RecordedInv, Recorded, RunTraced, Holds
  <1>2. QED
    BY <1>1, RecordsAreKept, PTL

\* A report without losses is a complete store at the moment it is closed.
THEOREM ReportsAreTrue == Spec => StoreComplete
  <1>1. RecordedInv /\ [Next]_vars =>
            \A p \in Process :
                rec[p].stage = "finished" /\ rec'[p].stage = "ended" /\ rec'[p].lost = 0 =>
                    /\ path = rec[p].file
                    /\ store[path].run[p] = "closed"
                    /\ \A t \in rec[p].sent : <<p, t>> \in store[path].rows
    <2> SUFFICES ASSUME RecordedInv, [Next]_vars, NEW p \in Process,
                        rec[p].stage = "finished", rec'[p].stage = "ended", rec'[p].lost = 0
                 PROVE  /\ path = rec[p].file
                        /\ store[path].run[p] = "closed"
                        /\ \A t \in rec[p].sent : <<p, t>> \in store[path].rows
      OBVIOUS
    <2>1. rec \in [Process -> Counted] /\ rec[p] \in Counted /\ Recorded(p)
      BY DEF RecordedInv, Typed
    <2> USE DEF Stands, Moves
    <2>2. ASSUME NEW q \in Process, Before(q) \/ Kill(q) PROVE FALSE
      <3>1. CASE q = p
        <4>1. CASE Kill(p)
          BY <2>1, <4>1 DEF Kill
        <4>2. CASE Before(p)
          BY <4>2 DEF Before, Preflight, DeadEdit, Aborts, Creates, Connects, Opens,
             OpenFails, Begins, BeginFails
        <4>3. QED
          BY <2>2, <3>1, <4>1, <4>2
      <3>2. CASE q # p
        <4>1. CASE DeadEdit(q)
          BY <2>1, <3>2, <4>1 DEF DeadEdit
        <4>2. CASE Creates(q)
          BY <2>1, <3>2, <4>2 DEF Creates
        <4>3. CASE Kill(q) \/ Preflight(q) \/ Aborts(q) \/ Connects(q) \/ Opens(q)
          BY <2>1, <3>2, <4>3 DEF Kill, Preflight, Aborts, Connects, Opens
        <4>4. CASE OpenFails(q) \/ Begins(q) \/ BeginFails(q)
          BY <2>1, <3>2, <4>4 DEF OpenFails, Begins, BeginFails
        <4>5. QED
          BY <2>2, <4>1, <4>2, <4>3, <4>4 DEF Before
      <3>3. QED
        BY <3>1, <3>2
    <2>3. ASSUME NEW q \in Process, NEW t \in Target, During(q, t) PROVE FALSE
      <3>1. rec[q].stage \in {"working", "aborting"}
        BY <2>3 DEF During, Contacts, NeverBegins, RowKept, RowLost, EntryKept, EntryLost,
           RowDue, EntryDue
      <3>2. q # p
        BY <3>1
      <3>3. CASE Contacts(q, t) \/ NeverBegins(q, t)
        BY <2>1, <3>2, <3>3 DEF Contacts, NeverBegins
      <3>4. CASE RowKept(q, t)
        BY <2>1, <3>2, <3>4 DEF RowKept
      <3>5. CASE RowLost(q, t)
        BY <2>1, <3>2, <3>5 DEF RowLost
      <3>6. CASE EntryKept(q, t) \/ EntryLost(q, t)
        BY <2>1, <3>2, <3>6 DEF EntryKept, EntryLost
      <3>7. QED
        BY <2>3, <3>3, <3>4, <3>5, <3>6 DEF During
    <2>4. ASSUME NEW q \in Process, After(q) PROVE Closes(p)
      <3>1. CASE Finishes(q) \/ FinishFails(q)
        BY <2>1, <3>1 DEF Finishes, FinishFails
      <3>2. CASE Closes(q) \/ CloseFails(q)
        <4>1. q = p
          BY <2>1, <3>2 DEF Closes, CloseFails
        <4>2. ~CloseFails(p)
          BY <2>1 DEF CloseFails, Counted
        <4>3. QED
          BY <3>2, <4>1, <4>2
      <3>3. QED
        BY <2>4, <3>1, <3>2 DEF After
    <2>5. Closes(p)
      BY <2>2, <2>3, <2>4 DEF Next, vars, Vanish
    <2>6. path = rec[p].file /\ rec[p].lost = 0
      BY <2>1, <2>5 DEF Closes, Same
    <2>7. rec[p].sent \subseteq Target
      BY <2>1 DEF Counted
    <2>8. QED
      BY <2>1, <2>6, <2>7 DEF Recorded, AllDone
  <1>2. QED
    BY <1>1, RecordsAreKept, PTL DEF Spec, StoreComplete

-----------------------------------------------------------------------------
(* What is counted                                                         *)

\* A target's records: none behind it, its row, its entry too.
Rowed(p) == {t \in Target : rec[p].at[t] \in {"rowed", "done"}}
Over(p) == {t \in Target : rec[p].at[t] = "done"}

\* A record is counted as lost once at most: a row, an entry, the end of the
\* run's row and the close.
Tallied(p) ==
    /\ rec[p].stage \in {"new", "proved", "created", "connected", "open"} => rec[p].lost = 0
    /\ rec[p].stage \in {"working", "aborting"} =>
          rec[p].lost <= Cardinality(Rowed(p)) + Cardinality(Over(p))
    /\ rec[p].stage = "finished" => rec[p].lost <= 2 * Cardinality(Target) + 1
    /\ rec[p].lost <= MostLost

\* A log whose last line has no end has lost one entry more than it is missing.
Overlooked == Cardinality(Missing) + IF log.torn THEN 1 ELSE 0

TalliedInv == log \in Log /\ \A p \in Process : Tallied(p)
CountedInv == RecordedInv /\ TalliedInv /\ Overlooked <= Cardinality(Losses)

\* What a step of p does to its own counts.
Alone(p) == rec' \in [Process -> Counted] /\ \A q \in Process \ {p} : rec'[q] = rec[q]

LEMMA Sizes ==
    ASSUME NEW p
    PROVE  /\ IsFiniteSet(Rowed(p)) /\ Cardinality(Rowed(p)) \in Nat
           /\ IsFiniteSet(Over(p)) /\ Cardinality(Over(p)) \in Nat
           /\ Cardinality(Target) \in Nat
           /\ Cardinality(Rowed(p)) <= Cardinality(Target)
           /\ Cardinality(Over(p)) <= Cardinality(Target)
  <1>1. IsFiniteSet(Target)
    BY RecordingAssumption
  <1>2. Rowed(p) \in SUBSET Target /\ Over(p) \in SUBSET Target
    BY DEF Rowed, Over
  <1>3. QED
    BY <1>1, <1>2, FS_Subset, FS_CardinalityType

LEMMA SizesThen ==
    ASSUME NEW p
    PROVE  /\ IsFiniteSet(Rowed(p)') /\ Cardinality(Rowed(p)') \in Nat
           /\ IsFiniteSet(Over(p)') /\ Cardinality(Over(p)') \in Nat
           /\ Cardinality(Rowed(p)') <= Cardinality(Target)
           /\ Cardinality(Over(p)') <= Cardinality(Target)
  <1>1. IsFiniteSet(Target)
    BY RecordingAssumption
  <1>2. Rowed(p)' \in SUBSET Target /\ Over(p)' \in SUBSET Target
    BY DEF Rowed, Over
  <1>3. QED
    BY <1>1, <1>2, FS_Subset, FS_CardinalityType

\* A step of p in the fields that count.
LEMMA BeforeCounts ==
    ASSUME RecordedInv, NEW p \in Process, Before(p)
    PROVE  /\ Alone(p)
           /\ rec'[p].lost = rec[p].lost /\ rec'[p].said = rec[p].said /\ log' = log
           /\ rec[p].stage \in {"new", "proved", "created", "connected", "open", "aborting"}
           /\ rec[p].stage = "aborting" => rec'[p].stage = "refused"
           /\ rec'[p].stage \notin {"finished", "killed"}
  <1>1. rec \in [Process -> Counted] /\ rec[p] \in Counted /\ rec' \in [Process -> Counted]
    BY BeforeStep DEF RecordedInv, Typed
  <1> USE DEF Stands, Moves
  <1>2. CASE Preflight(p) \/ Aborts(p) \/ Connects(p) \/ Opens(p) \/ OpenFails(p)
    BY <1>1, <1>2 DEF Preflight, Aborts, Connects, Opens, OpenFails, Alone, Counted
  <1>3. CASE DeadEdit(p)
    <2>1. PICK dead \in SUBSET Target \ {{}} :
             rec' = [rec EXCEPT ![p].stage = "aborting",
                     ![p].at = [t \in Target |-> IF t \in dead THEN "rowed" ELSE "done"]]
      BY <1>3 DEF DeadEdit
    <2>2. QED
      BY <1>1, <1>3, <2>1 DEF DeadEdit, Alone, Counted
  <1>4. CASE Creates(p)
    <2>1. \/ rec' = [rec EXCEPT ![p].stage = "created", ![p].made = TRUE]
          \/ rec' = [rec EXCEPT ![p].stage = "created"]
      BY <1>4 DEF Creates
    <2>2. QED
      BY <1>1, <1>4, <2>1 DEF Creates, Alone, Counted
  <1>5. CASE Begins(p) \/ BeginFails(p)
    BY <1>1, <1>5 DEF Begins, BeginFails, Alone, Counted
  <1>6. QED
    BY <1>2, <1>3, <1>4, <1>5 DEF Before

\* Its row, its entry, both or none: what a step for target t counts.
LEMMA DuringCounts ==
    ASSUME RecordedInv, log \in Log, NEW p \in Process, NEW t \in Target, During(p, t)
    PROVE  /\ Alone(p) /\ rec'[p].stage = rec[p].stage
           /\ rec[p].stage \in {"working", "aborting"}
           /\ \A u \in Target \ {t} : rec'[p].at[u] = rec[p].at[u]
           /\ \/ /\ rec'[p].lost = rec[p].lost
                 /\ t \notin Over(p) /\ (t \in Rowed(p) => t \in Rowed(p)')
                 /\ \/ rec'[p].said = rec[p].said /\ log' = log
                    \/ /\ rec'[p].said = rec[p].said \cup {t} /\ log'.torn = FALSE
                       /\ log'.entries =
                             IF log.torn THEN log.entries ELSE log.entries \cup {<<p, t>>}
              \/ /\ rec'[p].lost = rec[p].lost + 1 /\ rec'[p].said = rec[p].said
                 /\ log'.entries = log.entries /\ (log' = log \/ log'.torn)
                 /\ \/ t \notin Rowed(p) /\ t \notin Over(p) /\ t \in Rowed(p)'
                    \/ t \in Rowed(p) /\ t \in Rowed(p)' /\ t \notin Over(p) /\ t \in Over(p)'
  <1>1. rec \in [Process -> Counted] /\ rec[p] \in Counted /\ rec' \in [Process -> Counted]
    BY DuringStep DEF RecordedInv, Typed
  <1> USE DEF Stands, Rowed, Over
  <1>2. CASE Contacts(p, t) \/ NeverBegins(p, t)
    BY <1>1, <1>2 DEF Contacts, NeverBegins, Alone, Counted
  <1>3. CASE RowKept(p, t)
    <2>1. PICK next \in {"rowed", "done"} : rec' = [rec EXCEPT ![p].at[t] = next]
      BY <1>3 DEF RowKept, AfterRow
    <2>2. QED
      BY <1>1, <1>3, <2>1 DEF RowKept, RowDue, Alone, Counted
  <1>4. CASE RowLost(p, t)
    <2>1. PICK next \in {"rowed", "done"} :
             rec' = [rec EXCEPT ![p].at[t] = next, ![p].lost = @ + 1]
      BY <1>4 DEF RowLost, AfterRow
    <2>2. QED
      BY <1>1, <1>4, <2>1 DEF RowLost, RowDue, Alone, Counted
  <1>5. CASE EntryKept(p, t)
    <2>1. log'.torn = FALSE
          /\ log'.entries = IF log.torn THEN log.entries ELSE log.entries \cup {<<p, t>>}
      BY <1>5 DEF EntryKept
    <2>2. rec' = [rec EXCEPT ![p].at[t] = "done", ![p].said = @ \cup {t}]
      BY <1>5 DEF EntryKept
    <2>3. rec[p].stage \in {"working", "aborting"} /\ rec[p].at[t] = "rowed"
      BY <1>5 DEF EntryKept, EntryDue
    <2>4. QED
      BY <1>1, <2>1, <2>2, <2>3 DEF Alone, Counted
  <1>6. CASE EntryLost(p, t)
    <2>1. log'.entries = log.entries /\ (log' = log \/ log'.torn)
      BY <1>6 DEF EntryLost, Log
    <2>2. rec' = [rec EXCEPT ![p].at[t] = "done", ![p].lost = @ + 1]
      BY <1>6 DEF EntryLost
    <2>3. rec[p].stage \in {"working", "aborting"} /\ rec[p].at[t] = "rowed"
      BY <1>6 DEF EntryLost, EntryDue
    <2>4. QED
      BY <1>1, <2>1, <2>2, <2>3 DEF Alone, Counted
  <1>7. QED
    BY <1>2, <1>3, <1>4, <1>5, <1>6 DEF During

LEMMA AfterCounts ==
    ASSUME RecordedInv, log \in Log, NEW p \in Process, After(p) \/ Kill(p)
    PROVE  /\ Alone(p) /\ rec'[p].at = rec[p].at /\ rec'[p].said = rec[p].said
           /\ log'.entries = log.entries
           /\ rec'[p].lost \in {rec[p].lost, rec[p].lost + 1}
           /\ \/ /\ log' = log /\ rec[p].stage = "working" /\ rec'[p].stage = "finished"
              \/ /\ log' = log /\ rec[p].stage = "finished" /\ rec'[p].stage = "ended"
              \/ /\ log' = log \/ log'.torn
                 /\ rec[p].stage # "killed" /\ rec'[p].stage = "killed"
                 /\ rec'[p].lost = rec[p].lost
  <1>1. rec \in [Process -> Counted] /\ rec[p] \in Counted /\ rec' \in [Process -> Counted]
    BY AfterStep DEF RecordedInv, Typed
  <1> USE DEF Stands, Moves
  <1>2. CASE Finishes(p) \/ FinishFails(p)
    BY <1>1, <1>2 DEF Finishes, FinishFails, Alone, Counted
  <1>3. CASE Closes(p) \/ CloseFails(p)
    BY <1>1, <1>3 DEF Closes, CloseFails, Alone, Counted
  <1>4. CASE Kill(p)
    <2>1. rec' = [rec EXCEPT ![p].stage = "killed"]
          /\ rec[p].stage \notin {"ended", "refused", "killed"}
      BY <1>4 DEF Kill
    <2>2. PICK torn \in {log.torn} \cup {TRUE} : log' = [log EXCEPT !.torn = torn]
      BY <1>4 DEF Kill
    <2>3. log'.entries = log.entries /\ (log' = log \/ log'.torn)
      BY <2>2 DEF Log
    <2>4. QED
      BY <1>1, <2>1, <2>3 DEF Alone, Counted
  <1>5. QED
    BY <1>2, <1>3, <1>4 DEF After

LEMMA TallyOfTarget ==
    ASSUME RecordedInv, log \in Log, NEW p \in Process, Tallied(p),
           NEW t \in Target, During(p, t)
    PROVE  Tallied(p)'
  <1>1. PICK a \in Nat, b \in Nat, n \in Nat, m \in Nat :
           a = Cardinality(Rowed(p)) /\ b = Cardinality(Over(p))
           /\ n = rec[p].lost /\ m = Cardinality(Target)
    BY Sizes DEF RecordedInv, Typed, Counted
  <1>2. PICK a1 \in Nat, b1 \in Nat :
           /\ a1 = Cardinality(Rowed(p)') /\ b1 = Cardinality(Over(p)')
           /\ a1 <= m /\ b1 <= m
    BY <1>1, SizesThen
  <1>3. Rowed(p) \cap {u \in Target : u # t} \subseteq Rowed(p)'
        /\ Over(p) \cap {u \in Target : u # t} \subseteq Over(p)'
    <2>1. \A u \in Target \ {t} : rec'[p].at[u] = rec[p].at[u]
      BY DuringCounts
    <2>2. QED
      BY <2>1 DEF Rowed, Over
  <1>4. ASSUME Rowed(p) \subseteq Rowed(p)' PROVE a <= a1
    BY <1>1, <1>2, <1>4, SizesThen, FS_Subset
  <1>5. ASSUME Over(p) \subseteq Over(p)' PROVE b <= b1
    BY <1>1, <1>2, <1>5, SizesThen, FS_Subset
  <1>6. ASSUME Rowed(p) \subseteq Rowed(p)', t \notin Rowed(p), t \in Rowed(p)' PROVE a + 1 <= a1
    <2>1. Rowed(p) \cup {t} \subseteq Rowed(p)'
      BY <1>6
    <2>2. Cardinality(Rowed(p) \cup {t}) = a + 1
      BY <1>1, <1>6, Sizes, FS_AddElement
    <2>3. QED
      BY <1>2, <2>1, <2>2, SizesThen, FS_Subset
  <1>7. ASSUME Over(p) \subseteq Over(p)', t \notin Over(p), t \in Over(p)' PROVE b + 1 <= b1
    <2>1. Over(p) \cup {t} \subseteq Over(p)'
      BY <1>7
    <2>2. Cardinality(Over(p) \cup {t}) = b + 1
      BY <1>1, <1>7, Sizes, FS_AddElement
    <2>3. QED
      BY <1>2, <2>1, <2>2, SizesThen, FS_Subset
  <1>8. n <= a + b
    BY <1>1, DuringCounts DEF Tallied
  <1>9. rec'[p].stage \in {"working", "aborting"}
    BY DuringCounts
  <1>10. rec'[p].lost <= a1 + b1
    <2>1. t \in Rowed(p) => t \in Rowed(p)'
      BY DuringCounts
    <2>2. t \notin Over(p)
      BY DuringCounts
    <2>3. Rowed(p) \subseteq Rowed(p)'
      BY <1>3, <2>1 DEF Rowed
    <2>4. Over(p) \subseteq Over(p)'
      BY <1>3, <2>2 DEF Over
    <2>5. a <= a1 /\ b <= b1
      BY <1>4, <1>5, <2>3, <2>4
    <2>6. CASE rec'[p].lost = rec[p].lost
      BY <1>1, <1>2, <1>8, <2>5, <2>6
    <2>7. CASE rec'[p].lost = rec[p].lost + 1 /\ t \notin Rowed(p) /\ t \in Rowed(p)'
      <3>1. a + 1 <= a1
        BY <1>6, <2>3, <2>7
      <3>2. QED
        BY <1>1, <1>2, <1>8, <2>5, <2>7, <3>1
    <2>8. CASE rec'[p].lost = rec[p].lost + 1 /\ t \notin Over(p) /\ t \in Over(p)'
      <3>1. b + 1 <= b1
        BY <1>7, <2>4, <2>8
      <3>2. QED
        BY <1>1, <1>2, <1>8, <2>5, <2>8, <3>1
    <2>9. QED
      BY <2>6, <2>7, <2>8, DuringCounts
  <1>11. rec'[p].lost \in Nat
    BY DuringStep DEF RecordedInv, Typed, Counted
  <1>12. rec'[p].lost <= 2 * m + 2
    BY <1>1, <1>2, <1>10, <1>11
  <1>13. QED
    BY <1>1, <1>2, <1>9, <1>10, <1>12 DEF Tallied, MostLost

LEMMA TallyStep ==
    ASSUME RecordedInv, log \in Log, NEW p \in Process, Tallied(p),
           Before(p) \/ After(p) \/ Kill(p)
    PROVE  Tallied(p)'
  <1>1. PICK a \in Nat, b \in Nat, n \in Nat, m \in Nat :
           /\ a = Cardinality(Rowed(p)) /\ b = Cardinality(Over(p))
           /\ n = rec[p].lost /\ m = Cardinality(Target) /\ a <= m /\ b <= m
    BY Sizes DEF RecordedInv, Typed, Counted
  <1>2. PICK a1 \in Nat, b1 \in Nat : a1 = Cardinality(Rowed(p)') /\ b1 = Cardinality(Over(p)')
    BY SizesThen
  <1>3. CASE Before(p)
    <2>1. rec[p].lost = 0 \/ rec'[p].stage = "refused"
      BY <1>3, BeforeCounts DEF Tallied
    <2>2. rec'[p].lost = rec[p].lost /\ rec'[p].stage \notin {"finished", "killed"}
      BY <1>3, BeforeCounts
    <2>3. n <= 2 * m + 2
      BY <1>1 DEF Tallied, MostLost
    <2>4. QED
      BY <1>1, <1>2, <2>1, <2>2, <2>3 DEF Tallied, MostLost
  <1>4. CASE After(p) \/ Kill(p)
    <2>1. rec'[p].lost \in {n, n + 1}
      BY <1>1, <1>4, AfterCounts
    <2>2. n <= 2 * m + 2
      BY <1>1 DEF Tallied, MostLost
    <2>3. CASE rec[p].stage = "working" /\ rec'[p].stage = "finished"
      BY <1>1, <2>1, <2>3 DEF Tallied, MostLost
    <2>4. CASE rec[p].stage = "finished" /\ rec'[p].stage = "ended"
      BY <1>1, <2>1, <2>4 DEF Tallied, MostLost
    <2>5. CASE rec'[p].stage = "killed" /\ rec'[p].lost = rec[p].lost
      BY <1>1, <2>2, <2>5 DEF Tallied, MostLost
    <2>6. QED
      BY <1>4, <2>3, <2>4, <2>5, AfterCounts
  <1>5. QED
    BY <1>3, <1>4

LEMMA TallyOfOthers ==
    ASSUME NEW p, NEW q, Tallied(q), rec'[q] = rec[q]
    PROVE  Tallied(q)'
  BY DEF Tallied, Rowed, Over

LEMMA TalliedStep ==
    ASSUME RecordedInv, TalliedInv, [Next]_vars
    PROVE  TalliedInv'
  <1>1. log' \in Log
    <2>1. CASE \E p \in Process, t \in Target : EntryKept(p, t) \/ EntryLost(p, t)
      <3>1. PICK p \in Process, t \in Target : EntryKept(p, t) \/ EntryLost(p, t)
        BY <2>1
      <3>2. log.entries \cup {<<p, t>>} \in SUBSET (Process \X Target)
            /\ log.entries \in SUBSET (Process \X Target) /\ log.torn \in BOOLEAN
        BY DEF TalliedInv, Log
      <3>3. CASE EntryKept(p, t)
        BY <3>2, <3>3 DEF EntryKept, Log
      <3>4. CASE EntryLost(p, t)
        BY <3>2, <3>4 DEF EntryLost, Log, TalliedInv
      <3>5. QED
        BY <3>1, <3>3, <3>4
    <2>2. CASE \E p \in Process : Kill(p)
      BY <2>2 DEF TalliedInv, Log, Kill
    <2>3. CASE \E p \in Process : Before(p)
      BY <2>3, BeforeCounts DEF TalliedInv
    <2>4. CASE \E p \in Process : After(p)
      BY <2>4 DEF TalliedInv, After, Finishes, FinishFails, Closes, CloseFails
    <2>5. CASE \E p \in Process, t \in Target :
                  Contacts(p, t) \/ NeverBegins(p, t) \/ RowKept(p, t) \/ RowLost(p, t)
      BY <2>5 DEF TalliedInv, Contacts, NeverBegins, RowKept, RowLost
    <2>6. QED
      BY <2>1, <2>2, <2>3, <2>4, <2>5 DEF Next, During, Vanish, vars, TalliedInv
  <1>2. ASSUME NEW p \in Process PROVE Tallied(p)'
    <2>1. Tallied(p) /\ log \in Log
      BY DEF TalliedInv
    <2>2. CASE UNCHANGED vars \/ Vanish
      BY <2>1, <2>2, TallyOfOthers DEF vars, Vanish
    <2>3. CASE \E q \in Process : Before(q) \/ After(q) \/ Kill(q)
      <3>1. PICK q \in Process : Before(q) \/ After(q) \/ Kill(q)
        BY <2>3
      <3>2. CASE q = p
        BY <2>1, <3>1, <3>2, TallyStep
      <3>3. CASE q # p
        <4>1. rec'[p] = rec[p]
          BY <2>1, <3>1, <3>3, BeforeCounts, AfterCounts DEF Alone
        <4>2. QED
          BY <2>1, <4>1, TallyOfOthers
      <3>4. QED
        BY <3>2, <3>3
    <2>4. CASE \E q \in Process, t \in Target : During(q, t)
      <3>1. PICK q \in Process, t \in Target : During(q, t)
        BY <2>4
      <3>2. CASE q = p
        BY <2>1, <3>1, <3>2, TallyOfTarget
      <3>3. CASE q # p
        <4>1. rec'[p] = rec[p]
          BY <2>1, <3>1, <3>3, DuringCounts DEF Alone
        <4>2. QED
          BY <2>1, <4>1, TallyOfOthers
      <3>4. QED
        BY <3>2, <3>3
    <2>5. QED
      BY <2>2, <2>3, <2>4 DEF Next
  <1>3. QED
    BY <1>1, <1>2 DEF TalliedInv

\* Losses and missing entries are finite sets.
LEMMA LossSizes ==
    /\ IsFiniteSet(Losses) /\ Cardinality(Losses) \in Nat
    /\ IsFiniteSet(Losses') /\ Cardinality(Losses') \in Nat
    /\ IsFiniteSet(Missing) /\ Cardinality(Missing) \in Nat
    /\ IsFiniteSet(Missing') /\ Cardinality(Missing') \in Nat
  <1>1. IsFiniteSet(Process) /\ IsFiniteSet(Target)
    BY RecordingAssumption
  <1>2. IsFiniteSet(0 .. MostLost)
    <2>1. PICK a \in Int, b \in Int : a = 0 /\ b = MostLost
      BY Sizes DEF MostLost
    <2>2. QED
      BY <2>1, FS_Interval
  <1>3. IsFiniteSet(Process \X Target) /\ IsFiniteSet(Process \X (0 .. MostLost))
    BY <1>1, <1>2, FS_Product
  <1>4. /\ Missing \in SUBSET (Process \X Target) /\ Missing' \in SUBSET (Process \X Target)
        /\ Losses \in SUBSET (Process \X (0 .. MostLost))
        /\ Losses' \in SUBSET (Process \X (0 .. MostLost))
    BY DEF Missing, Losses
  <1>5. QED
    BY <1>3, <1>4, FS_Subset, FS_CardinalityType

\* No step takes back a loss, and one that counts one more adds a loss.
LEMMA LossesGrow ==
    ASSUME Typed, NEW p \in Process, Alone(p), Counts(p) <= Counts(p)',
           Counts(p) < Counts(p)' => Counts(p) <= MostLost
    PROVE  /\ Cardinality(Losses) <= Cardinality(Losses')
           /\ Counts(p) < Counts(p)' => Cardinality(Losses) + 1 <= Cardinality(Losses')
  <1>1. PICK n \in Nat, n1 \in Nat : n = Counts(p) /\ n1 = Counts(p)'
    <2>1. rec[p].lost \in Nat /\ rec'[p].lost \in Nat
      BY DEF Typed, Alone, Counted
    <2>2. QED
      BY <2>1 DEF Counts
  <1>2. \A q \in Process \ {p} : Counts(q)' = Counts(q)
    BY DEF Alone, Counts, Stands
  <1>3. Losses \subseteq Losses'
    <2>1. ASSUME NEW l \in Losses PROVE l \in Losses'
      <3>1. l \in Process \X (0 .. MostLost) /\ l[2] < Counts(l[1])
        BY DEF Losses
      <3>2. PICK q \in Process, i \in 0 .. MostLost : l = <<q, i>>
        BY <3>1
      <3>3. i < Counts(q)
        BY <3>1, <3>2
      <3>4. i \in Nat
        BY <3>2
      <3>5. i < Counts(q)'
        <4>1. CASE q = p
          BY <1>1, <3>3, <3>4, <4>1
        <4>2. CASE q # p
          BY <1>2, <3>3, <4>2
        <4>3. QED
          BY <4>1, <4>2
      <3>6. QED
        BY <3>1, <3>2, <3>5 DEF Losses
    <2>2. QED
      BY <2>1
  <1>4. ASSUME n < n1 PROVE Cardinality(Losses) + 1 <= Cardinality(Losses')
    <2>1. MostLost \in Nat
      BY Sizes DEF MostLost
    <2>2. <<p, n>> \in Process \X (0 .. MostLost)
      BY <1>1, <1>4, <2>1
    <2>3. <<p, n>> \in Losses' /\ <<p, n>> \notin Losses
      BY <1>1, <1>4, <2>2 DEF Losses
    <2>4. Losses \cup {<<p, n>>} \subseteq Losses'
      BY <1>3, <2>3
    <2>5. Cardinality(Losses \cup {<<p, n>>}) = Cardinality(Losses) + 1
      BY <2>3, LossSizes, FS_AddElement
    <2>6. QED
      BY <2>4, <2>5, LossSizes, FS_Subset
  <1>5. QED
    BY <1>1, <1>3, <1>4, LossSizes, FS_Subset

\* Missing entries where nothing is said and the log loses nothing.
LEMMA MissingKept ==
    ASSUME \A q \in Process : rec'[q].said = rec[q].said, log'.entries = log.entries
    PROVE  Missing' = Missing
  BY DEF Missing

LEMMA MissingNext ==
    ASSUME Typed, log \in Log, NEW p \in Process, NEW t \in Target, Alone(p),
           rec'[p].said = rec[p].said \cup {t}, log'.torn = FALSE,
           log'.entries = IF log.torn THEN log.entries ELSE log.entries \cup {<<p, t>>}
    PROVE  Overlooked' <= Overlooked
  <1>1. ASSUME NEW e \in Missing' PROVE e \in Missing \cup {<<p, t>>}
    <2>1. e \in Process \X Target /\ e[2] \in rec'[e[1]].said /\ e \notin log'.entries
      BY DEF Missing
    <2>2. PICK q \in Process, u \in Target : e = <<q, u>>
      BY <2>1
    <2>3. u \in rec'[q].said /\ e \notin log.entries
      BY <2>1, <2>2
    <2>4. CASE q = p /\ u = t
      BY <2>2, <2>4
    <2>5. CASE q # p \/ u # t
      <3>1. u \in rec[q].said
        BY <2>3, <2>5 DEF Alone
      <3>2. QED
        BY <2>1, <2>2, <2>3, <3>1 DEF Missing
    <2>6. QED
      BY <2>4, <2>5
  <1>2. log.torn \in BOOLEAN
    BY DEF Log
  <1>3. CASE log.torn
    <2>1. Cardinality(Missing \cup {<<p, t>>}) <= Cardinality(Missing) + 1
          /\ IsFiniteSet(Missing \cup {<<p, t>>})
      <3>1. PICK S : S = Missing
        OBVIOUS
      <3>2. IsFiniteSet(S) /\ Cardinality(S) \in Nat
        BY <3>1, LossSizes
      <3>3. PICK x : x = <<p, t>>
        OBVIOUS
      <3>4. IsFiniteSet(S \cup {x})
            /\ Cardinality(S \cup {x}) = IF x \in S THEN Cardinality(S) ELSE Cardinality(S) + 1
        BY <3>2, FS_AddElement
      <3>5. QED
        BY <3>1, <3>2, <3>3, <3>4
    <2>2. Missing' \in SUBSET (Missing \cup {<<p, t>>})
      BY <1>1
    <2>3. Cardinality(Missing') <= Cardinality(Missing \cup {<<p, t>>})
          /\ Cardinality(Missing \cup {<<p, t>>}) \in Nat
      BY <2>1, <2>2, FS_Subset, FS_CardinalityType
    <2>4. QED
      BY <1>3, <2>1, <2>3, LossSizes DEF Overlooked
  <1>4. CASE ~log.torn
    <2>1. <<p, t>> \notin Missing'
      BY <1>4 DEF Missing
    <2>2. Missing' \in SUBSET Missing
      BY <1>1, <2>1
    <2>3. Cardinality(Missing') <= Cardinality(Missing)
      BY <2>2, LossSizes, FS_Subset
    <2>4. QED
      BY <1>4, <2>3, LossSizes DEF Overlooked
  <1>5. QED
    BY <1>2, <1>3, <1>4

LEMMA OverlookedStep ==
    ASSUME RecordedInv, TalliedInv, Overlooked <= Cardinality(Losses), [Next]_vars
    PROVE  Overlooked' <= Cardinality(Losses')
  <1>1. Typed /\ log \in Log /\ log.torn \in BOOLEAN
    BY DEF RecordedInv, TalliedInv, Log
  <1>2. TalliedInv' /\ RecordedInv'
    BY TalliedStep, RecordedStep
  <1>3. log'.torn \in BOOLEAN
    BY <1>2 DEF TalliedInv, Log
  <1> DEFINE torn == IF log.torn THEN 1 ELSE 0
             torn1 == IF log'.torn THEN 1 ELSE 0
  <1>4. PICK a \in Nat, a1 \in Nat, b \in Nat, b1 \in Nat :
           /\ a = Cardinality(Missing) /\ a1 = Cardinality(Missing')
           /\ b = Cardinality(Losses) /\ b1 = Cardinality(Losses')
    BY LossSizes
  <1>5. Overlooked = a + torn /\ Overlooked' = a1 + torn1
    BY <1>4 DEF Overlooked
  <1>6. CASE UNCHANGED vars \/ Vanish
    <2>1. Missing' = Missing /\ Losses' = Losses /\ log' = log
      BY <1>6 DEF vars, Vanish, Missing, Losses, Counts, Stands
    <2>2. QED
      BY <1>4, <2>1 DEF Overlooked
  <1>7. ASSUME NEW p \in Process, Alone(p), rec'[p].said = rec[p].said,
               log'.entries = log.entries
        PROVE  a1 = a
    <2>1. \A q \in Process : rec'[q].said = rec[q].said
      BY <1>7 DEF Alone
    <2>2. QED
      BY <1>4, <1>7, <2>1, MissingKept
  <1>8. ASSUME NEW p \in Process, Alone(p),
               rec'[p].lost \in {rec[p].lost, rec[p].lost + 1},
               rec[p].stage = "killed" => rec'[p].stage = "killed"
        PROVE  /\ b <= b1
               /\ rec'[p].lost = rec[p].lost + 1 => b + 1 <= b1
               /\ rec[p].stage # "killed" /\ rec'[p].stage = "killed" => b + 1 <= b1
    <2>1. rec[p].lost \in Nat /\ rec'[p].lost \in Nat /\ MostLost \in Nat
      <3>1. MostLost \in Nat
        BY Sizes DEF MostLost
      <3>2. rec[p] \in Counted /\ rec'[p] \in Counted
        BY <1>1, <1>8 DEF Typed, Alone
      <3>3. QED
        BY <3>1, <3>2 DEF Counted
    <2>2. rec[p].lost <= MostLost /\ rec'[p].lost <= MostLost
      BY <1>2 DEF TalliedInv, Tallied
    <2>3. Counts(p) = rec[p].lost + (IF rec[p].stage = "killed" THEN 1 ELSE 0)
          /\ Counts(p)' = rec'[p].lost + (IF rec'[p].stage = "killed" THEN 1 ELSE 0)
      BY DEF Counts, Stands
    <2>4. Counts(p) <= Counts(p)'
          /\ (rec'[p].lost = rec[p].lost + 1 => Counts(p) < Counts(p)')
          /\ (rec[p].stage # "killed" /\ rec'[p].stage = "killed" => Counts(p) < Counts(p)')
      BY <1>8, <2>1, <2>3
    <2>5. Counts(p) < Counts(p)' => Counts(p) <= MostLost
      BY <1>8, <2>1, <2>2, <2>3
    <2>6. QED
      BY <1>1, <1>4, <1>8, <2>4, <2>5, LossesGrow
  <1>9. CASE \E p \in Process : Before(p)
    <2>1. PICK p \in Process : Before(p)
      BY <1>9
    <2>2. /\ Alone(p) /\ rec'[p].lost = rec[p].lost /\ rec'[p].said = rec[p].said
          /\ log' = log /\ rec[p].stage # "killed"
      BY <2>1, BeforeCounts
    <2>3. a1 = a /\ b <= b1
      BY <1>7, <1>8, <2>2
    <2>4. QED
      BY <1>1, <1>4, <1>5, <2>2, <2>3
  <1>10. CASE \E p \in Process : After(p) \/ Kill(p)
    <2>1. PICK p \in Process : After(p) \/ Kill(p)
      BY <1>10
    <2>2. /\ Alone(p) /\ rec'[p].lost \in {rec[p].lost, rec[p].lost + 1}
          /\ rec'[p].said = rec[p].said /\ log'.entries = log.entries /\ rec[p].stage # "killed"
      BY <1>1, <2>1, AfterCounts
    <2>3. a1 = a /\ b <= b1
      BY <1>7, <1>8, <2>2
    <2>4. log' = log \/ b + 1 <= b1
      BY <1>1, <1>8, <2>1, <2>2, AfterCounts
    <2>5. QED
      BY <1>1, <1>3, <1>4, <1>5, <2>3, <2>4
  <1>11. CASE \E p \in Process, t \in Target : During(p, t)
    <2>1. PICK p \in Process, t \in Target : During(p, t)
      BY <1>11
    <2>2. /\ Alone(p) /\ rec'[p].lost \in {rec[p].lost, rec[p].lost + 1}
          /\ rec[p].stage # "killed"
      BY <1>1, <2>1, DuringCounts
    <2>3. b <= b1 /\ (rec'[p].lost = rec[p].lost + 1 => b + 1 <= b1)
      BY <1>8, <2>2
    <2>4. CASE rec'[p].said = rec[p].said /\ log' = log
      <3>1. a1 = a
        BY <1>7, <2>2, <2>4
      <3>2. QED
        BY <1>1, <1>4, <1>5, <2>3, <2>4, <3>1
    <2>5. CASE /\ rec'[p].said = rec[p].said \cup {t} /\ log'.torn = FALSE
               /\ log'.entries = IF log.torn THEN log.entries ELSE log.entries \cup {<<p, t>>}
      <3>1. a1 + torn1 <= a + torn
        BY <1>1, <1>5, <2>2, <2>5, MissingNext
      <3>2. QED
        BY <1>1, <1>3, <1>4, <1>5, <2>3, <3>1
    <2>6. CASE /\ rec'[p].lost = rec[p].lost + 1 /\ rec'[p].said = rec[p].said
               /\ log'.entries = log.entries
      <3>1. a1 = a /\ b + 1 <= b1
        BY <1>7, <2>2, <2>3, <2>6
      <3>2. QED
        BY <1>1, <1>3, <1>4, <1>5, <3>1
    <2>7. QED
      BY <1>1, <2>1, <2>4, <2>5, <2>6, DuringCounts
  <1>12. QED
    BY <1>6, <1>9, <1>10, <1>11 DEF Next

LEMMA CountedInit == Init => CountedInv
  <1> SUFFICES ASSUME Init PROVE CountedInv
    OBVIOUS
  <1>1. Missing = {}
    BY DEF Init, Missing
  <1>2. Overlooked = 0
    BY <1>1, FS_EmptySet DEF Overlooked, Init
  <1>3. \A p \in Process : Tallied(p)
    BY Sizes DEF Init, Tallied, MostLost
  <1>4. QED
    BY <1>2, <1>3, RecordedInit, LossSizes DEF CountedInv, TalliedInv, Init, Log

LEMMA CountedAlways == Spec => []CountedInv
  <1>1. CountedInv /\ [Next]_vars => CountedInv'
    BY RecordedStep, TalliedStep, OverlookedStep DEF CountedInv
  <1>2. QED
    BY <1>1, CountedInit, PTL DEF Spec

\* Every entry that a report counts as kept and no reader finds stands against a
\* loss of its own: one that some run has counted, or a process that died.
THEOREM EntriesAreAccounted == Spec => []EntriesAccounted
  <1>1. CountedInv => EntriesAccounted
    BY LossSizes DEF CountedInv, EntriesAccounted, Overlooked
  <1>2. QED
    BY <1>1, CountedAlways, PTL

\* The types of the records, the count of lost ones included: it has a bound,
\* which no sequence of failures of a run exceeds.
THEOREM RecordsTyped == Spec => []TypeOK
  <1>1. CountedInv => TypeOK
    <2> SUFFICES ASSUME CountedInv PROVE TypeOK
      OBVIOUS
    <2>1. ASSUME NEW p \in Process PROVE rec[p] \in Run
      <3>1. rec[p] \in Counted /\ rec[p].lost <= MostLost
        BY DEF CountedInv, RecordedInv, Typed, TalliedInv, Tallied
      <3>2. MostLost \in Nat
        BY Sizes DEF MostLost
      <3>3. rec[p].lost \in 0 .. MostLost
        BY <3>1, <3>2 DEF Counted
      <3>4. QED
        BY <3>1, <3>3 DEF Counted, Run
    <2>2. rec \in [Process -> Run]
      BY <2>1 DEF CountedInv, RecordedInv, Typed
    <2>3. QED
      BY <2>2 DEF TypeOK, CountedInv, RecordedInv, Typed, TalliedInv
  <1>2. QED
    BY <1>1, CountedAlways, PTL
=============================================================================
