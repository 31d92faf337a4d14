--------------------------- MODULE SchedulerProofs ---------------------------
(***************************************************************************)
(* Proofs about Scheduler, for every run, number of targets, devices and   *)
(* workers, and whatever faults the communicators return.  A step of a     *)
(* target is first shown to leave that target in its place (TaskStep);     *)
(* what a run as a whole keeps follows from that.                          *)
(***************************************************************************)
EXTENDS Scheduler, SequenceTheorems, FiniteSetTheorems, TLAPS

-----------------------------------------------------------------------------
(* The policy against its table, for every fault and number of retries     *)

\* The code decides as the table of section 4.4 says: it retries exactly the
\* faults whose row says so, while retries are left, and cools down exactly
\* the faults whose row says so.  A run reads or edits, never both.
THEOREM DecideFollowsTable ==
    ASSUME NEW fault \in Fault, NEW read \in BOOLEAN, NEW editing \in BOOLEAN,
           NEW opening \in BOOLEAN, NEW attempt \in Nat, ~(read /\ editing)
    PROVE  LET v == Decide(fault, read, editing, opening, attempt) IN
           /\ v \in Verdict
           /\ v.action = "RETRY" <=> Retried(fault, read, opening) /\ attempt <= Retries
           /\ v.cool <=> CooledDown(fault, editing, opening)
  <1>1. fault.kind \in FaultKind /\ fault.reached \in BOOLEAN
    BY DEF Fault
  <1>2. fault = [kind |-> fault.kind, reached |-> fault.reached]
    BY DEF Fault
  <1>3. CASE opening /\ fault.kind \in Lost
    BY <1>1, <1>2, <1>3 DEF Decide, Retry, Fail, FailCooled, Verdict, Retried, CooledDown, Lost, AFault
  <1>4. CASE fault.kind \in {"UNREACHABLE", "AUTH", "HOST_KEY", "UNSUPPORTED", "LOCAL"}
    BY <1>1, <1>2, <1>4 DEF Decide, Retry, Fail, FailCooled, Verdict, Retried, CooledDown, Lost, AFault
  <1>5. CASE fault.kind = "OUTCOME_UNKNOWN"
    BY <1>1, <1>2, <1>5 DEF Decide, Retry, Fail, FailCooled, Verdict, Retried, CooledDown, Lost, AFault
  <1>6. CASE ~opening /\ fault.kind \in Lost
    BY <1>1, <1>2, <1>6
       DEF Decide, Retry, Fail, FailCooled, Verdict, Retried, CooledDown, Lost, AFault
  <1>7. CASE fault.kind \in {"REFUSED", "COMMIT_FAILED"}
    BY <1>1, <1>2, <1>7 DEF Decide, Retry, Fail, FailCooled, Verdict, Retried, CooledDown, Lost, AFault
  <1>8. QED
    BY <1>1, <1>3, <1>4, <1>5, <1>6, <1>7 DEF FaultKind, Lost

\* Nothing that reached the device is repeated unless it reads: the only other
\* retry is of a connection the device dropped before login.
THEOREM RetriesAreSafe ==
    ASSUME NEW fault \in Fault, NEW read \in BOOLEAN, NEW editing \in BOOLEAN,
           NEW opening \in BOOLEAN, NEW attempt \in Nat, ~(read /\ editing),
           Decide(fault, read, editing, opening, attempt).action = "RETRY"
    PROVE  ~fault.reached \/ read \/ (opening /\ fault.kind = "SESSION_LOST")
  BY DecideFollowsTable DEF Retried, AFault, Fault, Lost

-----------------------------------------------------------------------------
(* Helpers                                                                  *)

LEMMA UpTo ==
    ASSUME NEW n \in Nat
    PROVE  IsFiniteSet(1 .. n) /\ Cardinality(1 .. n) = n
  <1>1. PICK a \in Int, b \in Int : a = 1 /\ b = n
    OBVIOUS
  <1>2. IsFiniteSet(a .. b) /\ Cardinality(a .. b) = IF a > b THEN 0 ELSE b - a + 1
    BY FS_Interval
  <1>3. QED
    BY <1>1, <1>2

USE SchedulerAssumption, RetriesAssumption

\* A step, an operation, a task and a record, each in the widest type it may have.
Word == Line \cup OwnSteps \cup Modes
AnOp == [step : Word, fault : Fault \cup {NoFault}]
AJob == [pc : {"queued", "done"} \cup InFlight, attempt : 1 .. (Retries + 1), next : Nat \ {0},
         ops : Seq(AnOp), freshAt : Nat, kept : BOOLEAN, cancelled : BOOLEAN, pastCommit : BOOLEAN]
ARecord == [status : {"none", "ok", "failed", "skipped"}, ops : Seq(AnOp), audited : SUBSET Word]
AGate == [active : SUBSET Device, cooled : SUBSET Device, logins : [Device -> 0 .. RateLimit],
          broken : BOOLEAN]
ARun == [spec : Specs, pc : {"asked", "probing", "going", "ended", "refused"}, stopping : BOOLEAN,
         held : SUBSET Target, dead : SUBSET Target]

Typed ==
    /\ run \in ARun
    /\ job \in [Target -> AJob]
    /\ gate \in AGate
    /\ result \in [Target -> ARecord]
    /\ sent \in [Target -> Nat]
    /\ due \in SUBSET Device

-----------------------------------------------------------------------------
(* Sequences of operations                                                 *)

Clean(ops, n) == \A i \in 1 .. n : ~Failed(ops[i])

\* The first n operations of the mode, failed or not.
InOrder(ops, n) == Len(ops) = n /\ \A i \in 1 .. n : ops[i].step = Steps[i]

\* All operations of the mode, or those up to an empty diff, and none failed.
Complete(ops) ==
    \E n \in 1 .. Len(Steps) :
        /\ Len(ops) = n
        /\ \A i \in 1 .. n : ops[i] = Op(Steps[i], NoFault)
        /\ n = Len(Steps) \/ Steps[n] = "diff"

\* No more than n of them, each of the run's.
Known(ops, n) == Len(ops) <= n /\ \A i \in DOMAIN ops : ops[i].step \in StepNames

\* What an attempt may end with.
Whole(ops) ==
    /\ Known(ops, Len(Steps) + 1)
    /\ Len(ops) > 0
    /\ Faulty(ops) = {} => Complete(ops)

\* The operations of an edit that sent its commit.
Committed(ops) ==
    /\ Len(ops) > 0
    /\ ops[Len(ops)].step = "commit"
    /\ \A i \in DOMAIN ops : ops[i].step # "open"
    /\ Clean(ops, Len(ops) - 1)

Cools(ops, attempt) == Faulty(ops) # {} /\ VerdictOn(ops, attempt).cool

-----------------------------------------------------------------------------
(* The invariant of one target: its task j, its record r, the commits n    *)

\* What the task has behind it.
Course(j) ==
    /\ j.next <= Len(Steps) /\ j.freshAt <= Len(Steps)
    /\ j.pc \in {"queued", "done", "opening"} => j.ops = <<>>
    /\ j.pc = "pausing" => Known(j.ops, Len(Steps) + 1) /\ j.attempt <= Retries
    /\ j.pc = "operating" => InOrder(j.ops, j.next - 1) /\ (Mode # "batch" => Clean(j.ops, j.next - 1))
    /\ j.pc = "fresh" => Mode = "batch" /\ j.next < Len(Steps) /\ InOrder(j.ops, j.next)
    /\ j.pc = "releasing" => Pool /\ (j.ops = Broken \/ Whole(j.ops))

\* Whom the interrupt has reached.
Reached(j) ==
    /\ j.cancelled => run.stopping /\ j.pc \in InFlight
    /\ run.pc = "going" /\ run.stopping => j.pc = "done" \/ j.cancelled \/ j.pastCommit
    /\ j.pastCommit =>
          /\ ~j.cancelled /\ Mode = "edit" /\ j.pc \in {"operating", "releasing"}
          /\ j.pc = "operating" => Steps[j.next] = "commit"

\* A target is told when its task is over, and no task begins before the run.
Telling(t, j, r) ==
    /\ t \in Listed => (r.status = "none" <=> j.pc # "done")
    /\ t \notin Listed => j.pc = "done" /\ r.status = "none"
    /\ t \in Listed /\ run.pc \in {"asked", "probing", "refused"} => j.pc = "queued"
    /\ run.pc = "ended" => j.pc = "done"

\* OkIsComplete of one record.
OkOps(ops) ==
    LET ran == {i \in DOMAIN ops : ops[i] # LateClose} IN
    \E n \in 1 .. Len(Steps) :
        /\ ran = 1 .. n /\ Len(ops) <= n + 1
        /\ \A i \in ran : ops[i] = Op(Steps[i], NoFault)
        /\ n = Len(Steps) \/ Steps[n] = "diff"

\* What is recorded; a late close comes on top of it at the end.
Kept(r) ==
    /\ Known(r.ops, IF run.pc = "ended" THEN Len(Steps) + 2 ELSE Len(Steps) + 1)
    /\ r.audited \subseteq Audited
    /\ r.status = "ok" => IF run.pc = "ended" THEN OkOps(r.ops) ELSE Complete(r.ops)

Told(r) ==
    /\ r.status \notin {"none", "skipped"} /\ Len(r.ops) > 0
    /\ \/ r.ops[1] = Broken[1]
       \/ "commit" \in r.audited /\ \E i \in DOMAIN r.ops : r.ops[i].step = "commit"

\* Where the one commit of an edit is.
Sending(j, r, n) ==
    Mode # "confirm" /\ n # 0 =>
        /\ n = 1 /\ Mode = "edit"
        /\ \/ j.pc = "operating" /\ j.pastCommit
           \/ j.pc = "releasing" /\ j.pastCommit /\ (j.ops = Broken \/ Committed(j.ops))
           \/ j.pc = "done" /\ Told(r)

Place(t, j, r, n) ==
    Course(j) /\ Reached(j) /\ Telling(t, j, r) /\ Kept(r) /\ Sending(j, r, n)

-----------------------------------------------------------------------------
(* The invariant of the run                                                *)

Worked(d) == \E t \in Target : DeviceOf[t] = d /\ job[t].pc \in Admitted

\* What an interrupted cleanup may leave behind.
Cut == Pool /\ run.stopping

Held ==
    /\ \A t, u \in Target : job[t].pc \in Admitted /\ job[u].pc \in Admitted
                            /\ DeviceOf[t] = DeviceOf[u] => t = u
    /\ \A t \in Target : job[t].pc \in Admitted => DeviceOf[t] \in gate.active
    /\ \A d \in gate.active : Worked(d) \/ gate.broken \/ Cut

\* A device that is due is cooled down, or will be when its session is released.
Owed ==
    Cut \/ \A d \in due :
        \/ d \in gate.cooled \/ gate.broken
        \/ \E t \in Target : /\ DeviceOf[t] = d /\ job[t].pc = "releasing"
                             /\ Cools(job[t].ops, job[t].attempt)

Asked ==
    /\ run.pc = "asked" => ~run.stopping
    /\ run.held \cup run.dead \subseteq Listed

SInv ==
    /\ Typed /\ Asked /\ Held /\ Owed
    /\ \A t \in Target : Place(t, job[t], result[t], sent[t])

-----------------------------------------------------------------------------
(* The operations of a mode                                                *)

LEMMA SpecTyped == ASSUME Typed PROVE run.spec \in RunSpec /\ Mode \in Modes
                                      /\ (Mode \in {"edit", "batch"} => run.spec.payload # <<>>)
  BY DEF Typed, ARun, RunSpec, Mode

LEMMA EditSteps ==
    ASSUME Typed, Mode = "edit"
    PROVE  /\ Steps \in Seq(Word) /\ Len(Steps) > 0
           /\ \A i \in 1 .. Len(Steps) :
                 /\ Steps[i] \in Audited /\ Steps[i] \notin {"open", "confirm", "commit_history"}
                 /\ Steps[i] = "commit" => i = Len(Steps)
  <1> DEFINE p == run.spec.payload
             tail == IF run.spec.apply THEN <<"commit">> ELSE <<>>
  <1>1. p \in Seq(Line) /\ p \in Seq(Word) /\ Len(p) \in Nat /\ Len(p) > 0
    BY SpecTyped DEF RunSpec, Word
  <1>2. tail \in Seq(Word) /\ Len(tail) \in {0, 1} /\ \A i \in 1 .. Len(tail) : tail[i] = "commit"
    <2>1. "commit" \in Word
      BY DEF Word, OwnSteps
    <2>2. CASE run.spec.apply
      <3>1. tail = <<"commit">>
        BY <2>2
      <3>2. <<"commit">> \in Seq(Word) /\ Len(<<"commit">>) = 1 /\ <<"commit">>[1] = "commit"
        BY <2>1
      <3>3. QED
        BY <3>1, <3>2
    <2>3. CASE ~run.spec.apply
      BY <2>3
    <2>4. QED
      BY <2>2, <2>3
  <1>3. <<"diff">> \in Seq(Word) /\ Len(<<"diff">>) = 1 /\ <<"diff">>[1] = "diff"
    BY DEF Word, OwnSteps
  <1> DEFINE pd == p \o <<"diff">>
  <1>4. /\ pd \in Seq(Word) /\ Len(pd) = Len(p) + 1
        /\ \A i \in 1 .. Len(p) + 1 : pd[i] = IF i <= Len(p) THEN p[i] ELSE "diff"
    <2>1. pd \in Seq(Word) /\ Len(pd) = Len(p) + 1
      BY <1>1, <1>3, ConcatProperties
    <2>2. \A i \in 1 .. Len(p) + 1 : pd[i] = IF i <= Len(p) THEN p[i] ELSE <<"diff">>[i - Len(p)]
      BY <1>1, <1>3, ConcatProperties
    <2>3. QED
      BY <1>1, <2>1, <2>2
  <1>5. Steps = p \o <<"diff">> \o tail
    BY DEF Steps
  <1>6. /\ Steps \in Seq(Word) /\ Len(Steps) = Len(pd) + Len(tail)
        /\ \A i \in 1 .. Len(pd) + Len(tail) :
              Steps[i] = IF i <= Len(pd) THEN pd[i] ELSE tail[i - Len(pd)]
    <2> HIDE DEF tail, pd
    <2>1. PICK a \in Seq(Word), b \in Seq(Word) : a = pd /\ b = tail
      BY <1>2, <1>4
    <2>2. /\ a \o b \in Seq(Word) /\ Len(a \o b) = Len(a) + Len(b)
          /\ \A i \in 1 .. Len(a) + Len(b) : (a \o b)[i] = IF i <= Len(a) THEN a[i] ELSE b[i - Len(a)]
      BY ConcatProperties
    <2>3. Steps = a \o b
      BY <1>5, <2>1 DEF pd
    <2>4. QED
      BY <2>1, <2>2, <2>3
  <1> HIDE DEF tail, pd
  <1>7. \A i \in 1 .. Len(p) : p[i] \in Line /\ p[i] \in {p[k] : k \in DOMAIN p}
    BY <1>1
  <1>8. SUFFICES ASSUME NEW i \in 1 .. Len(Steps)
                 PROVE  /\ Steps[i] \in Audited /\ Steps[i] \notin {"open", "confirm", "commit_history"}
                        /\ Steps[i] = "commit" => i = Len(Steps)
    BY <1>1, <1>2, <1>4, <1>6
  <1>9. CASE i <= Len(p)
    <2>1. Steps[i] = p[i]
      BY <1>1, <1>2, <1>4, <1>6, <1>9
    <2>2. p[i] \in Line /\ p[i] \in {run.spec.payload[k] : k \in DOMAIN run.spec.payload}
      BY <1>7, <1>1, <1>9
    <2>3. QED
      BY <2>1, <2>2 DEF OwnSteps, Audited
  <1>10. CASE i = Len(p) + 1
    <2>1. Steps[i] = "diff"
      BY <1>1, <1>2, <1>4, <1>6, <1>10
    <2>2. QED
      BY <2>1 DEF Audited
  <1>11. CASE i = Len(p) + 2
    <2>1. Steps[i] = "commit" /\ i = Len(Steps)
      <3>1. i - Len(pd) = 1 /\ Len(tail) = 1 /\ i = Len(Steps) /\ Steps[i] = tail[1]
        BY <1>1, <1>2, <1>4, <1>6, <1>11
      <3>2. tail[1] = "commit"
        BY <1>2, <3>1
      <3>3. QED
        BY <3>1, <3>2
    <2>2. QED
      BY <2>1 DEF Audited
  <1>12. i \in Nat /\ i <= Len(p) + 2 /\ Len(p) \in Nat
    <2>1. Len(Steps) = Len(p) + 1 + Len(tail)
      BY <1>4, <1>6
    <2> HIDE DEF p
    <2>2. QED
      BY <1>1, <1>2, <2>1
  <1>13. i <= Len(p) \/ i = Len(p) + 1 \/ i = Len(p) + 2
    BY <1>12
  <1>14. QED
    BY <1>9, <1>10, <1>11, <1>13

LEMMA BatchSteps ==
    ASSUME Typed, Mode = "batch"
    PROVE  /\ Steps \in Seq(Word) /\ Len(Steps) > 0
           /\ \A i \in 1 .. Len(Steps) : Steps[i] \notin OwnSteps
  <1>1. Steps = run.spec.payload
    BY DEF Steps
  <1>2. run.spec.payload \in Seq(Line) /\ run.spec.payload # <<>>
    BY SpecTyped DEF RunSpec
  <1>3. QED
    BY <1>1, <1>2 DEF Word

LEMMA OtherSteps ==
    ASSUME Typed
    PROVE  /\ Mode = "confirm" => Steps = <<"commit_history", "confirm">>
           /\ Mode = "config" => Steps = <<"config">>
           /\ Mode = "commit_status" => Steps = <<"commit_history">>
  BY DEF Steps

LEMMA StepsTyped ==
    ASSUME Typed
    PROVE  /\ Steps \in Seq(Word) /\ Len(Steps) > 0
           /\ \A i \in 1 .. Len(Steps) : Steps[i] \in Word /\ Steps[i] \in StepNames
           /\ {"open", "close", Mode} \subseteq StepNames
  <1>1. CASE Mode = "edit"
    BY <1>1, EditSteps DEF StepNames
  <1>2. CASE Mode = "batch"
    BY <1>2, BatchSteps DEF StepNames
  <1>3. CASE Mode \in {"confirm", "config", "commit_status"}
    <2>1. {"commit_history", "confirm", "config"} \subseteq Word
      BY DEF Word, OwnSteps, Modes
    <2>2. /\ <<"commit_history", "confirm">> \in Seq(Word) /\ Len(<<"commit_history", "confirm">>) = 2
          /\ <<"config">> \in Seq(Word) /\ Len(<<"config">>) = 1
          /\ <<"commit_history">> \in Seq(Word) /\ Len(<<"commit_history">>) = 1
      BY <2>1
    <2>3. Steps \in Seq(Word) /\ Len(Steps) > 0
      <3>1. CASE Mode = "confirm"
        <4>1. Steps = <<"commit_history", "confirm">>
          BY <3>1, OtherSteps
        <4>2. QED
          BY <4>1, <2>2
      <3>2. CASE Mode = "config"
        <4>1. Steps = <<"config">>
          BY <3>2, OtherSteps
        <4>2. QED
          BY <4>1, <2>2
      <3>3. CASE Mode = "commit_status"
        <4>1. Steps = <<"commit_history">>
          BY <3>3, OtherSteps
        <4>2. QED
          BY <4>1, <2>2
      <3>4. QED
        BY <1>3, <3>1, <3>2, <3>3
    <2>4. QED
      BY <2>3 DEF StepNames
  <1>4. QED
    BY <1>1, <1>2, <1>3, SpecTyped DEF Modes

\* Which operations send something that commits.
LEMMA CommitSteps ==
    ASSUME Typed, Mode # "confirm", NEW i \in 1 .. Len(Steps), Steps[i] \in Commits
    PROVE  Mode = "edit" /\ Steps[i] = "commit" /\ i = Len(Steps)
  BY SpecTyped, EditSteps, BatchSteps, OtherSteps DEF Modes, Commits, OwnSteps

-----------------------------------------------------------------------------
(* Operations one after the other                                          *)

LEMMA FaultsTyped ==
    /\ NoFault \notin Fault
    /\ TimedOut \in Certain /\ AFault("LOCAL", FALSE) \in Fault /\ AFault("LOCAL", TRUE) \in Fault
    /\ AFault("REFUSED", TRUE) \in Fault /\ AFault("SESSION_LOST", TRUE) \in Fault
    /\ AFault("UNREACHABLE", FALSE) \in Fault
    /\ Certain \subseteq Fault
  BY DEF NoFault, Fault, FaultKind, AFault, TimedOut, Certain

LEMMA OpTyped ==
    ASSUME Typed, NEW step \in Word, NEW fault \in Fault \cup {NoFault}
    PROVE  /\ Op(step, fault) \in AnOp
           /\ Op(step, fault).step = step /\ Op(step, fault).fault = fault
           /\ Failed(Op(step, fault)) <=> fault # NoFault
  BY DEF Op, AnOp, Failed

\* One more operation.
LEMMA Appended ==
    ASSUME NEW ops \in Seq(AnOp), NEW op \in AnOp
    PROVE  /\ Append(ops, op) \in Seq(AnOp)
           /\ Len(ops) \in Nat /\ Len(Append(ops, op)) = Len(ops) + 1
           /\ DOMAIN Append(ops, op) = 1 .. (Len(ops) + 1)
           /\ \A i \in 1 .. Len(ops) : Append(ops, op)[i] = ops[i]
           /\ Append(ops, op)[Len(ops) + 1] = op
  BY AppendProperties, LenProperties

\* The next operation of the mode, on top of those before it.
IsRan(more, ops, n, fault) ==
    /\ more \in Seq(AnOp) /\ InOrder(more, n) /\ Known(more, Len(Steps))
    /\ Len(more) = n /\ DOMAIN more = 1 .. n
    /\ more[n].step = Steps[n] /\ more[n].fault = fault
    /\ \A i \in 1 .. (n - 1) : more[i] = ops[i]
    /\ Failed(more[n]) <=> fault # NoFault

LEMMA Ran ==
    ASSUME Typed, NEW ops \in Seq(AnOp), NEW n \in 1 .. Len(Steps), InOrder(ops, n - 1),
           NEW fault \in Fault \cup {NoFault}, NEW more, more = Append(ops, Op(Steps[n], fault))
    PROVE  IsRan(more, ops, n, fault)
  <1>1. Steps[n] \in Word /\ Len(Steps) \in Nat
    BY StepsTyped
  <1>2. Op(Steps[n], fault) \in AnOp /\ Op(Steps[n], fault).step = Steps[n]
        /\ Op(Steps[n], fault).fault = fault /\ (Failed(Op(Steps[n], fault)) <=> fault # NoFault)
    BY <1>1, OpTyped
  <1> DEFINE op == Op(Steps[n], fault)
  <1>3. Len(ops) = n - 1 /\ \A i \in 1 .. (n - 1) : ops[i].step = Steps[i]
    BY DEF InOrder
  <1>4. more = Append(ops, op) /\ op \in AnOp
    BY <1>2
  <1> HIDE DEF op
  <1>5. /\ more \in Seq(AnOp) /\ Len(more) = n /\ DOMAIN more = 1 .. n
        /\ \A i \in 1 .. (n - 1) : more[i] = ops[i]
        /\ more[n] = op
    BY <1>1, <1>3, <1>4, Appended
  <1>6. \A i \in 1 .. n : more[i].step = Steps[i]
    BY <1>1, <1>2, <1>3, <1>5 DEF op
  <1>7. \A i \in 1 .. n : Steps[i] \in StepNames
    BY <1>1, StepsTyped
  <1>8. QED
    BY <1>1, <1>2, <1>5, <1>6, <1>7 DEF op, InOrder, Known, IsRan

\* With no fault before it, its own is the first one.
IsFirstFault(more, n, fault) ==
    /\ Clean(more, n - 1)
    /\ fault = NoFault => Clean(more, n)
    /\ fault # NoFault => Faulty(more) = {n} /\ FirstFaulty(more) = more[n]
    /\ Mode = "edit" /\ Steps[n] = "commit" => Committed(more)

LEMMA RanClean ==
    ASSUME Typed, NEW ops \in Seq(AnOp), NEW n \in 1 .. Len(Steps), InOrder(ops, n - 1), Clean(ops, n - 1),
           NEW fault \in Fault \cup {NoFault}, NEW more, more = Append(ops, Op(Steps[n], fault))
    PROVE  IsFirstFault(more, n, fault)
  <1>1. /\ more \in Seq(AnOp) /\ InOrder(more, n) /\ Len(more) = n /\ DOMAIN more = 1 .. n
        /\ \A i \in 1 .. (n - 1) : more[i] = ops[i]
        /\ Failed(more[n]) <=> fault # NoFault
        /\ more[n].step = Steps[n]
    <2>1. IsRan(more, ops, n, fault)
      BY Ran
    <2>2. QED
      BY <2>1 DEF IsRan
  <1>2. Clean(more, n - 1)
    BY <1>1 DEF Clean
  <1>3. n \in Nat /\ n >= 1 /\ Len(Steps) \in Nat
    BY StepsTyped
  <1>4. ASSUME fault = NoFault PROVE Clean(more, n)
    BY <1>1, <1>2, <1>3, <1>4 DEF Clean
  <1>5. ASSUME fault # NoFault PROVE Faulty(more) = {n} /\ FirstFaulty(more) = more[n]
    <2>1. Faulty(more) = {n}
      BY <1>1, <1>2, <1>3, <1>5 DEF Clean, Faulty
    <2>2. (CHOOSE i \in Faulty(more) : \A k \in Faulty(more) : i <= k) = n
      BY <1>3, <2>1
    <2>3. QED
      BY <2>1, <2>2 DEF FirstFaulty
  <1>6. ASSUME Mode = "edit", Steps[n] = "commit" PROVE Committed(more)
    <2>1. \A i \in 1 .. n : Steps[i] # "open"
      BY <1>3, <1>6, EditSteps
    <2>2. QED
      BY <1>1, <1>2, <1>3, <1>6, <2>1 DEF Committed, InOrder
  <1>7. QED
    BY <1>2, <1>4, <1>5, <1>6 DEF IsFirstFault

\* What is over after its last operation, after a fault or after an empty diff.
LEMMA RanWhole ==
    ASSUME Typed, NEW ops \in Seq(AnOp), NEW n \in 1 .. Len(Steps), InOrder(ops, n - 1),
           NEW fault \in Fault \cup {NoFault}, NEW more, more = Append(ops, Op(Steps[n], fault)),
           \/ fault # NoFault
           \/ n = Len(Steps)
           \/ Steps[n] = "diff"
    PROVE  Whole(more)
  <1>1. /\ more \in Seq(AnOp) /\ InOrder(more, n) /\ Len(more) = n /\ DOMAIN more = 1 .. n
        /\ Failed(more[n]) <=> fault # NoFault
        /\ Known(more, Len(Steps))
    <2>1. IsRan(more, ops, n, fault)
      BY Ran
    <2>2. QED
      BY <2>1 DEF IsRan
  <1>2. n \in Nat /\ n >= 1 /\ Len(Steps) \in Nat
    BY StepsTyped
  <1>3. Known(more, Len(Steps) + 1) /\ Len(more) > 0
    BY <1>1, <1>2 DEF Known
  <1>4. ASSUME Faulty(more) = {} PROVE Complete(more)
    <2>1. \A i \in 1 .. n : ~Failed(more[i])
      BY <1>1, <1>4 DEF Faulty
    <2>2. \A i \in 1 .. n : more[i] \in AnOp /\ more[i].step = Steps[i]
      BY <1>1 DEF InOrder
    <2>3. \A i \in 1 .. n : more[i] = Op(Steps[i], NoFault)
      BY <2>1, <2>2 DEF Failed, AnOp, Op
    <2>4. fault = NoFault
      BY <1>1, <1>2, <2>1
    <2>5. QED
      BY <1>1, <1>2, <2>3, <2>4 DEF Complete
  <1>5. QED
    BY <1>3, <1>4 DEF Whole

\* What is over with a fault that none of the mode's operations returned.
LEMMA CutWhole ==
    ASSUME Typed, NEW ops \in Seq(AnOp), Known(ops, Len(Steps)),
           NEW step \in Word, step \in StepNames, NEW fault \in Fault,
           NEW more, more = Append(ops, Op(step, fault))
    PROVE  more \in Seq(AnOp) /\ Whole(more) /\ Faulty(more) # {}
  <1> DEFINE op == Op(step, fault)
  <1>1. op \in AnOp /\ op.step = step /\ Failed(op)
    BY OpTyped, FaultsTyped
  <1>2. more = Append(ops, op)
    OBVIOUS
  <1> HIDE DEF op
  <1>3. /\ more \in Seq(AnOp) /\ Len(ops) \in Nat /\ Len(more) = Len(ops) + 1
        /\ DOMAIN more = 1 .. (Len(ops) + 1)
        /\ \A i \in 1 .. Len(ops) : more[i] = ops[i]
        /\ more[Len(ops) + 1] = op
    BY <1>1, <1>2, Appended
  <1>4. Len(Steps) \in Nat
    BY StepsTyped
  <1>5. Len(ops) <= Len(Steps) /\ \A i \in 1 .. Len(ops) : ops[i].step \in StepNames
    BY <1>3 DEF Known
  <1>6. Known(more, Len(Steps) + 1)
    BY <1>1, <1>3, <1>4, <1>5 DEF Known
  <1>7. Faulty(more) # {}
    BY <1>1, <1>3 DEF Faulty
  <1>8. QED
    BY <1>3, <1>6, <1>7 DEF Whole

LEMMA AloneWhole ==
    ASSUME Typed, NEW step \in Word, step \in StepNames, NEW fault \in Fault,
           NEW more, more = <<Op(step, fault)>>
    PROVE  /\ more \in Seq(AnOp) /\ Whole(more) /\ Faulty(more) = {1} /\ FirstFaulty(more) = more[1]
           /\ Len(more) = 1 /\ DOMAIN more = {1} /\ more[1] = Op(step, fault)
  <1> DEFINE op == Op(step, fault)
  <1>1. op \in AnOp /\ op.step = step /\ Failed(op)
    BY OpTyped, FaultsTyped
  <1>2. more = <<op>>
    OBVIOUS
  <1> HIDE DEF op
  <1>3. /\ more \in Seq(AnOp) /\ Len(more) = 1 /\ DOMAIN more = {1} /\ more[1] = op
    BY <1>1, <1>2
  <1>4. Len(Steps) \in Nat
    BY StepsTyped
  <1>5. Known(more, Len(Steps) + 1)
    BY <1>1, <1>3, <1>4 DEF Known
  <1>6. Faulty(more) = {1}
    BY <1>1, <1>3 DEF Faulty
  <1>7. (CHOOSE i \in {1} : \A k \in {1} : i <= k) = 1
    OBVIOUS
  <1>8. QED
    BY <1>3, <1>5, <1>6, <1>7 DEF Whole, FirstFaulty, op

-----------------------------------------------------------------------------
(* The verdict                                                             *)

LEMMA ModeIsBoolean ==
    ASSUME Typed
    PROVE  Reads \in BOOLEAN /\ ~(Reads /\ Mode = "edit")
  BY SpecTyped DEF Reads, RunSpec

\* A retry is one of those left, and cools nothing down.
LEMMA RetryLeft ==
    ASSUME Typed, NEW ops, NEW attempt \in Nat, VerdictOn(ops, attempt).action = "RETRY"
    PROVE  /\ attempt <= Retries /\ ~VerdictOn(ops, attempt).cool
           /\ FirstFaulty(ops).step = "open" \/ Mode # "edit"
  <1>1. Reads \in BOOLEAN /\ (Mode = "edit") \in BOOLEAN
        /\ (FirstFaulty(ops).step = "open") \in BOOLEAN
    BY ModeIsBoolean
  <1>2. VerdictOn(ops, attempt) =
          Decide(FirstFaulty(ops).fault, Reads, Mode = "edit", FirstFaulty(ops).step = "open", attempt)
    BY DEF VerdictOn, Judge
  <1>3. PICK r \in BOOLEAN, e \in BOOLEAN, o \in BOOLEAN :
            r = Reads /\ e = (Mode = "edit") /\ o = (FirstFaulty(ops).step = "open")
    BY <1>1
  <1>4. PICK f : f = FirstFaulty(ops).fault
    OBVIOUS
  <1>5. VerdictOn(ops, attempt) = Decide(f, r, e, o, attempt)
    BY <1>2, <1>3, <1>4
  <1>6. Decide(f, r, e, o, attempt).action = "RETRY"
    BY <1>5
  <1>7. attempt <= Retries /\ (o \/ r) /\ Decide(f, r, e, o, attempt).cool = FALSE
    BY <1>6 DEF Decide, Retry, Fail, FailCooled
  <1>8. QED
    BY <1>3, <1>5, <1>7, ModeIsBoolean

\* An edit that sent its commit is never tried again.
LEMMA CommittedIsLast ==
    ASSUME Typed, Mode = "edit", NEW ops \in Seq(AnOp), Committed(ops), Faulty(ops) # {}, NEW attempt \in Nat
    PROVE  VerdictOn(ops, attempt).action # "RETRY"
  <1>1. Len(ops) \in Nat /\ Len(ops) > 0 /\ DOMAIN ops = 1 .. Len(ops)
    BY LenProperties DEF Committed
  <1>2. Faulty(ops) = {Len(ops)}
    BY <1>1 DEF Faulty, Committed, Clean
  <1>3. FirstFaulty(ops) = ops[Len(ops)]
    <2>1. (CHOOSE i \in {Len(ops)} : \A k \in {Len(ops)} : i <= k) = Len(ops)
      BY <1>1
    <2>2. QED
      BY <1>2, <2>1 DEF FirstFaulty
  <1>4. FirstFaulty(ops).step # "open"
    BY <1>1, <1>3 DEF Committed
  <1>5. QED
    BY <1>4, RetryLeft

\* The verdict cools down what the table says it does.
LEMMA VerdictCools ==
    ASSUME Typed, NEW ops, NEW op, FirstFaulty(ops) = op, op.fault \in Fault, NEW attempt \in Nat,
           CooledDown(op.fault, Mode = "edit", op.step = "open")
    PROVE  VerdictOn(ops, attempt).cool
  <1>1. Reads \in BOOLEAN /\ (Mode = "edit") \in BOOLEAN /\ (op.step = "open") \in BOOLEAN
        /\ ~(Reads /\ Mode = "edit")
    BY ModeIsBoolean
  <1>2. VerdictOn(ops, attempt) = Decide(op.fault, Reads, Mode = "edit", op.step = "open", attempt)
    BY DEF VerdictOn, Judge
  <1> DEFINE f == op.fault
             e == (Mode = "edit")
             o == (op.step = "open")
  <1>3. f \in Fault /\ e \in BOOLEAN /\ o \in BOOLEAN /\ ~(Reads /\ e)
    BY <1>1
  <1>4. CooledDown(f, e, o)
    OBVIOUS
  <1>5. VerdictOn(ops, attempt) = Decide(f, Reads, e, o, attempt)
    BY <1>2
  <1> HIDE DEF f, e, o
  <1>6. QED
    BY <1>1, <1>3, <1>4, <1>5, DecideFollowsTable

-----------------------------------------------------------------------------
(* What a step of a target may do                                          *)

\* Only t's own entries change.
Frame(t, j, r, n) ==
    /\ run' = run
    /\ job' = [job EXCEPT ![t] = j]
    /\ result' = [result EXCEPT ![t] = r]
    /\ sent' = [sent EXCEPT ![t] = n]

Leaves(t) ==
    \/ gate'.active = gate.active \ {DeviceOf[t]}
    \/ gate'.active = gate.active /\ (gate'.broken \/ Cut)

Enters(t) ==
    /\ DeviceOf[t] \notin gate.active \cup gate.cooled /\ ~gate.broken
    /\ gate'.active = gate.active \cup {DeviceOf[t]}

\* The gate from one phase of t to another.
GateStep(t, pc) ==
    /\ gate' \in AGate
    /\ gate.cooled \subseteq gate'.cooled
    /\ gate.broken => gate'.broken
    /\ (job[t].pc \in Admitted <=> pc \in Admitted) => gate'.active = gate.active
    /\ job[t].pc \in Admitted /\ pc \notin Admitted => Leaves(t)
    /\ job[t].pc \notin Admitted /\ pc \in Admitted => Enters(t)
    /\ job[t].pc \in Admitted /\ pc = "opening" => job[t].pc = "opening"

\* A device that is due is cooled down by then, or at t's release.
DueStep(t, j) ==
    /\ due' \in SUBSET Device
    /\ due' \subseteq due \cup {DeviceOf[t]}
    /\ job[t].pc \notin Admitted => due' = due
    /\ job[t].pc \in Admitted /\ DeviceOf[t] \in due' /\ ~Cut =>
          \/ DeviceOf[t] \in gate'.cooled \/ gate'.broken
          \/ j.pc = "releasing" /\ Cools(j.ops, j.attempt)

Winds(t, j, n) ==
    /\ n # sent[t] => n = sent[t] + 1 /\ j.pc = "operating"
    /\ run.stopping =>
          /\ n = sent[t] /\ gate'.logins = gate.logins
          /\ job[t].pc \in {"queued", "pausing"} => j.pc \in {job[t].pc, "done"}

\* Whoever may take a step: it is admitted, pauses, or gets its slot.
Moving(t) == job[t].pc \in InFlight \/ (job[t].pc = "queued" /\ run.pc = "going")

TaskStep(t) ==
    /\ Moving(t)
    /\ \E j \in AJob, r \in ARecord, n \in Nat :
        /\ Frame(t, j, r, n) /\ Place(t, j, r, n)
        /\ GateStep(t, j.pc) /\ DueStep(t, j) /\ Winds(t, j, n)

LEMMA TargetTyped ==
    ASSUME SInv, NEW t \in Target
    PROVE  /\ job[t] \in AJob /\ result[t] \in ARecord /\ sent[t] \in Nat
           /\ DeviceOf[t] \in Device /\ gate \in AGate /\ Typed
           /\ Place(t, job[t], result[t], sent[t])
           /\ result = [result EXCEPT ![t] = result[t]] /\ sent = [sent EXCEPT ![t] = sent[t]]
  BY DEF SInv, Typed

\* A task is in flight only while the run is on.
LEMMA RunIsOn ==
    ASSUME SInv, NEW t \in Target, job[t].pc \in InFlight
    PROVE  run.pc = "going" /\ t \in Listed
  <1>1. run.pc \in {"asked", "probing", "going", "ended", "refused"}
    BY DEF SInv, Typed, ARun
  <1>2. Telling(t, job[t], result[t])
    BY TargetTyped DEF Place
  <1>3. job[t].pc \notin {"queued", "done"}
    BY DEF InFlight, Admitted, InSession
  <1>4. QED
    BY <1>1, <1>2, <1>3 DEF Telling

\* What t's device is owed before its cleanup: nothing, unless an interrupt may
\* have cut a cleanup short.
LEMMA NothingOwed ==
    ASSUME SInv, NEW t \in Target, job[t].pc \in Admitted, DeviceOf[t] \in due, ~Cut
    PROVE  \/ DeviceOf[t] \in gate.cooled \/ gate.broken
           \/ job[t].pc = "releasing" /\ Cools(job[t].ops, job[t].attempt)
  <1>1. CASE DeviceOf[t] \in gate.cooled \/ gate.broken
    BY <1>1
  <1>2. CASE \E u \in Target : /\ DeviceOf[u] = DeviceOf[t] /\ job[u].pc = "releasing"
                               /\ Cools(job[u].ops, job[u].attempt)
    <2>1. PICK u \in Target : /\ DeviceOf[u] = DeviceOf[t] /\ job[u].pc = "releasing"
                              /\ Cools(job[u].ops, job[u].attempt)
      BY <1>2
    <2>2. job[u].pc \in Admitted
      BY <2>1 DEF Admitted, InSession
    <2>3. u = t
      BY <2>1, <2>2 DEF SInv, Held
    <2>4. QED
      BY <2>1, <2>3
  <1>3. QED
    BY <1>1, <1>2 DEF SInv, Owed

-----------------------------------------------------------------------------
(* The gate                                                                *)

\* The fields of a gate h, and where they come from.
GateIs(h, active, cooled, logins, broken) ==
    /\ h \in AGate
    /\ h.active = active /\ h.cooled = cooled /\ h.logins = logins /\ h.broken = broken

LEMMA Frees ==
    ASSUME NEW g \in AGate, NEW d \in Device, NEW h, h = [g EXCEPT !.active = @ \ {d}]
    PROVE  GateIs(h, g.active \ {d}, g.cooled, g.logins, g.broken)
  BY DEF AGate, GateIs

LEMMA CoolsDown ==
    ASSUME NEW g \in AGate, NEW d \in Device,
           NEW h, h = [g EXCEPT !.active = @ \ {d}, !.cooled = @ \cup {d}]
    PROVE  GateIs(h, g.active \ {d}, g.cooled \cup {d}, g.logins, g.broken)
  BY DEF AGate, GateIs

LEMMA Takes ==
    ASSUME NEW g \in AGate, NEW d \in Device, NEW h, h = [g EXCEPT !.active = @ \cup {d}]
    PROVE  GateIs(h, g.active \cup {d}, g.cooled, g.logins, g.broken)
  BY DEF AGate, GateIs

LEMMA Breaks ==
    ASSUME NEW g \in AGate, NEW h, h = [g EXCEPT !.broken = TRUE]
    PROVE  GateIs(h, g.active, g.cooled, g.logins, TRUE)
  BY DEF AGate, GateIs

\* Policy.settle: the device goes free, or the gate is unusable; it cools down
\* if it was decided so.
LEMMA Settles ==
    ASSUME NEW g \in AGate, NEW d \in Device, NEW cool, NEW h, h = Settle(g, d, cool)
    PROVE  /\ h \in AGate /\ h.logins = g.logins /\ h.broken = g.broken
           /\ g.cooled \subseteq h.cooled
           /\ h.active = g.active \ {d} \/ (h.active = g.active /\ h.broken)
           /\ cool => d \in h.cooled \/ h.broken
  <1>1. CASE ~cool
    <2>1. h = [g EXCEPT !.active = @ \ {d}]
      BY <1>1 DEF Settle
    <2>2. GateIs(h, g.active \ {d}, g.cooled, g.logins, g.broken)
      BY <2>1, Frees
    <2>3. QED
      BY <1>1, <2>2 DEF GateIs
  <1>2. CASE cool /\ g.broken
    BY <1>2 DEF Settle
  <1>3. CASE cool /\ ~g.broken
    <2>1. h = [g EXCEPT !.active = @ \ {d}, !.cooled = @ \cup {d}]
      BY <1>3 DEF Settle
    <2>2. GateIs(h, g.active \ {d}, g.cooled \cup {d}, g.logins, g.broken)
      BY <2>1, CoolsDown
    <2>3. QED
      BY <1>3, <2>2 DEF GateIs
  <1>4. QED
    BY <1>1, <1>2, <1>3

\* One more login, where the window has room.
LEMMA Counts ==
    ASSUME NEW g \in AGate, NEW d \in Device, ~Full(g, d), NEW h, h = LoginCounted(g, d)
    PROVE  /\ h \in AGate /\ h.active = g.active /\ h.cooled = g.cooled /\ h.broken = g.broken
  <1>1. g.logins \in [Device -> 0 .. RateLimit] /\ g.logins[d] \in 0 .. RateLimit
        /\ g.logins[d] < RateLimit
    BY DEF AGate, Full
  <1>2. [g.logins EXCEPT ![d] = @ + 1] \in [Device -> 0 .. RateLimit]
    BY <1>1
  <1>3. QED
    BY <1>2 DEF AGate, LoginCounted

LEMMA Reserves ==
    ASSUME NEW g \in AGate, NEW d \in Device, NEW login, ~TurnedAway(g, d, login),
           NEW h, h = Reserved(g, d, login)
    PROVE  /\ h \in AGate /\ h.cooled = g.cooled /\ h.broken = g.broken
           /\ h.active = g.active \cup {d} /\ d \notin g.active \cup g.cooled
  <1>1. d \notin g.active \cup g.cooled /\ (login => ~Full(g, d))
    BY DEF TurnedAway
  <1>2. CASE login
    <2>1. LoginCounted(g, d) \in AGate /\ LoginCounted(g, d).active = g.active
          /\ LoginCounted(g, d).cooled = g.cooled /\ LoginCounted(g, d).broken = g.broken
      BY <1>1, <1>2, Counts
    <2>2. PICK k : k = LoginCounted(g, d)
      OBVIOUS
    <2>3. h = [k EXCEPT !.active = @ \cup {d}]
      BY <1>2, <2>2 DEF Reserved
    <2>4. GateIs(h, k.active \cup {d}, k.cooled, k.logins, k.broken)
      BY <2>1, <2>2, <2>3, Takes
    <2>5. QED
      BY <1>1, <2>1, <2>2, <2>4 DEF GateIs
  <1>3. CASE ~login
    <2>1. h = [g EXCEPT !.active = @ \cup {d}]
      BY <1>3 DEF Reserved
    <2>2. GateIs(h, g.active \cup {d}, g.cooled, g.logins, g.broken)
      BY <2>1, Takes
    <2>3. QED
      BY <1>1, <2>2 DEF GateIs
  <1>4. QED
    BY <1>2, <1>3

\* An admitted target settles the gate.
LEMMA SettleStep ==
    ASSUME SInv, NEW t \in Target, job[t].pc \in Admitted, NEW cool,
           gate' = Settle(gate, DeviceOf[t], cool), NEW pc, pc \notin Admitted
    PROVE  GateStep(t, pc) /\ gate'.logins = gate.logins
           /\ (cool => DeviceOf[t] \in gate'.cooled \/ gate'.broken)
  <1>1. gate \in AGate /\ DeviceOf[t] \in Device
    BY TargetTyped
  <1>2. /\ gate' \in AGate /\ gate'.logins = gate.logins /\ gate'.broken = gate.broken
        /\ gate.cooled \subseteq gate'.cooled
        /\ gate'.active = gate.active \ {DeviceOf[t]} \/ (gate'.active = gate.active /\ gate'.broken)
        /\ cool => DeviceOf[t] \in gate'.cooled \/ gate'.broken
    BY <1>1, Settles
  <1>3. pc # "opening"
    BY DEF Admitted
  <1>4. QED
    BY <1>2, <1>3 DEF GateStep, Leaves

\* The gate is left as it is.
LEMMA SameGateStep ==
    ASSUME SInv, NEW t \in Target, gate' = gate, NEW pc,
           job[t].pc \in Admitted <=> pc \in Admitted,
           pc = "opening" => job[t].pc = "opening"
    PROVE  GateStep(t, pc) /\ gate'.logins = gate.logins
  BY TargetTyped DEF GateStep

-----------------------------------------------------------------------------
(* The ends of a task                                                      *)

LEMMA OverTyped ==
    /\ Over \in AJob /\ Over.pc = "done" /\ Over.ops = <<>> /\ Over.next = 1 /\ Over.freshAt = 0
    /\ Over.cancelled = FALSE /\ Over.pastCommit = FALSE
    /\ Idle \in AJob /\ Idle.pc = "queued" /\ Idle.ops = <<>> /\ Idle.next = 1 /\ Idle.freshAt = 0
    /\ Idle.cancelled = FALSE /\ Idle.pastCommit = FALSE
  <1>1. <<>> \in Seq(AnOp) /\ 1 \in 1 .. (Retries + 1)
    BY EmptySeq
  <1>2. Idle \in AJob
    BY <1>1 DEF Idle, AJob
  <1>3. QED
    BY <1>1, <1>2 DEF Idle, Over, AJob

LEMMA MovingIsOn ==
    ASSUME SInv, NEW t \in Target, Moving(t)
    PROVE  run.pc = "going" /\ t \in Listed
  <1>1. Telling(t, job[t], result[t])
    BY TargetTyped DEF Place
  <1>2. QED
    BY <1>1, RunIsOn DEF Moving, Telling

LEMMA EndStep ==
    ASSUME SInv, NEW t \in Target, Moving(t),
           run' = run, sent' = sent, job' = [job EXCEPT ![t] = Over],
           NEW r \in ARecord, result' = [result EXCEPT ![t] = r],
           r.status # "none", Known(r.ops, Len(Steps) + 1), r.audited \subseteq Audited,
           r.status = "ok" => Complete(r.ops),
           Mode # "confirm" /\ sent[t] # 0 => Told(r),
           GateStep(t, "done"), run.stopping => gate'.logins = gate.logins, DueStep(t, Over)
    PROVE  TaskStep(t)
  <1>1. run.pc = "going" /\ t \in Listed /\ Len(Steps) > 0 /\ Len(Steps) \in Nat
    BY MovingIsOn, StepsTyped, TargetTyped
  <1>2. Course(Over)
    BY <1>1, OverTyped DEF Course
  <1>3. Reached(Over)
    BY OverTyped DEF Reached
  <1>4. Telling(t, Over, r)
    BY <1>1, OverTyped DEF Telling
  <1>5. Kept(r)
    BY <1>1 DEF Kept
  <1>6. Sending(Over, r, sent[t])
    <2>1. Sending(job[t], result[t], sent[t])
      BY TargetTyped DEF Place
    <2>2. QED
      BY <2>1, OverTyped DEF Sending
  <1>7. Place(t, Over, r, sent[t])
    BY <1>2, <1>3, <1>4, <1>5, <1>6 DEF Place
  <1>8. Winds(t, Over, sent[t])
    BY OverTyped DEF Winds
  <1>9. Frame(t, Over, r, sent[t])
    BY TargetTyped DEF Frame
  <1>10. QED
    BY <1>7, <1>8, <1>9, OverTyped, TargetTyped DEF TaskStep

LEMMA MoveStep ==
    ASSUME SInv, NEW t \in Target, Moving(t),
           run' = run, result' = result,
           NEW j \in AJob, j.pc \in InFlight, job' = [job EXCEPT ![t] = j],
           NEW n \in Nat, sent' = [sent EXCEPT ![t] = n],
           Course(j), Reached(j), Sending(j, result[t], n),
           GateStep(t, j.pc), DueStep(t, j), Winds(t, j, n)
    PROVE  TaskStep(t)
  <1>1. run.pc = "going" /\ t \in Listed
    BY MovingIsOn
  <1>2. job[t].pc # "done" /\ j.pc # "done"
    BY DEF Moving, InFlight, Admitted, InSession
  <1>3. Telling(t, job[t], result[t]) /\ Kept(result[t])
    BY TargetTyped DEF Place
  <1>4. Telling(t, j, result[t])
    BY <1>1, <1>2, <1>3 DEF Telling
  <1>5. Place(t, j, result[t], n)
    BY <1>3, <1>4 DEF Place
  <1>6. Frame(t, j, result[t], n)
    BY TargetTyped DEF Frame
  <1>7. QED
    BY <1>5, <1>6, TargetTyped DEF TaskStep

LEMMA RecordedStep ==
    ASSUME SInv, NEW t \in Target, Moving(t), run' = run, sent' = sent,
           NEW ops \in Seq(AnOp), NEW status \in {"ok", "failed", "skipped"}, Recorded(t, ops, status),
           Known(ops, Len(Steps) + 1), status = "ok" => Complete(ops),
           Mode # "confirm" /\ sent[t] # 0 => Committed(ops) /\ status # "skipped",
           GateStep(t, "done"), run.stopping => gate'.logins = gate.logins, DueStep(t, Over)
    PROVE  TaskStep(t)
  <1>1. PICK s \in {"ok", "failed", "skipped"} :
            s = IF run.stopping /\ InterruptedConnect(ops) THEN "skipped" ELSE status
    OBVIOUS
  <1>2. PICK r : r = [status |-> s, ops |-> ops, audited |-> AuditEntries(ops)]
    OBVIOUS
  <1>3. job' = [job EXCEPT ![t] = Over] /\ result' = [result EXCEPT ![t] = r]
    BY <1>1, <1>2 DEF Recorded
  <1>4. Len(ops) \in Nat /\ DOMAIN ops = 1 .. Len(ops) /\ \A i \in 1 .. Len(ops) : ops[i] \in AnOp
    BY LenProperties
  <1>5. AuditEntries(ops) \subseteq Audited /\ AuditEntries(ops) \subseteq Word
    BY <1>4 DEF AuditEntries, AnOp
  <1>6. r \in ARecord /\ r.status = s /\ r.ops = ops /\ r.audited = AuditEntries(ops)
    BY <1>1, <1>2, <1>5 DEF ARecord
  <1>7. ASSUME Mode # "confirm", sent[t] # 0 PROVE Told(r)
    <2>1. Committed(ops) /\ status # "skipped"
      BY <1>7
    <2>2. Len(ops) > 0 /\ Len(ops) \in DOMAIN ops /\ ops[Len(ops)].step = "commit" /\ ops[1].step # "open"
      BY <1>4, <2>1 DEF Committed
    <2>3. ~InterruptedConnect(ops)
      BY <2>2 DEF InterruptedConnect
    <2>4. "commit" \in AuditEntries(ops)
      BY <2>2 DEF AuditEntries, Audited
    <2>5. QED
      BY <1>1, <1>6, <2>1, <2>2, <2>3, <2>4 DEF Told
  <1>8. s = "ok" => status = "ok"
    BY <1>1
  <1>9. QED
    BY <1>3, <1>5, <1>6, <1>7, <1>8, EndStep

LEMMA FailedBeforeStep ==
    ASSUME SInv, NEW t \in Target, Moving(t), run' = run, sent' = sent,
           NEW step \in Word, step \in StepNames, NEW fault \in Fault,
           NEW status \in {"failed", "skipped"}, FailedBefore(t, Op(step, fault), status),
           Mode # "confirm" => sent[t] = 0,
           GateStep(t, "done"), run.stopping => gate'.logins = gate.logins, DueStep(t, Over)
    PROVE  TaskStep(t)
  <1>1. PICK ops : ops = <<Op(step, fault)>>
    OBVIOUS
  <1>2. ops \in Seq(AnOp) /\ Whole(ops)
    BY <1>1, AloneWhole, TargetTyped
  <1>3. PICK r : r = [status |-> status, ops |-> ops, audited |-> {}]
    OBVIOUS
  <1>4. job' = [job EXCEPT ![t] = Over] /\ result' = [result EXCEPT ![t] = r]
    BY <1>1, <1>3 DEF FailedBefore
  <1>5. r \in ARecord /\ r.status = status /\ r.ops = ops /\ r.audited = {}
    BY <1>2, <1>3 DEF ARecord
  <1>6. Known(r.ops, Len(Steps) + 1)
    BY <1>2, <1>5 DEF Whole
  <1>7. QED
    BY <1>4, <1>5, <1>6, EndStep

LEMMA BrokenTyped ==
    ASSUME Typed
    PROVE  /\ Broken \in Seq(AnOp) /\ Whole(Broken) /\ Len(Broken) = 1
           /\ \A attempt \in Nat : ~Cools(Broken, attempt)
  <1>1. Broken = <<Op("open", AFault("LOCAL", TRUE))>> /\ "open" \in Word /\ "open" \in StepNames
    BY DEF Broken, Word, OwnSteps, StepNames
  <1>2. /\ Broken \in Seq(AnOp) /\ Whole(Broken) /\ Len(Broken) = 1
        /\ FirstFaulty(Broken) = Op("open", AFault("LOCAL", TRUE))
    BY <1>1, AloneWhole, FaultsTyped
  <1>3. ASSUME NEW attempt \in Nat PROVE ~Cools(Broken, attempt)
    <2>1. FirstFaulty(Broken).fault.kind = "LOCAL" /\ (FirstFaulty(Broken).step = "open")
      BY <1>2 DEF Op, AFault
    <2>2. VerdictOn(Broken, attempt) = Fail
      BY <2>1 DEF VerdictOn, Judge, Decide, Lost
    <2>3. QED
      BY <2>2 DEF Cools, Fail
  <1>4. QED
    BY <1>2, <1>3

\* Something other than a Fault was raised: the target fails, whatever it sent.
LEMMA BugStep ==
    ASSUME SInv, NEW t \in Target, job[t].pc \in Admitted, run' = run, sent' = sent, due' = due,
           job[t].pc = "releasing" => job[t].ops = Broken,
           Bug(t, gate)
    PROVE  TaskStep(t)
  <1>1. PICK r : r = [status |-> "failed", ops |-> Broken, audited |-> {}]
    OBVIOUS
  <1>2. /\ gate' = Settle(gate, DeviceOf[t], FALSE)
        /\ job' = [job EXCEPT ![t] = Over] /\ result' = [result EXCEPT ![t] = r]
    BY <1>1 DEF Bug
  <1>4. Broken \in Seq(AnOp) /\ Whole(Broken) /\ Len(Broken) = 1
    BY BrokenTyped, TargetTyped
  <1>5. r \in ARecord /\ r.status = "failed" /\ r.ops = Broken /\ r.audited = {}
    BY <1>1, <1>4 DEF ARecord
  <1>6. Known(r.ops, Len(Steps) + 1) /\ Told(r)
    BY <1>4, <1>5 DEF Whole, Told
  <1>7. "done" \notin Admitted /\ Moving(t)
    BY DEF Admitted, InSession, InFlight, Moving
  <1>8. GateStep(t, "done") /\ gate'.logins = gate.logins
    BY <1>2, <1>7, SettleStep
  <1>9. DueStep(t, Over)
    <2>1. ASSUME DeviceOf[t] \in due, ~Cut PROVE DeviceOf[t] \in gate'.cooled \/ gate'.broken
      <3>1. DeviceOf[t] \in gate.cooled \/ gate.broken
        BY <2>1, NothingOwed, BrokenTyped, TargetTyped DEF AJob
      <3>2. QED
        BY <1>8, <3>1 DEF GateStep
    <2>2. due' \in SUBSET Device
      BY TargetTyped DEF Typed
    <2>3. QED
      BY <2>1, <2>2 DEF DueStep
  <1>10. QED
    BY <1>2, <1>5, <1>6, <1>7, <1>8, <1>9, EndStep

-----------------------------------------------------------------------------
(* Fields of a task are set                                                *)

\* The fields of a task but its reuse of a kept session.
JobIs(j, pc, attempt, next, ops, freshAt, cancelled, pastCommit) ==
    /\ j \in AJob
    /\ j.pc = pc /\ j.attempt = attempt /\ j.next = next /\ j.ops = ops /\ j.freshAt = freshAt
    /\ j.cancelled = cancelled /\ j.pastCommit = pastCommit

LEMMA SetPhase ==
    ASSUME NEW x \in AJob, NEW pc \in InFlight, NEW ops \in Seq(AnOp),
           NEW j, j = [x EXCEPT !.pc = pc, !.ops = ops]
    PROVE  JobIs(j, pc, x.attempt, x.next, ops, x.freshAt, x.cancelled, x.pastCommit)
  BY DEF AJob, JobIs

LEMMA SetStart ==
    ASSUME NEW x \in AJob, NEW next \in Nat \ {0}, NEW ops \in Seq(AnOp), NEW past \in BOOLEAN,
           NEW j, j = [x EXCEPT !.pc = "operating", !.next = next, !.ops = ops, !.pastCommit = past]
    PROVE  JobIs(j, "operating", x.attempt, next, ops, x.freshAt, x.cancelled, past)
  BY DEF AJob, JobIs, InFlight, Admitted, InSession

LEMMA SetFreshAt ==
    ASSUME NEW x \in AJob, NEW next \in Nat \ {0}, NEW at \in Nat,
           NEW j, j = [x EXCEPT !.pc = "operating", !.next = next, !.freshAt = at]
    PROVE  JobIs(j, "operating", x.attempt, next, x.ops, at, x.cancelled, x.pastCommit)
  BY DEF AJob, JobIs, InFlight, Admitted, InSession

LEMMA SetKept ==
    ASSUME NEW x \in AJob, NEW j, j = [x EXCEPT !.kept = FALSE]
    PROVE  JobIs(j, x.pc, x.attempt, x.next, x.ops, x.freshAt, x.cancelled, x.pastCommit)
  BY DEF AJob, JobIs

LEMMA SetCancelled ==
    ASSUME NEW x \in AJob, NEW c \in BOOLEAN, NEW j, j = [x EXCEPT !.cancelled = c]
    PROVE  JobIs(j, x.pc, x.attempt, x.next, x.ops, x.freshAt, c, x.pastCommit)
  BY DEF AJob, JobIs

LEMMA SetIdle ==
    ASSUME NEW attempt \in 1 .. (Retries + 1), NEW kept \in BOOLEAN,
           NEW j, j = [Idle EXCEPT !.pc = "opening", !.kept = kept, !.attempt = attempt]
    PROVE  JobIs(j, "opening", attempt, 1, <<>>, 0, FALSE, FALSE)
  <1>1. PICK x \in AJob : x = Idle
    BY OverTyped
  <1>2. x.ops = <<>> /\ x.next = 1 /\ x.freshAt = 0 /\ x.cancelled = FALSE /\ x.pastCommit = FALSE
    BY <1>1, OverTyped
  <1>3. j = [x EXCEPT !.pc = "opening", !.kept = kept, !.attempt = attempt]
    BY <1>1
  <1>4. QED
    BY <1>2, <1>3 DEF AJob, JobIs, InFlight, Admitted, InSession

-----------------------------------------------------------------------------
(* The end of an attempt                                                   *)

\* What t owes its device if it ends with ops.
OwesAfter(t, ops) ==
    /\ due' \in SUBSET Device /\ due' \subseteq due \cup {DeviceOf[t]}
    /\ DeviceOf[t] \in due' /\ ~Cut =>
          DeviceOf[t] \in gate.cooled \/ gate.broken \/ Cools(ops, job[t].attempt)

LEMMA AttemptOverStep ==
    ASSUME SInv, NEW t \in Target, job[t].pc \in Admitted, run' = run, sent' = sent,
           NEW ops \in Seq(AnOp), Whole(ops),
           Mode # "confirm" /\ sent[t] # 0 => Committed(ops),
           OwesAfter(t, ops), AttemptOver(t, job[t].attempt, ops, gate)
    PROVE  TaskStep(t)
  <1> DEFINE d == DeviceOf[t]
             v == VerdictOn(ops, job[t].attempt)
  <1>1. Moving(t) /\ "done" \notin Admitted /\ "pausing" \notin Admitted /\ "pausing" \in InFlight
    BY DEF Admitted, InSession, InFlight, Moving
  <1>2. Known(ops, Len(Steps) + 1)
    BY DEF Whole
  <1>3. Typed /\ job[t] \in AJob
    BY TargetTyped
  <1>4. CASE Faulty(ops) = {}
    <2>1. gate' = Settle(gate, d, FALSE) /\ Recorded(t, ops, "ok")
      BY <1>4 DEF AttemptOver
    <2>2. Complete(ops) /\ ~Cools(ops, job[t].attempt)
      BY <1>4 DEF Whole, Cools
    <2>3. GateStep(t, "done") /\ gate'.logins = gate.logins
      BY <1>1, <2>1, SettleStep
    <2>4. DueStep(t, Over)
      BY <2>2, <2>3 DEF DueStep, OwesAfter, GateStep
    <2>5. QED
      BY <1>1, <1>2, <2>1, <2>2, <2>3, <2>4, RecordedStep
  <1>5. CASE Faulty(ops) # {} /\ v.action = "RETRY" /\ ~run.stopping
    <2>1. /\ gate' = Settle(gate, d, v.cool)
          /\ job' = [job EXCEPT ![t] = [Idle EXCEPT !.pc = "pausing", !.attempt = job[t].attempt,
                                                    !.ops = ops]]
          /\ result' = result
      BY <1>5 DEF AttemptOver
    <2>2. PICK j : j = [Idle EXCEPT !.pc = "pausing", !.attempt = job[t].attempt, !.ops = ops]
      OBVIOUS
    <2>3. /\ j \in AJob /\ j.pc = "pausing" /\ j.attempt = job[t].attempt /\ j.ops = ops
          /\ j.next = 1 /\ j.freshAt = 0 /\ j.cancelled = FALSE /\ j.pastCommit = FALSE
      BY <1>1, <1>3, <2>2, OverTyped DEF AJob
    <2>4. job[t].attempt \in Nat
      BY <1>3 DEF AJob
    <2>5. job[t].attempt <= Retries /\ ~v.cool
      BY <1>3, <1>5, <2>4, RetryLeft
    <2>6. Mode # "confirm" => sent[t] = 0
      <3>1. SUFFICES ASSUME Mode # "confirm", sent[t] # 0 PROVE FALSE
        OBVIOUS
      <3>2. Committed(ops) /\ Mode = "edit"
        BY <3>1, TargetTyped DEF Place, Sending
      <3>3. QED
        BY <1>3, <1>5, <2>4, <3>2, CommittedIsLast
    <2>7. GateStep(t, "pausing") /\ gate'.logins = gate.logins
      BY <1>1, <2>1, SettleStep
    <2>8. Course(j)
      BY <1>2, <2>3, <2>5, StepsTyped, TargetTyped DEF Course
    <2>9. Reached(j)
      BY <1>5, <2>3 DEF Reached
    <2>10. Sending(j, result[t], sent[t])
      BY <2>6 DEF Sending
    <2>11. DueStep(t, j)
      BY <2>3, <2>5, <2>7 DEF DueStep, OwesAfter, GateStep, Cools
    <2>12. Winds(t, j, sent[t])
      BY <1>5 DEF Winds
    <2>13. sent' = [sent EXCEPT ![t] = sent[t]] /\ sent[t] \in Nat
      BY TargetTyped
    <2>14. job' = [job EXCEPT ![t] = j]
      BY <2>1, <2>2
    <2>15. QED
      BY <1>1, <2>1, <2>3, <2>7, <2>8, <2>9, <2>10, <2>11, <2>12, <2>13, <2>14, MoveStep
  <1>6. CASE Faulty(ops) # {} /\ ~(v.action = "RETRY" /\ ~run.stopping)
    <2>1. gate' = Settle(gate, d, v.cool) /\ Recorded(t, ops, "failed")
      BY <1>6 DEF AttemptOver
    <2>2. /\ GateStep(t, "done") /\ gate'.logins = gate.logins
          /\ v.cool => d \in gate'.cooled \/ gate'.broken
      BY <1>1, <2>1, SettleStep
    <2>3. DueStep(t, Over)
      BY <2>2 DEF DueStep, OwesAfter, GateStep, Cools
    <2>4. QED
      BY <1>1, <1>2, <2>1, <2>2, <2>3, RecordedStep
  <1>7. QED
    BY <1>4, <1>5, <1>6

\* A kept session is released first.
LEMMA OperationsOverStep ==
    ASSUME SInv, NEW t \in Target, job[t].pc \in {"operating", "fresh"}, run' = run, sent' = sent,
           NEW ops \in Seq(AnOp), Whole(ops),
           Mode # "confirm" /\ sent[t] # 0 => Committed(ops),
           OwesAfter(t, ops), OperationsOver(t, ops, gate)
    PROVE  TaskStep(t)
  <1>1. job[t].pc \in Admitted /\ Moving(t) /\ "releasing" \in Admitted /\ "releasing" \in InFlight
    BY DEF Admitted, InSession, InFlight, Moving
  <1>2. CASE ~(Pool /\ ~Stale(ops, job[t].freshAt))
    <2>1. AttemptOver(t, job[t].attempt, ops, gate)
      BY <1>2 DEF OperationsOver
    <2>2. QED
      BY <1>1, <2>1, AttemptOverStep
  <1>3. CASE Pool /\ ~Stale(ops, job[t].freshAt)
    <2>1. /\ job' = [job EXCEPT ![t].pc = "releasing", ![t].ops = ops]
          /\ gate' = gate /\ result' = result
      BY <1>3 DEF OperationsOver
    <2>2. PICK j : j = [job[t] EXCEPT !.pc = "releasing", !.ops = ops]
      OBVIOUS
    <2>3. job[t] \in AJob /\ Course(job[t]) /\ Reached(job[t]) /\ Sending(job[t], result[t], sent[t])
          /\ job \in [Target -> AJob]
      BY TargetTyped DEF Place, Typed
    <2>4. /\ j \in AJob /\ j.pc = "releasing" /\ j.attempt = job[t].attempt /\ j.ops = ops
          /\ j.next = job[t].next /\ j.freshAt = job[t].freshAt
          /\ j.cancelled = job[t].cancelled /\ j.pastCommit = job[t].pastCommit
      <3>1. PICK x \in AJob : x = job[t]
        BY <2>3
      <3>2. j = [x EXCEPT !.pc = "releasing", !.ops = ops]
        BY <2>2, <3>1
      <3>3. JobIs(j, "releasing", x.attempt, x.next, ops, x.freshAt, x.cancelled, x.pastCommit)
        BY <1>1, <3>2, SetPhase
      <3>4. QED
        BY <3>1, <3>3 DEF JobIs
    <2>5. job' = [job EXCEPT ![t] = j]
      BY <2>1, <2>2, <2>3
    <2>6. Course(j)
      BY <1>3, <2>3, <2>4 DEF Course
    <2>7. Reached(j)
      BY <1>1, <2>3, <2>4 DEF Reached
    <2>8. Sending(j, result[t], sent[t])
      BY <2>3, <2>4 DEF Sending
    <2>9. GateStep(t, "releasing") /\ gate'.logins = gate.logins
      BY <1>1, <2>1, SameGateStep
    <2>10. DueStep(t, j)
      BY <1>1, <2>1, <2>4 DEF DueStep, OwesAfter
    <2>11. Winds(t, j, sent[t])
      BY <2>1, <2>4, <1>1 DEF Winds
    <2>12. sent' = [sent EXCEPT ![t] = sent[t]] /\ sent[t] \in Nat
      BY TargetTyped
    <2>13. QED
      BY <1>1, <2>1, <2>4, <2>5, <2>6, <2>7, <2>8, <2>9, <2>10, <2>11, <2>12, MoveStep
  <1>4. QED
    BY <1>2, <1>3

-----------------------------------------------------------------------------
(* The steps of a target                                                   *)

\* Nothing was sent to a target outside its operations.
LEMMA NothingSent ==
    ASSUME SInv, NEW t \in Target, Mode # "confirm",
           \/ job[t].pc \notin {"operating", "releasing", "done"}
           \/ job[t].pc # "done" /\ ~job[t].pastCommit
           \/ job[t].pc # "done" /\ Mode # "edit"
    PROVE  sent[t] = 0
  BY TargetTyped DEF Place, Sending

LEMMA OpenWord ==
    ASSUME Typed
    PROVE  /\ "open" \in Word /\ "open" \in StepNames
           /\ LocalOpen = Op("open", AFault("LOCAL", FALSE)) /\ AFault("LOCAL", FALSE) \in Fault
  BY FaultsTyped DEF Word, OwnSteps, StepNames, LocalOpen

LEMMA LocalOpenWhole ==
    ASSUME Typed, NEW ops, ops = <<LocalOpen>>
    PROVE  ops \in Seq(AnOp) /\ Whole(ops) /\ Known(ops, Len(Steps) + 1)
  <1>1. ops = <<Op("open", AFault("LOCAL", FALSE))>>
    BY OpenWord
  <1>2. QED
    BY <1>1, OpenWord, AloneWhole DEF Whole

LEMMA AttemptStep ==
    ASSUME SInv, NEW t \in Target, job[t].pc \in {"queued", "pausing"}, Moving(t), ~run.stopping,
           NEW attempt \in 1 .. (Retries + 1), Attempt(t, attempt),
           run' = run, sent' = sent, due' = due
    PROVE  TaskStep(t)
  <1> DEFINE d == DeviceOf[t]
  <1>1. Mode # "confirm" => sent[t] = 0
    BY NothingSent
  <1>2. /\ job[t].pc \notin Admitted /\ "done" \notin Admitted
        /\ "opening" \in Admitted /\ "opening" \in InFlight
    BY DEF Admitted, InSession, InFlight
  <1>3. \A j : DueStep(t, j)
    BY <1>2, TargetTyped DEF DueStep, Typed
  <1>4. Typed /\ gate \in AGate /\ d \in Device
    BY TargetTyped
  <1>5. PICK ops : ops = <<LocalOpen>>
    OBVIOUS
  <1>6. ops \in Seq(AnOp) /\ Known(ops, Len(Steps) + 1)
    BY <1>4, <1>5, LocalOpenWhole
  <1>7. CASE gate' = [gate EXCEPT !.broken = TRUE] /\ Recorded(t, <<LocalOpen>>, "failed")
    <2>1. GateIs(gate', gate.active, gate.cooled, gate.logins, TRUE)
      BY <1>4, <1>7, Breaks
    <2>2. GateStep(t, "done") /\ gate'.logins = gate.logins
      BY <1>2, <2>1 DEF GateIs, GateStep
    <2>3. Recorded(t, ops, "failed")
      BY <1>5, <1>7
    <2>4. QED
      BY <1>1, <1>3, <1>6, <2>2, <2>3, RecordedStep
  <1>8. ASSUME NEW kept \in {FALSE, Pool}, ~gate.broken, TurnedAway(gate, d, ~kept),
               gate' = gate, Recorded(t, <<LocalOpen>>, "skipped")
        PROVE  TaskStep(t)
    <2>1. GateStep(t, "done") /\ gate'.logins = gate.logins
      BY <1>2, <1>8, SameGateStep
    <2>2. Recorded(t, ops, "skipped")
      BY <1>5, <1>8
    <2>3. QED
      BY <1>1, <1>3, <1>6, <2>1, <2>2, RecordedStep
  <1>9. ASSUME NEW kept \in {FALSE, Pool}, ~gate.broken, ~TurnedAway(gate, d, ~kept),
               gate' = Reserved(gate, d, ~kept),
               job' = [job EXCEPT ![t] = [Idle EXCEPT !.pc = "opening", !.kept = kept,
                                                      !.attempt = attempt]],
               result' = result
        PROVE  TaskStep(t)
    <2>1. PICK j : j = [Idle EXCEPT !.pc = "opening", !.kept = kept, !.attempt = attempt]
      OBVIOUS
    <2>2. kept \in BOOLEAN
      BY <1>4, SpecTyped DEF RunSpec, Pool
    <2>3. JobIs(j, "opening", attempt, 1, <<>>, 0, FALSE, FALSE)
      BY <2>1, <2>2, SetIdle
    <2>4. /\ gate' \in AGate /\ gate'.cooled = gate.cooled /\ gate'.broken = gate.broken
          /\ gate'.active = gate.active \cup {d} /\ d \notin gate.active \cup gate.cooled
      BY <1>4, <1>9, Reserves
    <2>5. GateStep(t, "opening")
      BY <1>2, <1>9, <2>4 DEF GateStep, Enters
    <2>6. j \in AJob /\ j.pc = "opening" /\ job' = [job EXCEPT ![t] = j]
      BY <1>9, <2>1, <2>3 DEF JobIs
    <2>7. Course(j) /\ Reached(j)
      BY <2>3, <1>4, StepsTyped DEF Course, Reached, JobIs
    <2>8. Sending(j, result[t], sent[t]) /\ Winds(t, j, sent[t])
      BY <1>1 DEF Sending, Winds
    <2>9. sent' = [sent EXCEPT ![t] = sent[t]] /\ sent[t] \in Nat
      BY TargetTyped
    <2>10. QED
      BY <1>2, <1>3, <1>9, <2>5, <2>6, <2>7, <2>8, <2>9, MoveStep
  <1>10. QED
    BY <1>7, <1>8, <1>9 DEF Attempt

LEMMA BeginStep ==
    ASSUME SInv, NEW t \in Target, Begin(t)
    PROVE  TaskStep(t)
  <1>1. run.pc = "going" /\ job[t].pc = "queued" /\ UNCHANGED <<run, sent, due>> /\ Moving(t)
    BY DEF Begin, Moving
  <1>2. ~run.stopping
    <2>1. Reached(job[t])
      BY TargetTyped DEF Place
    <2>2. QED
      BY <1>1, <2>1 DEF Reached, InFlight, Admitted, InSession
  <1>3. job[t].pc \notin Admitted /\ "done" \notin Admitted
    BY <1>1 DEF Admitted, InSession
  <1>4. Mode # "confirm" => sent[t] = 0
    BY <1>1, NothingSent
  <1>5. DueStep(t, Over)
    BY <1>1, <1>3, TargetTyped DEF DueStep, Typed
  <1>6. ASSUME NEW fault \in Fault, NEW status \in {"failed", "skipped"}, gate' = gate,
               FailedBefore(t, Op("open", fault), status)
        PROVE  TaskStep(t)
    <2>1. GateStep(t, "done") /\ gate'.logins = gate.logins
      BY <1>3, <1>6, SameGateStep
    <2>2. "open" \in Word /\ "open" \in StepNames
      BY TargetTyped, OpenWord
    <2>3. QED
      BY <1>1, <1>4, <1>5, <1>6, <2>1, <2>2, FailedBeforeStep
  <1>7. LocalOpen = Op("open", AFault("LOCAL", FALSE)) /\ AFault("LOCAL", FALSE) \in Fault
        /\ AFault("UNREACHABLE", FALSE) \in Fault
    BY FaultsTyped DEF LocalOpen
  <1>8. CASE t \in run.held /\ FailedBefore(t, LocalOpen, "skipped") /\ UNCHANGED gate
    BY <1>6, <1>7, <1>8
  <1>9. CASE /\ FailedBefore(t, Op("open", AFault("UNREACHABLE", FALSE)),
                             IF Mode = "edit" THEN "skipped" ELSE "failed")
             /\ UNCHANGED gate
    BY <1>6, <1>7, <1>9
  <1>10. CASE /\ \E status \in {"failed", "skipped"} : FailedBefore(t, LocalOpen, status)
              /\ UNCHANGED gate
    BY <1>6, <1>7, <1>10
  <1>11. CASE Attempt(t, 1)
    <2>1. 1 \in 1 .. (Retries + 1)
      OBVIOUS
    <2>2. QED
      BY <1>1, <1>2, <1>11, <2>1, AttemptStep
  <1>12. QED
    BY <1>8, <1>9, <1>10, <1>11 DEF Begin

LEMMA PauseEndsStep ==
    ASSUME SInv, NEW t \in Target, PauseEnds(t)
    PROVE  TaskStep(t)
  <1>1. /\ job[t].pc = "pausing" /\ ~job[t].cancelled /\ UNCHANGED <<run, sent, due>>
        /\ Attempt(t, job[t].attempt + 1)
    BY DEF PauseEnds, Stopped
  <1>2. Moving(t)
    BY <1>1 DEF Moving, InFlight
  <1>3. job[t] \in AJob /\ Course(job[t]) /\ Reached(job[t])
    BY TargetTyped DEF Place
  <1>4. run.pc = "going"
    BY <1>2, MovingIsOn
  <1>5. ~run.stopping
    BY <1>1, <1>3, <1>4 DEF Reached
  <1>6. job[t].attempt + 1 \in 1 .. (Retries + 1)
    BY <1>1, <1>3 DEF Course, AJob
  <1>7. QED
    BY <1>1, <1>2, <1>5, <1>6, AttemptStep

LEMMA PauseCancelledStep ==
    ASSUME SInv, NEW t \in Target, PauseCancelled(t)
    PROVE  TaskStep(t)
  <1>1. /\ job[t].pc = "pausing" /\ UNCHANGED <<run, gate, sent, due>>
        /\ Recorded(t, job[t].ops, "failed")
    BY DEF PauseCancelled
  <1>2. Moving(t) /\ job[t].pc \notin Admitted /\ "done" \notin Admitted
    BY <1>1 DEF Moving, InFlight, Admitted, InSession
  <1>3. job[t].ops \in Seq(AnOp) /\ Known(job[t].ops, Len(Steps) + 1)
    BY <1>1, TargetTyped DEF Place, Course, AJob
  <1>4. Mode # "confirm" => sent[t] = 0
    BY <1>1, NothingSent
  <1>5. GateStep(t, "done") /\ gate'.logins = gate.logins
    BY <1>1, <1>2, SameGateStep
  <1>6. DueStep(t, Over)
    BY <1>1, <1>2, TargetTyped DEF DueStep, Typed
  <1>7. QED
    BY <1>1, <1>2, <1>3, <1>4, <1>5, <1>6, RecordedStep

\* A target the interrupt has not reached may go on.
LEMMA NotStopping ==
    ASSUME SInv, NEW t \in Target, job[t].pc \in InFlight, ~job[t].cancelled, ~job[t].pastCommit
    PROVE  ~run.stopping
  <1>1. run.pc = "going"
    BY RunIsOn
  <1>2. Reached(job[t])
    BY TargetTyped DEF Place
  <1>3. job[t].pc # "done"
    BY DEF InFlight, Admitted, InSession
  <1>4. QED
    BY <1>1, <1>2, <1>3 DEF Reached

\* What t owes before its cleanup, when nothing became due.
LEMMA OwesNothing ==
    ASSUME SInv, NEW t \in Target, job[t].pc \in Admitted \ {"releasing"}, due' = due
    PROVE  /\ due' \in SUBSET Device /\ due' \subseteq due \cup {DeviceOf[t]}
           /\ DeviceOf[t] \in due' /\ ~Cut => DeviceOf[t] \in gate.cooled \/ gate.broken
  BY NothingOwed, TargetTyped DEF Typed

\* What became due with op is what the verdict on ops cools down.
LEMMA OwesFault ==
    ASSUME SInv, NEW t \in Target, job[t].pc \in Admitted \ {"releasing"},
           NEW op, op.fault \in Fault \cup {NoFault}, due' = DueFor(t, op),
           NEW ops, op.fault # NoFault => Faulty(ops) # {} /\ FirstFaulty(ops) = op
    PROVE  OwesAfter(t, ops)
  <1> DEFINE c == CooledDown(op.fault, Mode = "edit", op.step = "open")
  <1>1. CASE ~c
    <2>1. due' = due
      BY <1>1 DEF DueFor
    <2>2. QED
      BY <2>1, OwesNothing DEF OwesAfter
  <1>2. CASE c
    <2>1. op.fault # NoFault
      BY <1>2 DEF CooledDown, NoFault
    <2>2. job[t].attempt \in Nat /\ Typed /\ due \in SUBSET Device /\ DeviceOf[t] \in Device
      BY TargetTyped DEF AJob, Typed
    <2>3. VerdictOn(ops, job[t].attempt).cool
      BY <1>2, <2>1, <2>2, VerdictCools
    <2>4. due' = due \cup {DeviceOf[t]}
      BY <1>2 DEF DueFor
    <2>5. QED
      BY <2>1, <2>2, <2>3, <2>4 DEF OwesAfter, Cools
  <1>3. QED
    BY <1>1, <1>2

\* An operation starts on the session.
LEMMA StartStep ==
    ASSUME SInv, NEW t \in Target, job[t].pc \in {"opening", "operating"}, ~run.stopping, run' = run,
           due' = due, NEW next \in 1 .. Len(Steps), NEW ops \in Seq(AnOp),
           InOrder(ops, next - 1), Mode # "batch" => Clean(ops, next - 1),
           Mode # "confirm" => sent[t] = 0, Start(t, next, ops, gate)
    PROVE  TaskStep(t)
  <1> DEFINE past == (Steps[next] = "commit")
             n == IF Steps[next] \in Commits THEN sent[t] + 1 ELSE sent[t]
  <1>1. job[t].pc \in Admitted \ {"releasing"} /\ Moving(t) /\ "operating" \in InFlight
        /\ "operating" \in Admitted
    BY DEF Admitted, InSession, InFlight, Moving
  <1>2. job[t] \in AJob /\ Course(job[t]) /\ Reached(job[t]) /\ job \in [Target -> AJob] /\ Typed
        /\ sent \in [Target -> Nat] /\ sent[t] \in Nat
    BY TargetTyped DEF Place, Typed
  <1>3. next \in Nat \ {0} /\ past \in BOOLEAN /\ next <= Len(Steps) /\ Len(Steps) \in Nat
    BY <1>2, StepsTyped
  <1>4. PICK j : j = [job[t] EXCEPT !.pc = "operating", !.next = next, !.ops = ops, !.pastCommit = past]
    OBVIOUS
  <1>5. /\ j \in AJob /\ j.pc = "operating" /\ j.next = next /\ j.ops = ops
        /\ j.freshAt = job[t].freshAt /\ j.cancelled = job[t].cancelled /\ j.pastCommit = past
    <2>1. PICK x \in AJob : x = job[t]
      BY <1>2
    <2>2. j = [x EXCEPT !.pc = "operating", !.next = next, !.ops = ops, !.pastCommit = past]
      BY <1>4, <2>1
    <2>3. JobIs(j, "operating", x.attempt, next, ops, x.freshAt, x.cancelled, past)
      BY <1>3, <2>2, SetStart
    <2>4. QED
      BY <2>1, <2>3 DEF JobIs
  <1>6. job' = [job EXCEPT ![t] = j] /\ gate' = gate /\ result' = result
    BY <1>2, <1>4 DEF Start
  <1>7. sent' = [sent EXCEPT ![t] = n] /\ n \in Nat
    BY <1>2 DEF Start
  <1>8. Course(j)
    BY <1>2, <1>3, <1>5 DEF Course
  <1>9. past => Mode = "edit"
    <2>1. Mode = "confirm" => Steps[next] \in {"commit_history", "confirm"}
      <3>1. SUFFICES ASSUME Mode = "confirm" PROVE Steps[next] \in {"commit_history", "confirm"}
        OBVIOUS
      <3>2. PICK s : s = Steps /\ s = <<"commit_history", "confirm">>
        BY <1>2, <3>1, OtherSteps
      <3>3. Len(s) = 2
        BY <3>2
      <3>4. next = 1 \/ next = 2
        BY <1>3, <3>2, <3>3
      <3>5. QED
        BY <3>2, <3>4
    <2>2. past => Steps[next] \in Commits
      BY DEF Commits
    <2>3. QED
      BY <1>2, <2>1, <2>2, CommitSteps
  <1>10. Reached(j)
    BY <1>1, <1>2, <1>5, <1>9 DEF Reached
  <1>11. Sending(j, result[t], n)
    <2>1. ASSUME Mode # "confirm", n # 0 PROVE n = 1 /\ Mode = "edit" /\ past
      BY <1>2, <2>1, CommitSteps
    <2>2. QED
      BY <1>5, <2>1 DEF Sending
  <1>12. GateStep(t, "operating") /\ gate'.logins = gate.logins
    BY <1>1, <1>6, SameGateStep
  <1>13. DueStep(t, j)
    BY <1>1, <1>6, OwesNothing DEF DueStep
  <1>14. Winds(t, j, n)
    BY <1>2, <1>5 DEF Winds
  <1> HIDE DEF n, past
  <1>15. QED
    BY <1>1, <1>5, <1>6, <1>7, <1>8, <1>10, <1>11, <1>12, <1>13, <1>14, MoveStep

LEMMA OpenedStep ==
    ASSUME SInv, NEW t \in Target, Opened(t)
    PROVE  TaskStep(t)
  <1>1. job[t].pc = "opening" /\ ~job[t].cancelled /\ Start(t, 1, <<>>, gate) /\ run' = run /\ due' = due
    BY DEF Opened, Stopped
  <1>2. job[t].pc \in InFlight /\ Reached(job[t])
    BY <1>1, TargetTyped DEF InFlight, Admitted, InSession, Place
  <1>3. ~run.stopping
    BY <1>1, <1>2, NotStopping DEF Reached
  <1>4. Mode # "confirm" => sent[t] = 0
    BY <1>1, NothingSent
  <1>5. 1 \in 1 .. Len(Steps) /\ <<>> \in Seq(AnOp)
    BY StepsTyped, TargetTyped, EmptySeq
  <1>6. InOrder(<<>>, 1 - 1) /\ Clean(<<>>, 1 - 1)
    BY DEF InOrder, Clean
  <1>7. QED
    BY <1>1, <1>3, <1>4, <1>5, <1>6, StartStep

LEMMA OpenEndsStep ==
    ASSUME SInv, NEW t \in Target, NEW fault \in Fault, OpenEnds(t, fault)
    PROVE  TaskStep(t)
  <1>1. PICK ops : ops = <<Op("open", fault)>>
    OBVIOUS
  <1>2. /\ job[t].pc = "opening" /\ AttemptOver(t, job[t].attempt, ops, gate)
        /\ due' = DueFor(t, Op("open", fault)) /\ run' = run /\ sent' = sent
    BY <1>1 DEF OpenEnds
  <1>3. job[t].pc \in Admitted \ {"releasing"}
    BY <1>2 DEF Admitted
  <1>4. /\ ops \in Seq(AnOp) /\ Whole(ops) /\ Faulty(ops) # {} /\ FirstFaulty(ops) = Op("open", fault)
        /\ Op("open", fault).fault \in Fault
    <2>1. ops \in Seq(AnOp) /\ Whole(ops) /\ Faulty(ops) = {1} /\ FirstFaulty(ops) = ops[1]
          /\ ops[1] = Op("open", fault)
      <3>1. Typed
        BY TargetTyped
      <3>2. "open" \in Word /\ "open" \in StepNames
        BY <3>1, OpenWord
      <3>3. QED
        BY <1>1, <3>1, <3>2, AloneWhole
    <2>2. Op("open", fault).fault = fault
      BY DEF Op
    <2>3. QED
      BY <2>1, <2>2
  <1>5. OwesAfter(t, ops)
    <2>1. PICK op : op = Op("open", fault)
      OBVIOUS
    <2>2. QED
      BY <1>2, <1>3, <1>4, <2>1, OwesFault
  <1>6. Mode # "confirm" => sent[t] = 0
    BY <1>2, NothingSent
  <1>7. QED
    BY <1>2, <1>3, <1>4, <1>5, <1>6, AttemptOverStep

LEMMA OpenCancelledStep ==
    ASSUME SInv, NEW t \in Target, OpenCancelled(t)
    PROVE  TaskStep(t)
  <1>1. PICK ops : ops = <<LocalOpen>>
    OBVIOUS
  <1>2. /\ job[t].pc = "opening" /\ AttemptOver(t, job[t].attempt, ops, gate)
        /\ due' = due /\ run' = run /\ sent' = sent
    BY <1>1 DEF OpenCancelled
  <1>3. job[t].pc \in Admitted \ {"releasing"}
    BY <1>2 DEF Admitted
  <1>4. ops \in Seq(AnOp) /\ Whole(ops)
    BY <1>1, TargetTyped, LocalOpenWhole
  <1>5. OwesAfter(t, ops)
    BY <1>2, <1>3, OwesNothing DEF OwesAfter
  <1>6. Mode # "confirm" => sent[t] = 0
    BY <1>2, NothingSent
  <1>7. QED
    BY <1>2, <1>3, <1>4, <1>5, <1>6, AttemptOverStep

LEMMA OpenBreaksStep ==
    ASSUME SInv, NEW t \in Target, OpenBreaks(t)
    PROVE  TaskStep(t)
  BY BugStep DEF OpenBreaks, Admitted

LEMMA NotReusedStep ==
    ASSUME SInv, NEW t \in Target, NotReused(t)
    PROVE  TaskStep(t)
  <1> DEFINE d == DeviceOf[t]
  <1>1. job[t].pc = "opening" /\ ~job[t].cancelled /\ run' = run /\ sent' = sent /\ due' = due
    BY DEF NotReused, Stopped
  <1>2. /\ job[t].pc \in Admitted \ {"releasing"} /\ job[t].pc \in InFlight /\ Moving(t)
        /\ "done" \notin Admitted /\ "opening" \in Admitted
    BY <1>1 DEF Admitted, InSession, InFlight, Moving
  <1>3. job[t] \in AJob /\ Course(job[t]) /\ Reached(job[t]) /\ job \in [Target -> AJob] /\ Typed
        /\ gate \in AGate /\ d \in Device /\ sent[t] \in Nat /\ sent' = [sent EXCEPT ![t] = sent[t]]
    BY <1>1, TargetTyped DEF Place, Typed
  <1>4. ~run.stopping
    BY <1>1, <1>2, <1>3, NotStopping DEF Reached
  <1>5. Mode # "confirm" => sent[t] = 0
    BY <1>1, NothingSent
  <1>6. CASE gate.broken /\ Bug(t, gate)
    BY <1>1, <1>2, <1>6, BugStep
  <1>7. CASE gate' = Settle(gate, d, FALSE) /\ Recorded(t, <<LocalOpen>>, "skipped")
    <2>1. PICK ops : ops = <<LocalOpen>>
      OBVIOUS
    <2>2. ops \in Seq(AnOp) /\ Known(ops, Len(Steps) + 1) /\ Recorded(t, ops, "skipped")
      BY <1>3, <1>7, <2>1, LocalOpenWhole
    <2>3. GateStep(t, "done") /\ gate'.logins = gate.logins
      BY <1>2, <1>7, SettleStep
    <2>4. DueStep(t, Over)
      BY <1>1, <1>2, <2>3, OwesNothing DEF DueStep, GateStep
    <2>5. QED
      BY <1>1, <1>2, <1>5, <2>2, <2>3, <2>4, RecordedStep
  <1>8. CASE /\ ~Full(gate, d) /\ gate' = LoginCounted(gate, d)
             /\ job' = [job EXCEPT ![t].kept = FALSE] /\ result' = result
    <2>1. /\ gate' \in AGate /\ gate'.active = gate.active /\ gate'.cooled = gate.cooled
          /\ gate'.broken = gate.broken
      BY <1>3, <1>8, Counts
    <2>2. GateStep(t, "opening")
      BY <1>1, <1>2, <2>1 DEF GateStep
    <2>3. PICK j : j = [job[t] EXCEPT !.kept = FALSE]
      OBVIOUS
    <2>4. /\ j \in AJob /\ j.pc = "opening" /\ j.next = job[t].next /\ j.ops = job[t].ops
          /\ j.freshAt = job[t].freshAt /\ j.cancelled = job[t].cancelled
          /\ j.pastCommit = job[t].pastCommit
      <3>1. PICK x \in AJob : x = job[t]
        BY <1>3
      <3>2. j = [x EXCEPT !.kept = FALSE]
        BY <2>3, <3>1
      <3>3. JobIs(j, x.pc, x.attempt, x.next, x.ops, x.freshAt, x.cancelled, x.pastCommit)
        BY <3>2, SetKept
      <3>4. QED
        BY <1>1, <3>1, <3>3 DEF JobIs
    <2>5. job' = [job EXCEPT ![t] = j]
      BY <1>3, <1>8, <2>3
    <2>6. Course(j) /\ Reached(j)
      BY <1>1, <1>3, <2>4 DEF Course, Reached
    <2>7. Sending(j, result[t], sent[t]) /\ Winds(t, j, sent[t])
      BY <1>4, <1>5 DEF Sending, Winds
    <2>8. DueStep(t, j)
      BY <1>1, <1>2, <2>1, OwesNothing DEF DueStep
    <2>9. j.pc \in InFlight
      BY <1>1, <1>2, <2>4
    <2>10. QED
      BY <1>1, <1>2, <1>3, <1>8, <2>2, <2>4, <2>5, <2>6, <2>7, <2>8, <2>9, MoveStep
  <1>9. QED
    BY <1>6, <1>7, <1>8 DEF NotReused

\* What holds of a target in one of its operations.
LEMMA Operating ==
    ASSUME SInv, NEW t \in Target, job[t].pc = "operating"
    PROVE  /\ Typed /\ job[t].pc \in Admitted \ {"releasing"} /\ job[t].pc \in InFlight /\ Moving(t)
           /\ job[t] \in AJob /\ job[t].ops \in Seq(AnOp) /\ job[t].next \in 1 .. Len(Steps)
           /\ Len(Steps) \in Nat
           /\ InOrder(job[t].ops, job[t].next - 1)
           /\ Mode # "batch" => Clean(job[t].ops, job[t].next - 1)
           /\ Mode # "confirm" /\ sent[t] # 0 => Mode = "edit" /\ job[t].pastCommit
           /\ job[t].pastCommit => /\ ~job[t].cancelled /\ Mode = "edit" /\ StepOf(t) = "commit"
                                   /\ job[t].next = Len(Steps)
  <1>1. job[t] \in AJob /\ Course(job[t]) /\ Reached(job[t]) /\ Typed /\ Len(Steps) \in Nat
        /\ Sending(job[t], result[t], sent[t])
    BY TargetTyped, StepsTyped DEF Place
  <1>2. job[t].next \in 1 .. Len(Steps)
    BY <1>1 DEF AJob, Course
  <1>3. job[t].pastCommit => /\ ~job[t].cancelled /\ Mode = "edit" /\ StepOf(t) = "commit"
    BY <1>1 DEF Reached, StepOf
  <1>4. job[t].pastCommit => job[t].next = Len(Steps)
    BY <1>1, <1>2, <1>3, EditSteps DEF StepOf
  <1>5. Mode # "confirm" /\ sent[t] # 0 => Mode = "edit" /\ job[t].pastCommit
    BY <1>1 DEF Sending
  <1>6. job[t].pc \in Admitted \ {"releasing"} /\ job[t].pc \in InFlight /\ Moving(t)
    BY DEF Admitted, InSession, InFlight, Moving
  <1>7. job[t].ops \in Seq(AnOp)
    BY <1>1 DEF AJob
  <1>8. QED
    BY <1>1, <1>2, <1>3, <1>4, <1>5, <1>6, <1>7 DEF Course

\* A batch meets nothing the table cools down; anything else stops at its first
\* fault, which the verdict is on.
LEMMA ReturnOwes ==
    ASSUME SInv, NEW t \in Target, job[t].pc = "operating",
           NEW fault \in Fault \cup {NoFault}, Mode = "batch" => fault \in Certain \cup {NoFault},
           due' = DueFor(t, Op(StepOf(t), fault)),
           NEW ops, ops = Append(job[t].ops, Op(StepOf(t), fault))
    PROVE  /\ OwesAfter(t, ops)
           /\ Mode = "batch" \/ fault = NoFault => due' = due
  <1>1. PICK op : op = Op(StepOf(t), fault)
    OBVIOUS
  <1>2. op.fault = fault /\ due' = DueFor(t, op)
    BY <1>1 DEF Op
  <1>3. ASSUME Mode = "batch" \/ fault = NoFault PROVE due' = due
    <2>1. ~CooledDown(op.fault, Mode = "edit", op.step = "open")
      BY <1>2, <1>3 DEF CooledDown, Certain, NoFault
    <2>2. QED
      BY <1>2, <2>1 DEF DueFor
  <1>4. CASE Mode = "batch" \/ fault = NoFault
    BY <1>3, <1>4, Operating, OwesNothing DEF OwesAfter
  <1>5. CASE Mode # "batch" /\ fault # NoFault
    <2>1. PICK n \in 1 .. Len(Steps) : n = job[t].next
      BY Operating
    <2>2. /\ Typed /\ job[t].ops \in Seq(AnOp) /\ InOrder(job[t].ops, n - 1) /\ Clean(job[t].ops, n - 1)
          /\ op = Op(Steps[n], fault) /\ ops = Append(job[t].ops, Op(Steps[n], fault))
          /\ job[t].pc \in Admitted \ {"releasing"}
      BY <1>1, <1>5, <2>1, Operating DEF StepOf
    <2>3. Faulty(ops) = {n} /\ FirstFaulty(ops) = ops[n]
      <3>1. IsFirstFault(ops, n, fault)
        BY <1>5, <2>2, RanClean
      <3>2. QED
        BY <1>5, <3>1 DEF IsFirstFault
    <2>4. Len(job[t].ops) = n - 1 /\ Op(Steps[n], fault) \in AnOp /\ n \in Nat
      BY <2>2, OpTyped, StepsTyped DEF InOrder
    <2>5. ops[n] = op
      <3>1. Append(job[t].ops, op)[Len(job[t].ops) + 1] = op
        BY <2>2, <2>4, Appended
      <3>2. QED
        BY <2>2, <2>4, <3>1
    <2>6. Faulty(ops) # {} /\ FirstFaulty(ops) = op
      BY <2>3, <2>5
    <2>7. QED
      BY <1>2, <1>5, <2>2, <2>6, OwesFault
  <1>6. QED
    BY <1>3, <1>4, <1>5

\* A batch's session timed out: a fresh one for the rest of it.
LEMMA FreshStep ==
    ASSUME SInv, NEW t \in Target, job[t].pc = "operating", ~job[t].cancelled, Mode = "batch",
           job[t].next # Len(Steps), run' = run, sent' = sent, due' = due,
           NEW fault \in Fault, NEW ops, ops = Append(job[t].ops, Op(StepOf(t), fault)), Fresh(t, ops)
    PROVE  TaskStep(t)
  <1> DEFINE d == DeviceOf[t]
  <1>1. /\ Typed /\ job[t].pc \in Admitted \ {"releasing"} /\ job[t].pc \in InFlight /\ Moving(t)
        /\ job[t].ops \in Seq(AnOp) /\ Len(Steps) \in Nat
        /\ sent[t] = 0 /\ ~job[t].pastCommit
    BY Operating
  <1>2. PICK n \in 1 .. Len(Steps) : n = job[t].next /\ InOrder(job[t].ops, n - 1)
                                     /\ ops = Append(job[t].ops, Op(Steps[n], fault))
    BY Operating DEF StepOf
  <1>3. n < Len(Steps)
    BY <1>1, <1>2
  <1>4. ops \in Seq(AnOp) /\ InOrder(ops, n) /\ Known(ops, Len(Steps))
    <2>1. IsRan(ops, job[t].ops, n, fault)
      BY <1>1, <1>2, Ran
    <2>2. QED
      BY <2>1 DEF IsRan
  <1>5. ~run.stopping
    BY <1>1, NotStopping
  <1>6. CASE gate.broken /\ Bug(t, gate)
    BY <1>1, <1>6, BugStep
  <1>7. CASE OperationsOver(t, Append(ops, LocalOpen), gate)
    <2>1. PICK more : more = Append(ops, Op("open", AFault("LOCAL", FALSE)))
      OBVIOUS
    <2>2. OperationsOver(t, more, gate)
      BY <1>1, <1>7, <2>1, OpenWord
    <2>3. more \in Seq(AnOp) /\ Whole(more)
      BY <1>1, <1>4, <2>1, OpenWord, CutWhole
    <2>4. OwesAfter(t, more)
      BY <1>1, OwesNothing DEF OwesAfter
    <2>5. QED
      BY <1>1, <2>2, <2>3, <2>4, OperationsOverStep
  <1>8. CASE /\ ~Full(gate, d) /\ gate' = LoginCounted(gate, d) /\ result' = result
             /\ job' = [job EXCEPT ![t].pc = "fresh", ![t].ops = ops]
    <2>1. job[t] \in AJob /\ Course(job[t]) /\ Reached(job[t]) /\ job \in [Target -> AJob]
          /\ gate \in AGate /\ d \in Device /\ sent[t] \in Nat /\ sent' = [sent EXCEPT ![t] = sent[t]]
          /\ "fresh" \in InFlight /\ "fresh" \in Admitted
      BY TargetTyped DEF Place, Typed, Admitted, InSession, InFlight
    <2>2. /\ gate' \in AGate /\ gate'.active = gate.active /\ gate'.cooled = gate.cooled
          /\ gate'.broken = gate.broken
      BY <1>8, <2>1, Counts
    <2>3. GateStep(t, "fresh")
      BY <1>1, <2>1, <2>2 DEF GateStep
    <2>4. PICK j : j = [job[t] EXCEPT !.pc = "fresh", !.ops = ops]
      OBVIOUS
    <2>5. /\ j \in AJob /\ j.pc = "fresh" /\ j.next = n /\ j.ops = ops /\ j.freshAt = job[t].freshAt
          /\ j.cancelled = job[t].cancelled /\ j.pastCommit = job[t].pastCommit
      <3>1. PICK x \in AJob : x = job[t]
        BY <2>1
      <3>2. j = [x EXCEPT !.pc = "fresh", !.ops = ops]
        BY <2>4, <3>1
      <3>3. JobIs(j, "fresh", x.attempt, x.next, ops, x.freshAt, x.cancelled, x.pastCommit)
        BY <1>4, <2>1, <3>2, SetPhase
      <3>4. QED
        BY <1>2, <3>1, <3>3 DEF JobIs
    <2>6. job' = [job EXCEPT ![t] = j]
      BY <1>8, <2>1, <2>4
    <2>7. Course(j)
      BY <1>3, <1>4, <2>1, <2>5 DEF Course
    <2>8. Reached(j)
      BY <1>1, <1>5, <2>1, <2>5 DEF Reached
    <2>9. Sending(j, result[t], sent[t]) /\ Winds(t, j, sent[t])
      BY <1>1, <1>5 DEF Sending, Winds
    <2>10. DueStep(t, j)
      BY <1>1, <2>2, OwesNothing DEF DueStep
    <2>11. QED
      BY <1>1, <1>8, <2>1, <2>3, <2>5, <2>6, <2>7, <2>8, <2>9, <2>10, MoveStep
  <1>9. QED
    BY <1>6, <1>7, <1>8 DEF Fresh

LEMMA ReturnedStep ==
    ASSUME SInv, NEW t \in Target, job[t].pc = "operating", ~job[t].cancelled,
           NEW fault \in Fault \cup {NoFault}, Mode = "batch" => fault \in Certain \cup {NoFault},
           NEW empty \in BOOLEAN, empty => fault = NoFault /\ StepOf(t) \in {"diff", "commit_history"},
           Returned(t, fault, empty)
    PROVE  TaskStep(t)
  <1>1. /\ Typed /\ job[t].pc \in Admitted \ {"releasing"} /\ job[t].pc \in InFlight /\ Moving(t)
        /\ job[t].ops \in Seq(AnOp) /\ Len(Steps) \in Nat
    BY Operating
  <1>2. PICK n \in 1 .. Len(Steps), ops \in {Append(job[t].ops, Op(StepOf(t), fault))} :
            /\ n = job[t].next /\ InOrder(job[t].ops, n - 1)
            /\ Mode # "batch" => Clean(job[t].ops, n - 1)
            /\ ops = Append(job[t].ops, Op(Steps[n], fault))
            /\ ops = Append(job[t].ops, Op(StepOf(t), fault))
            /\ StepOf(t) = Steps[n]
    BY Operating DEF StepOf
  <1>3. due' = DueFor(t, Op(StepOf(t), fault)) /\ run' = run
    BY DEF Returned
  <1>4. OwesAfter(t, ops) /\ (Mode = "batch" \/ fault = NoFault => due' = due)
    BY <1>2, <1>3, ReturnOwes
  <1>5. ops \in Seq(AnOp) /\ InOrder(ops, n) /\ Known(ops, Len(Steps))
    <2>1. IsRan(ops, job[t].ops, n, fault)
      BY <1>1, <1>2, Ran
    <2>2. QED
      BY <2>1 DEF IsRan
  <1>6. Mode # "confirm" /\ sent[t] # 0 => n = Len(Steps) /\ Committed(ops)
    <2>1. SUFFICES ASSUME Mode # "confirm", sent[t] # 0 PROVE n = Len(Steps) /\ Committed(ops)
      OBVIOUS
    <2>2. Mode = "edit" /\ StepOf(t) = "commit" /\ n = Len(Steps)
      BY <1>2, <2>1, Operating
    <2>3. QED
      <3>1. IsFirstFault(ops, n, fault)
        BY <1>1, <1>2, <2>2, RanClean
      <3>2. QED
        BY <1>2, <2>2, <3>1 DEF IsFirstFault
  <1>7. CASE fault.kind = "TIMEOUT" /\ Mode = "batch" /\ n # Len(Steps)
    <2>1. Fresh(t, ops) /\ sent' = sent
      BY <1>2, <1>7 DEF Returned
    <2>2. fault \in Fault
      BY <1>7 DEF NoFault
    <2>3. QED
      BY <1>2, <1>3, <1>4, <1>7, <2>1, <2>2, FreshStep
  <1>8. CASE /\ n = Len(Steps) \/ ~GoesOn(fault)
             /\ ~(fault.kind = "TIMEOUT" /\ Mode = "batch" /\ n # Len(Steps))
    <2>1. OperationsOver(t, ops, gate) /\ sent' = sent
      BY <1>2, <1>8 DEF Returned
    <2>2. Whole(ops)
      BY <1>1, <1>2, <1>8, RanWhole DEF GoesOn
    <2>3. QED
      BY <1>3, <1>4, <1>5, <1>6, <2>1, <2>2, OperationsOverStep
  <1>9. CASE n # Len(Steps) /\ GoesOn(fault) /\ empty /\ ~(fault.kind = "TIMEOUT" /\ Mode = "batch")
    <2>1. fault = NoFault /\ due' = due
      BY <1>4, <1>9
    <2>2. CASE Mode = "confirm"
      <3>1. PICK more : more = Append(ops, Op("confirm", AFault("REFUSED", TRUE)))
        OBVIOUS
      <3>2. OperationsOver(t, more, gate) /\ sent' = sent
        BY <1>2, <1>9, <2>2, <3>1 DEF Returned
      <3>3. "confirm" \in Word /\ "confirm" \in StepNames
        BY <2>2 DEF Word, OwnSteps, StepNames
      <3>4. more \in Seq(AnOp) /\ Whole(more)
        BY <1>1, <1>5, <3>1, <3>3, FaultsTyped, CutWhole
      <3>5. OwesAfter(t, more)
        BY <1>1, <2>1, OwesNothing DEF OwesAfter
      <3>6. QED
        BY <1>3, <2>2, <3>2, <3>4, <3>5, OperationsOverStep
    <2>3. CASE Mode # "confirm"
      <3>1. OperationsOver(t, ops, gate) /\ sent' = sent
        BY <1>2, <1>9, <2>3 DEF Returned
      <3>2. Steps[n] = "diff"
        <4>1. Steps[n] \in {"diff", "commit_history"}
          BY <1>2, <1>9
        <4>2. CASE Mode = "edit"
          BY <1>1, <4>1, <4>2, EditSteps
        <4>3. CASE Mode = "batch"
          BY <1>1, <4>1, <4>3, BatchSteps DEF OwnSteps
        <4>4. CASE Mode \in {"config", "commit_status"}
          <5>1. PICK s : s = Steps /\ (s = <<"config">> \/ s = <<"commit_history">>)
            BY <1>1, <4>4, OtherSteps
          <5>2. Len(s) = 1
            BY <5>1
          <5>3. QED
            BY <1>9, <5>1, <5>2
        <4>5. QED
          BY <1>1, <2>3, <4>2, <4>3, <4>4, SpecTyped DEF Modes
      <3>3. Whole(ops)
        BY <1>1, <1>2, <3>2, RanWhole
      <3>4. QED
        BY <1>3, <1>4, <1>5, <1>6, <3>1, <3>3, OperationsOverStep
    <2>4. QED
      BY <2>2, <2>3
  <1>10. CASE n # Len(Steps) /\ GoesOn(fault) /\ ~empty /\ ~(fault.kind = "TIMEOUT" /\ Mode = "batch")
    <2>1. Start(t, n + 1, ops, gate)
      BY <1>2, <1>10 DEF Returned
    <2>2. n + 1 \in 1 .. Len(Steps) /\ (n + 1) - 1 = n
      BY <1>1, <1>10
    <2>3. Mode # "batch" => Clean(ops, n)
      BY <1>1, <1>2, <1>10, RanClean DEF GoesOn, IsFirstFault
    <2>4. due' = due
      BY <1>4, <1>10 DEF GoesOn
    <2>5. Mode # "confirm" => sent[t] = 0
      BY <1>6, <1>10
    <2>6. ~run.stopping
      <3>1. ~job[t].pastCommit
        BY <1>2, <1>10, Operating
      <3>2. QED
        BY <1>1, <3>1, NotStopping
    <2>7. QED
      BY <1>3, <1>5, <2>1, <2>2, <2>3, <2>4, <2>5, <2>6, StartStep
  <1>11. QED
    BY <1>7, <1>8, <1>9, <1>10

\* Whichever faults an operation may end in, a batch's are certain.
LEMMA OperationReturnsStep ==
    ASSUME SInv, NEW t \in Target, OperationReturns(t)
    PROVE  TaskStep(t)
  <1>1. job[t].pc = "operating" /\ ~job[t].cancelled
    BY DEF OperationReturns, Stopped
  <1>2. PICK fault \in Faults(t) \cup {NoFault}, empty \in BOOLEAN :
            /\ empty => fault = NoFault /\ StepOf(t) \in {"diff", "commit_history"}
            /\ Returned(t, fault, empty)
    BY DEF OperationReturns
  <1>3. Typed /\ job[t].next \in 1 .. Len(Steps)
    BY <1>1, Operating
  <1>4. OpFaults[Mode] \subseteq Certain /\ Certain \subseteq Fault /\ CommitFaults \subseteq Fault
    BY <1>3, SpecTyped, FaultsTyped
  <1>5. Mode = "batch" => StepOf(t) \notin Commits
    BY <1>3, BatchSteps DEF StepOf, Commits, OwnSteps
  <1>6. fault \in Fault \cup {NoFault} /\ (Mode = "batch" => fault \in Certain \cup {NoFault})
    BY <1>4, <1>5 DEF Faults
  <1>7. QED
    BY <1>1, <1>2, <1>6, ReturnedStep

LEMMA OperationOverBudgetStep ==
    ASSUME SInv, NEW t \in Target, OperationOverBudget(t)
    PROVE  TaskStep(t)
  <1>1. job[t].pc = "operating" /\ ~job[t].cancelled /\ Returned(t, TimedOut, FALSE)
    BY DEF OperationOverBudget, Stopped
  <1>2. TimedOut \in Fault /\ TimedOut \in Certain
    BY FaultsTyped
  <1>3. QED
    BY <1>1, <1>2, ReturnedStep

LEMMA OperationBreaksStep ==
    ASSUME SInv, NEW t \in Target, OperationBreaks(t)
    PROVE  TaskStep(t)
  <1>1. job[t].pc = "operating" /\ ~job[t].cancelled /\ run' = run /\ sent' = sent /\ due' = due
    BY DEF OperationBreaks, Stopped
  <1>2. Typed /\ job[t].pc \in Admitted \ {"releasing"} /\ job[t].pc \in InFlight /\ Moving(t)
    BY <1>1, Operating
  <1>3. CASE Bug(t, gate)
    BY <1>1, <1>2, <1>3, BugStep
  <1>4. CASE /\ Pool /\ gate' = gate /\ result' = result
             /\ job' = [job EXCEPT ![t].pc = "releasing", ![t].ops = Broken]
    <2>1. job[t] \in AJob /\ Course(job[t]) /\ Reached(job[t]) /\ Sending(job[t], result[t], sent[t])
          /\ job \in [Target -> AJob] /\ sent[t] \in Nat /\ sent' = [sent EXCEPT ![t] = sent[t]]
          /\ Broken \in Seq(AnOp) /\ "releasing" \in InFlight /\ "releasing" \in Admitted
      BY <1>1, TargetTyped, BrokenTyped DEF Place, Typed, InFlight, Admitted, InSession
    <2>2. PICK j : j = [job[t] EXCEPT !.pc = "releasing", !.ops = Broken]
      OBVIOUS
    <2>3. /\ j \in AJob /\ j.pc = "releasing" /\ j.ops = Broken
          /\ j.next = job[t].next /\ j.freshAt = job[t].freshAt
          /\ j.cancelled = job[t].cancelled /\ j.pastCommit = job[t].pastCommit
      <3>1. PICK x \in AJob : x = job[t]
        BY <2>1
      <3>2. j = [x EXCEPT !.pc = "releasing", !.ops = Broken]
        BY <2>2, <3>1
      <3>3. JobIs(j, "releasing", x.attempt, x.next, Broken, x.freshAt, x.cancelled, x.pastCommit)
        BY <2>1, <3>2, SetPhase
      <3>4. QED
        BY <3>1, <3>3 DEF JobIs
    <2>4. job' = [job EXCEPT ![t] = j]
      BY <1>4, <2>1, <2>2
    <2>5. Course(j) /\ Reached(j) /\ Sending(j, result[t], sent[t])
      <3>1. Course(j)
        BY <1>4, <2>1, <2>3 DEF Course
      <3>2. Reached(j)
        BY <1>1, <2>1, <2>3 DEF Reached
      <3>3. Sending(j, result[t], sent[t])
        BY <1>1, <2>1, <2>3 DEF Sending
      <3>4. QED
        BY <3>1, <3>2, <3>3
    <2>6. GateStep(t, "releasing") /\ gate'.logins = gate.logins
      BY <1>2, <1>4, <2>1, SameGateStep
    <2>7. DueStep(t, j)
      BY <1>1, <1>2, <1>4, OwesNothing DEF DueStep
    <2>8. Winds(t, j, sent[t])
      BY <1>1, <2>6 DEF Winds
    <2>9. QED
      BY <1>1, <1>2, <1>4, <2>1, <2>3, <2>4, <2>5, <2>6, <2>7, <2>8, MoveStep
  <1>5. QED
    BY <1>3, <1>4 DEF OperationBreaks

\* The step an interrupt cuts is one of the run's.
LEMMA CutStepTyped ==
    ASSUME SInv, NEW t \in Target
    PROVE  CutStep(t) \in Word /\ CutStep(t) \in StepNames
  <1>1. Typed /\ job[t].next \in 1 .. Len(Steps)
    BY TargetTyped, StepsTyped DEF Place, Course, AJob
  <1>2. QED
    BY <1>1, StepsTyped, SpecTyped DEF CutStep, StepOf, Word

LEMMA OperationCancelledStep ==
    ASSUME SInv, NEW t \in Target, OperationCancelled(t)
    PROVE  TaskStep(t)
  <1>1. /\ job[t].pc \in {"operating", "fresh"} /\ job[t].cancelled
        /\ gate' = Settle(gate, DeviceOf[t], FALSE) /\ run' = run /\ sent' = sent /\ due' = due
    BY DEF OperationCancelled, Stopped
  <1>2. job[t].pc \in Admitted \ {"releasing"} /\ Moving(t) /\ "done" \notin Admitted
    BY <1>1 DEF Admitted, InSession, InFlight, Moving
  <1>3. Mode # "confirm" => sent[t] = 0
    <2>1. Reached(job[t])
      BY TargetTyped DEF Place
    <2>2. ~job[t].pastCommit
      BY <1>1, <2>1 DEF Reached
    <2>3. QED
      BY <1>1, <2>2, NothingSent
  <1>4. GateStep(t, "done") /\ gate'.logins = gate.logins
    BY <1>1, <1>2, SettleStep
  <1>5. DueStep(t, Over)
    BY <1>1, <1>2, <1>4, OwesNothing DEF DueStep, GateStep
  <1>6. PICK step, fault : step = (IF job[t].pc = "fresh" THEN "open" ELSE CutStep(t))
                           /\ fault = (IF job[t].pc = "fresh" THEN AFault("LOCAL", FALSE)
                                       ELSE AFault("LOCAL", TRUE))
    OBVIOUS
  <1>7. FailedBefore(t, Op(step, fault), "skipped")
    BY <1>6 DEF OperationCancelled, LocalOpen
  <1>8. step \in Word /\ step \in StepNames /\ fault \in Fault
    BY <1>6, CutStepTyped, FaultsTyped, OpenWord, TargetTyped
  <1>9. QED
    BY <1>1, <1>2, <1>3, <1>4, <1>5, <1>7, <1>8, FailedBeforeStep

\* What holds of a target whose fresh session opens.
LEMMA OpeningFresh ==
    ASSUME SInv, NEW t \in Target, job[t].pc = "fresh", ~job[t].cancelled
    PROVE  /\ Typed /\ job[t].pc \in Admitted \ {"releasing"} /\ Moving(t)
           /\ job[t].ops \in Seq(AnOp) /\ Known(job[t].ops, Len(Steps))
           /\ Mode = "batch" /\ sent[t] = 0 /\ ~run.stopping
  <1>1. job[t] \in AJob /\ Course(job[t]) /\ Reached(job[t]) /\ Typed /\ Len(Steps) \in Nat
    BY TargetTyped, StepsTyped DEF Place
  <1>2. /\ job[t].pc \in Admitted \ {"releasing"} /\ job[t].pc \in InFlight /\ Moving(t)
    BY DEF Admitted, InSession, InFlight, Moving
  <1>3. Mode = "batch" /\ job[t].next < Len(Steps) /\ InOrder(job[t].ops, job[t].next)
        /\ job[t].ops \in Seq(AnOp) /\ job[t].next \in Nat
    BY <1>1 DEF Course, AJob
  <1>4. Known(job[t].ops, Len(Steps))
    <2>1. PICK ops \in Seq(AnOp), n \in Nat : ops = job[t].ops /\ n = job[t].next
      BY <1>3
    <2>2. DOMAIN ops = 1 .. n /\ Len(ops) = n /\ n < Len(Steps) /\ \A i \in 1 .. n : ops[i].step = Steps[i]
      BY <1>3, <2>1, LenProperties DEF InOrder
    <2>3. \A i \in 1 .. n : i \in 1 .. Len(Steps)
      BY <1>1, <2>2
    <2>4. \A i \in 1 .. n : ops[i].step \in StepNames
      BY <1>1, <2>2, <2>3, StepsTyped
    <2>5. QED
      BY <1>1, <2>1, <2>2, <2>4 DEF Known
  <1>5. sent[t] = 0
    BY <1>3, NothingSent
  <1>6. ~run.stopping
    BY <1>1, <1>2, NotStopping DEF Reached
  <1>7. QED
    BY <1>1, <1>2, <1>3, <1>4, <1>5, <1>6

LEMMA FreshOpenedStep ==
    ASSUME SInv, NEW t \in Target, FreshOpened(t)
    PROVE  TaskStep(t)
  <1>1. /\ job[t].pc = "fresh" /\ ~job[t].cancelled /\ UNCHANGED <<run, gate, result, sent, due>>
        /\ job' = [job EXCEPT ![t].pc = "operating", ![t].next = @ + 1, ![t].freshAt = Len(job[t].ops)]
    BY DEF FreshOpened, Stopped
  <1>2. /\ Typed /\ job[t].pc \in Admitted \ {"releasing"} /\ Moving(t) /\ job[t].ops \in Seq(AnOp)
        /\ Mode = "batch" /\ sent[t] = 0 /\ ~run.stopping
    BY <1>1, OpeningFresh
  <1>3. job[t] \in AJob /\ Course(job[t]) /\ Reached(job[t]) /\ job \in [Target -> AJob]
        /\ sent' = [sent EXCEPT ![t] = sent[t]] /\ sent[t] \in Nat /\ Len(Steps) \in Nat
        /\ "operating" \in InFlight /\ "operating" \in Admitted
    BY <1>1, TargetTyped, StepsTyped DEF Place, Typed, InFlight, Admitted, InSession
  <1>4. PICK n \in Nat : n = job[t].next /\ n < Len(Steps) /\ InOrder(job[t].ops, n)
    BY <1>1, <1>3 DEF Course, AJob
  <1>5. Len(job[t].ops) = n /\ n + 1 \in Nat \ {0} /\ (n + 1) - 1 = n /\ n + 1 <= Len(Steps)
    BY <1>3, <1>4 DEF InOrder
  <1>6. PICK j : j = [job[t] EXCEPT !.pc = "operating", !.next = n + 1, !.freshAt = n]
    OBVIOUS
  <1>7. /\ j \in AJob /\ j.pc = "operating" /\ j.next = n + 1 /\ j.ops = job[t].ops /\ j.freshAt = n
        /\ j.cancelled = job[t].cancelled /\ j.pastCommit = job[t].pastCommit
    <2>1. PICK x \in AJob : x = job[t]
      BY <1>3
    <2>2. j = [x EXCEPT !.pc = "operating", !.next = n + 1, !.freshAt = n]
      BY <1>6, <2>1
    <2>3. JobIs(j, "operating", x.attempt, n + 1, x.ops, n, x.cancelled, x.pastCommit)
      BY <1>4, <1>5, <2>2, SetFreshAt
    <2>4. QED
      BY <2>1, <2>3 DEF JobIs
  <1>8. job' = [job EXCEPT ![t] = j]
    BY <1>1, <1>3, <1>4, <1>5, <1>6
  <1>9. Course(j)
    BY <1>2, <1>3, <1>4, <1>5, <1>7 DEF Course
  <1>10. Reached(j)
    BY <1>1, <1>2, <1>3, <1>7 DEF Reached
  <1>11. Sending(j, result[t], sent[t]) /\ Winds(t, j, sent[t])
    BY <1>2 DEF Sending, Winds
  <1>12. GateStep(t, "operating")
    BY <1>1, <1>2, <1>3, SameGateStep
  <1>13. DueStep(t, j)
    BY <1>1, <1>2, OwesNothing DEF DueStep
  <1>14. QED
    <2>1. /\ run' = run /\ result' = result /\ job' = [job EXCEPT ![t] = j]
          /\ j \in AJob /\ j.pc \in InFlight /\ GateStep(t, j.pc)
      BY <1>1, <1>3, <1>7, <1>8, <1>12
    <2>2. QED
      BY <1>2, <1>3, <1>9, <1>10, <1>11, <1>13, <2>1, MoveStep

LEMMA FreshEndsStep ==
    ASSUME SInv, NEW t \in Target, NEW fault \in Fault, FreshEnds(t, fault)
    PROVE  TaskStep(t)
  <1>1. PICK more : more = Append(job[t].ops, Op("open", fault))
    OBVIOUS
  <1>2. /\ job[t].pc = "fresh" /\ ~job[t].cancelled /\ run' = run /\ sent' = sent /\ due' = due
        /\ OperationsOver(t, more, gate)
    BY <1>1 DEF FreshEnds, Stopped
  <1>3. /\ Typed /\ job[t].pc \in Admitted \ {"releasing"}
        /\ job[t].ops \in Seq(AnOp) /\ Known(job[t].ops, Len(Steps)) /\ sent[t] = 0
    BY <1>2, OpeningFresh
  <1>4. more \in Seq(AnOp) /\ Whole(more)
    BY <1>1, <1>3, OpenWord, CutWhole
  <1>5. OwesAfter(t, more)
    BY <1>2, <1>3, OwesNothing DEF OwesAfter
  <1>6. QED
    BY <1>2, <1>3, <1>4, <1>5, OperationsOverStep

LEMMA ReleasedStep ==
    ASSUME SInv, NEW t \in Target, Released(t)
    PROVE  TaskStep(t)
  <1>1. /\ job[t].pc = "releasing" /\ run' = run /\ sent' = sent /\ due' = due
        /\ IF job[t].ops = Broken THEN Bug(t, gate)
           ELSE AttemptOver(t, job[t].attempt, job[t].ops, gate)
    BY DEF Released
  <1>2. job[t].pc \in Admitted
    BY <1>1 DEF Admitted, InSession
  <1>3. job[t] \in AJob /\ Course(job[t]) /\ Sending(job[t], result[t], sent[t]) /\ due \in SUBSET Device
        /\ job[t].ops \in Seq(AnOp)
    BY TargetTyped DEF Place, Typed, AJob
  <1>4. CASE job[t].ops = Broken
    BY <1>1, <1>2, <1>4, BugStep
  <1>5. CASE job[t].ops # Broken
    <2>1. Whole(job[t].ops) /\ (Mode # "confirm" /\ sent[t] # 0 => Committed(job[t].ops))
      BY <1>1, <1>3, <1>5 DEF Course, Sending
    <2>2. OwesAfter(t, job[t].ops)
      BY <1>1, <1>2, <1>3, NothingOwed DEF OwesAfter
    <2>3. QED
      BY <1>1, <1>2, <1>3, <1>5, <2>1, <2>2, AttemptOverStep
  <1>6. QED
    BY <1>4, <1>5

\* Nothing settles the gate: the reservation and the cooldown are left behind.
LEMMA ReleaseCancelledStep ==
    ASSUME SInv, NEW t \in Target, ReleaseCancelled(t)
    PROVE  TaskStep(t)
  <1>1. /\ job[t].pc = "releasing" /\ job[t].cancelled /\ UNCHANGED <<run, gate, sent, due>>
        /\ FailedBefore(t, Op(CutStep(t), AFault("LOCAL", TRUE)), "skipped")
    BY DEF ReleaseCancelled, Stopped
  <1>2. job[t].pc \in Admitted /\ Moving(t) /\ "done" \notin Admitted
    BY <1>1 DEF Admitted, InSession, InFlight, Moving
  <1>3. Course(job[t]) /\ Reached(job[t]) /\ gate \in AGate /\ due \in SUBSET Device
    BY TargetTyped DEF Place, Typed
  <1>4. Cut /\ ~job[t].pastCommit
    BY <1>1, <1>3 DEF Cut, Course, Reached
  <1>5. Mode # "confirm" => sent[t] = 0
    BY <1>1, <1>4, NothingSent
  <1>6. GateStep(t, "done")
    BY <1>1, <1>2, <1>3, <1>4 DEF GateStep, Leaves
  <1>7. DueStep(t, Over)
    BY <1>1, <1>2, <1>3, <1>4 DEF DueStep
  <1>8. QED
    BY <1>1, <1>2, <1>5, <1>6, <1>7, CutStepTyped, FaultsTyped, FailedBeforeStep

\* Every step of a target leaves it in its place.
LEMMA TargetStep ==
    ASSUME SInv, NEW t \in Target,
           \/ Begin(t) \/ PauseEnds(t) \/ Released(t) \/ Cancelled(t) \/ OverBudget(t) \/ Answered(t)
    PROVE  TaskStep(t)
  <1>1. OpenFaults \subseteq Fault /\ TimedOut \in Fault
    BY FaultsTyped
  <1>2. CASE Cancelled(t)
    BY <1>2, PauseCancelledStep, OpenCancelledStep, OperationCancelledStep, ReleaseCancelledStep
       DEF Cancelled
  <1>3. CASE OverBudget(t)
    BY <1>1, <1>3, OpenEndsStep, OperationOverBudgetStep, FreshEndsStep
       DEF OverBudget, OpenOverBudget, FreshOverBudget
  <1>4. CASE Answered(t)
    <2>1. CASE OpenFails(t) \/ FreshFails(t)
      BY <1>1, <2>1, OpenEndsStep, FreshEndsStep DEF OpenFails, FreshFails
    <2>2. QED
      BY <1>4, <2>1, OpenedStep, NotReusedStep, OpenBreaksStep, OperationReturnsStep,
         OperationBreaksStep, FreshOpenedStep
         DEF Answered
  <1>5. QED
    BY <1>2, <1>3, <1>4, BeginStep, PauseEndsStep, ReleasedStep

-----------------------------------------------------------------------------
(* The invariant is kept                                                   *)

\* What a run is made of does not change.
LEMMA SpecKept ==
    ASSUME run'.spec = run.spec
    PROVE  /\ Mode' = Mode /\ Steps' = Steps /\ Pool' = Pool /\ Listed' = Listed
           /\ Audited' = Audited /\ StepNames' = StepNames
  BY DEF Mode, Steps, Pool, Listed, Audited, StepNames

LEMMA CourseKept ==
    ASSUME run'.spec = run.spec, NEW j
    PROVE  Course(j)' <=> Course(j)
  <1>1. PICK ops, n, m : ops = j.ops /\ n = j.next - 1 /\ m = j.next
    OBVIOUS
  <1>2. (InOrder(ops, n)' <=> InOrder(ops, n)) /\ (InOrder(ops, m)' <=> InOrder(ops, m))
    BY SpecKept DEF InOrder
  <1>3. Clean(ops, n)' <=> Clean(ops, n)
    BY DEF Clean
  <1>4. Known(ops, Len(Steps) + 1)' <=> Known(ops, Len(Steps) + 1)
    BY SpecKept DEF Known
  <1>5. Complete(ops)' <=> Complete(ops)
    BY SpecKept DEF Complete
  <1>6. Whole(ops)' <=> Whole(ops)
    BY <1>4, <1>5 DEF Whole
  <1>7. QED
    BY <1>1, <1>2, <1>3, <1>4, <1>6, SpecKept DEF Course

LEMMA SendingKept ==
    ASSUME run'.spec = run.spec, NEW j, NEW r, NEW n
    PROVE  Sending(j, r, n)' <=> Sending(j, r, n)
  BY SpecKept DEF Sending, Committed, Told, Clean

LEMMA CoolsKept ==
    ASSUME run'.spec = run.spec, NEW ops, NEW attempt
    PROVE  Cools(ops, attempt)' <=> Cools(ops, attempt)
  <1>1. Reads' = Reads /\ Mode' = Mode
    BY SpecKept DEF Reads
  <1>2. QED
    BY <1>1 DEF Cools, VerdictOn, Judge

LEMMA PlaceKept ==
    ASSUME run' = run, NEW t, NEW j, NEW r, NEW n
    PROVE  Place(t, j, r, n)' <=> Place(t, j, r, n)
  <1>1. Course(j)' <=> Course(j)
    BY CourseKept
  <1>2. Reached(j)' <=> Reached(j)
    BY SpecKept DEF Reached
  <1>3. Telling(t, j, r)' <=> Telling(t, j, r)
    BY SpecKept DEF Telling
  <1>4. Kept(r)' <=> Kept(r)
    BY SpecKept DEF Kept, Known, Complete, OkOps
  <1>5. Sending(j, r, n)' <=> Sending(j, r, n)
    BY SendingKept
  <1>6. QED
    BY <1>1, <1>2, <1>3, <1>4, <1>5 DEF Place

LEMMA TaskStepKeeps ==
    ASSUME SInv, NEW t \in Target, TaskStep(t)
    PROVE  SInv'
  <1>1. PICK j \in AJob, r \in ARecord, n \in Nat :
            /\ Frame(t, j, r, n) /\ Place(t, j, r, n)
            /\ GateStep(t, j.pc) /\ DueStep(t, j) /\ Winds(t, j, n)
    BY DEF TaskStep
  <1>2. Typed /\ run' = run /\ run'.spec = run.spec
    BY <1>1 DEF SInv, Frame
  <1>3. /\ job' \in [Target -> AJob] /\ result' \in [Target -> ARecord] /\ sent' \in [Target -> Nat]
        /\ job'[t] = j /\ result'[t] = r /\ sent'[t] = n
        /\ \A u \in Target \ {t} : job'[u] = job[u] /\ result'[u] = result[u] /\ sent'[u] = sent[u]
    BY <1>1, <1>2 DEF Typed, Frame
  <1>4. Typed'
    BY <1>1, <1>2, <1>3 DEF Typed, GateStep, DueStep, ARun, AGate, AJob, ARecord, AnOp
  <1>5. Asked'
    BY <1>2, SpecKept DEF SInv, Asked
  <1>6. Cut' <=> Cut
    BY <1>2, SpecKept DEF Cut
  <1>7. /\ DeviceOf \in [Target -> Device] /\ Held
        /\ gate.cooled \subseteq gate'.cooled /\ (gate.broken => gate'.broken)
    BY <1>1 DEF SInv, GateStep
  <1>8. Held'
    <2>1. ASSUME NEW u \in Target, NEW v \in Target, job'[u].pc \in Admitted, job'[v].pc \in Admitted,
                 DeviceOf[u] = DeviceOf[v]
          PROVE  u = v
      <3>1. CASE u # t /\ v # t
        BY <1>3, <1>7, <2>1, <3>1 DEF Held
      <3>2. ASSUME NEW w \in Target, w # t, DeviceOf[w] = DeviceOf[t], job'[w].pc \in Admitted,
                   j.pc \in Admitted
            PROVE  FALSE
        <4>1. job[w].pc \in Admitted /\ DeviceOf[w] \in gate.active
          BY <1>3, <1>7, <3>2 DEF Held
        <4>2. job[t].pc \notin Admitted
          BY <1>7, <3>2, <4>1 DEF Held
        <4>3. Enters(t)
          BY <1>1, <3>2, <4>2 DEF GateStep
        <4>4. QED
          BY <3>2, <4>1, <4>3 DEF Enters
      <3>3. QED
        BY <1>3, <2>1, <3>1, <3>2
    <2>2. ASSUME NEW u \in Target, job'[u].pc \in Admitted
          PROVE  DeviceOf[u] \in gate'.active
      <3>1. CASE u = t
        BY <1>1, <1>3, <1>7, <2>2, <3>1 DEF Held, GateStep, Enters
      <3>2. CASE u # t
        <4>1. job[u].pc \in Admitted /\ DeviceOf[u] \in gate.active
          BY <1>3, <1>7, <2>2, <3>2 DEF Held
        <4>2. job[t].pc \in Admitted => DeviceOf[u] # DeviceOf[t]
          BY <1>7, <3>2, <4>1 DEF Held
        <4>3. QED
          BY <1>1, <4>1, <4>2 DEF GateStep, Enters, Leaves
      <3>3. QED
        BY <3>1, <3>2
    <2>3. ASSUME NEW d \in gate'.active, ~gate'.broken, ~Cut
          PROVE  \E u \in Target : DeviceOf[u] = d /\ job'[u].pc \in Admitted
      <3>1. CASE d \in gate.active
        <4>1. PICK u \in Target : DeviceOf[u] = d /\ job[u].pc \in Admitted
          BY <1>7, <2>3, <3>1 DEF Held, Worked
        <4>2. u = t => j.pc \in Admitted
          BY <1>1, <2>3, <4>1 DEF GateStep, Leaves
        <4>3. QED
          BY <1>3, <4>1, <4>2
      <3>2. CASE d \notin gate.active
        BY <1>1, <1>3, <2>3, <3>2 DEF GateStep, Leaves, Enters
      <3>3. QED
        BY <3>1, <3>2
    <2>4. QED
      BY <1>6, <2>1, <2>2, <2>3 DEF Held, Worked
  <1>9. Owed'
    <2>1. SUFFICES ASSUME ~Cut, NEW d \in due', d \notin gate'.cooled, ~gate'.broken
                   PROVE  \E u \in Target : /\ DeviceOf[u] = d /\ job'[u].pc = "releasing"
                                            /\ Cools(job'[u].ops, job'[u].attempt)
      <3>1. \A u \in Target : Cools(job'[u].ops, job'[u].attempt)
                              => Cools(job[u].ops, job[u].attempt)'
        BY <1>2, CoolsKept
      <3>2. QED
        BY <1>6, <3>1 DEF Owed
    <2>2. CASE job[t].pc \in Admitted /\ d = DeviceOf[t]
      BY <1>1, <1>3, <2>1, <2>2 DEF DueStep
    <2>3. CASE ~(job[t].pc \in Admitted /\ d = DeviceOf[t])
      <3>1. d \in due
        BY <1>1, <2>1, <2>3 DEF DueStep
      <3>2. PICK u \in Target : /\ DeviceOf[u] = d /\ job[u].pc = "releasing"
                                /\ Cools(job[u].ops, job[u].attempt)
        BY <1>7, <2>1, <3>1 DEF SInv, Owed
      <3>3. u # t
        BY <2>3, <3>2 DEF Admitted, InSession
      <3>4. QED
        BY <1>3, <3>2, <3>3
    <2>4. QED
      BY <2>2, <2>3
  <1>10. ASSUME NEW u \in Target PROVE Place(u, job[u], result[u], sent[u])'
    <2>1. PICK k, s, m : k = job'[u] /\ s = result'[u] /\ m = sent'[u]
      OBVIOUS
    <2>2. Place(u, k, s, m)
      BY <1>1, <1>3, <2>1 DEF SInv
    <2>3. Place(u, k, s, m)'
      BY <1>2, <2>2, PlaceKept
    <2>4. QED
      BY <2>1, <2>3
  <1>11. QED
    BY <1>4, <1>5, <1>8, <1>9, <1>10 DEF SInv

\* Nothing of the targets, the gate or what is owed has changed.
LEMMA RunStepKeeps ==
    ASSUME SInv, UNCHANGED <<job, gate, result, sent, due>>, run' \in ARun, run'.spec = run.spec,
           run'.stopping = run.stopping, run.pc \in {"asked", "probing"},
           run'.pc \in {"probing", "going", "refused"}, run.pc = "probing" /\ run.stopping => run'.pc = "refused",
           run'.held \cup run'.dead \subseteq Listed
    PROVE  SInv'
  <1>1. Typed' /\ Asked' /\ Typed
    BY SpecKept DEF SInv, Typed, Asked, AJob, AGate, AnOp, ARecord, ARun
  <1>2. Held'
    BY SpecKept DEF SInv, Held, Worked, Cut
  <1>3. Owed'
    <2>1. \A u \in Target : Cools(job[u].ops, job[u].attempt)' <=> Cools(job[u].ops, job[u].attempt)
      <3>1. TAKE u \in Target
      <3>2. PICK k : k = job[u] /\ k = job'[u]
        OBVIOUS
      <3>3. Cools(k.ops, k.attempt)' <=> Cools(k.ops, k.attempt)
        BY CoolsKept
      <3>4. QED
        BY <3>2, <3>3
    <2>2. QED
      BY <2>1, SpecKept DEF SInv, Owed, Cut
  <1>4. ASSUME NEW u \in Target PROVE Place(u, job[u], result[u], sent[u])'
    <2>1. PICK j, r, n : j = job'[u] /\ r = result'[u] /\ n = sent'[u]
                         /\ j = job[u] /\ r = result[u] /\ n = sent[u]
      OBVIOUS
    <2>2. Place(u, j, r, n)
      BY <2>1 DEF SInv
    <2>3. Course(j)' /\ Sending(j, r, n)'
      BY <2>2, CourseKept, SendingKept DEF Place
    <2>4. Reached(j)'
      BY <2>2, SpecKept DEF Place, Reached, SInv, Asked
    <2>5. Telling(u, j, r)'
      BY <2>2, SpecKept DEF Place, Telling
    <2>6. Kept(r)'
      BY <2>2, SpecKept DEF Place, Kept, Known, Complete
    <2>7. Place(u, j, r, n)'
      BY <2>3, <2>4, <2>5, <2>6 DEF Place
    <2>8. QED
      BY <2>1, <2>7
  <1>5. QED
    BY <1>1, <1>2, <1>3, <1>4 DEF SInv

LEMMA ExecuteKeeps ==
    ASSUME SInv, Execute
    PROVE  SInv'
  <1>1. run \in ARun /\ Asked /\ Listed \subseteq Target
    BY SpecTyped DEF SInv, Typed, Listed, RunSpec
  <1>2. CASE run' = [run EXCEPT !.pc = "refused"]
    BY <1>1, <1>2, RunStepKeeps DEF Execute, ARun, Asked
  <1>3. CASE \E pc \in {"probing", "going"} :
               run' = [run EXCEPT !.pc = pc,
                                  !.held = {t \in Listed : DeviceOf[t] \in gate.cooled}]
    <2>1. PICK pc \in {"probing", "going"}, held \in SUBSET Listed :
              run' = [run EXCEPT !.pc = pc, !.held = held]
      BY <1>3
    <2>2. /\ run' \in ARun /\ run'.spec = run.spec /\ run'.stopping = run.stopping /\ run'.pc = pc
          /\ run'.held = held /\ run'.dead = run.dead
      BY <1>1, <2>1 DEF ARun
    <2>3. run'.held \cup run'.dead \subseteq Listed
      BY <1>1, <2>2 DEF Asked
    <2>4. QED
      BY <1>1, <2>2, <2>3, RunStepKeeps DEF Execute
  <1>4. QED
    BY <1>2, <1>3 DEF Execute

LEMMA ProbeEndsKeeps ==
    ASSUME SInv, ProbeEnds
    PROVE  SInv'
  <1>1. run \in ARun /\ Asked /\ Listed \subseteq Target
    BY SpecTyped DEF SInv, Typed, Listed, RunSpec
  <1>2. PICK dead \in SUBSET (Listed \ run.held), pc \in {"going", "refused"} :
            run' = [run EXCEPT !.dead = dead, !.pc = pc]
    BY DEF ProbeEnds
  <1>3. /\ run' \in ARun /\ run'.spec = run.spec /\ run'.stopping = run.stopping /\ run'.pc = pc
        /\ run'.held = run.held /\ run'.dead = dead
    BY <1>1, <1>2 DEF ARun
  <1>4. run.pc = "probing" /\ ~run.stopping /\ UNCHANGED <<job, gate, result, sent, due>>
    BY DEF ProbeEnds
  <1>5. run'.held \cup run'.dead \subseteq Listed
    BY <1>1, <1>3 DEF Asked
  <1>6. QED
    BY <1>3, <1>4, <1>5, RunStepKeeps

\* The records of targets no task was begun for.
LEMMA NeverBegunTyped ==
    ASSUME Typed
    PROVE  /\ Unknown \in ARecord /\ Unknown.status = "none" /\ Unknown.ops = <<>> /\ Unknown.audited = {}
           /\ [Unknown EXCEPT !.status = "skipped"] \in ARecord
           /\ [Unknown EXCEPT !.status = "skipped"].status = "skipped"
           /\ [Unknown EXCEPT !.status = "skipped"].ops = <<>>
           /\ [Unknown EXCEPT !.status = "skipped"].audited = {}
           /\ Known(<<>>, Len(Steps) + 1)
           /\ [status |-> "skipped", ops |-> <<LocalOpen>>, audited |-> {}] \in ARecord
           /\ Known(<<LocalOpen>>, Len(Steps) + 1)
  <1>1. <<>> \in Seq(AnOp) /\ Len(<<>>) = 0 /\ DOMAIN <<>> = {} /\ Len(Steps) \in Nat
    BY EmptySeq, StepsTyped
  <1>2. Unknown \in ARecord /\ Unknown.status = "none" /\ Unknown.ops = <<>> /\ Unknown.audited = {}
    BY <1>1 DEF Unknown, ARecord
  <1>3. PICK x \in ARecord : x = Unknown
    BY <1>2
  <1>4. /\ [x EXCEPT !.status = "skipped"] \in ARecord
        /\ [x EXCEPT !.status = "skipped"].status = "skipped"
        /\ [x EXCEPT !.status = "skipped"].ops = x.ops
        /\ [x EXCEPT !.status = "skipped"].audited = x.audited
    BY DEF ARecord
  <1>5. Known(<<>>, Len(Steps) + 1)
    BY <1>1 DEF Known
  <1>6. PICK ops : ops = <<LocalOpen>> /\ ops \in Seq(AnOp) /\ Known(ops, Len(Steps) + 1)
    BY LocalOpenWhole
  <1>7. [status |-> "skipped", ops |-> ops, audited |-> {}] \in ARecord
    BY <1>6 DEF ARecord
  <1>8. QED
    BY <1>2, <1>3, <1>4, <1>5, <1>6, <1>7

LEMMA ProbeCancelledKeeps ==
    ASSUME SInv, ProbeCancelled
    PROVE  SInv'
  <1>1. run \in ARun /\ Asked /\ Typed /\ run.pc = "probing" /\ run.stopping
    BY DEF SInv, Typed, ProbeCancelled
  <1>2. CASE run' = [run EXCEPT !.pc = "refused"] /\ UNCHANGED <<job, result>>
    BY <1>1, <1>2, RunStepKeeps DEF ProbeCancelled, ARun, Asked
  <1>3. CASE /\ run' = [run EXCEPT !.pc = "going"]
             /\ job' = [t \in Target |-> Over]
             /\ result' = [t \in Target |-> IF t \in Listed
                  THEN [status |-> "skipped", ops |-> <<LocalOpen>>, audited |-> {}]
                  ELSE Unknown]
    <2>1. /\ run' \in ARun /\ run'.spec = run.spec /\ run'.stopping = run.stopping /\ run'.pc = "going"
          /\ run'.held = run.held /\ run'.dead = run.dead /\ UNCHANGED <<gate, sent, due>>
      BY <1>1, <1>3 DEF ProbeCancelled, ARun
    <2>2. PICK s : s = [status |-> "skipped", ops |-> <<LocalOpen>>, audited |-> {}]
      OBVIOUS
    <2>3. s \in ARecord /\ s.status = "skipped" /\ Known(s.ops, Len(Steps) + 1) /\ s.audited = {}
      BY <1>1, <2>2, NeverBegunTyped
    <2>4. Unknown \in ARecord /\ Unknown.status = "none" /\ Unknown.audited = {}
          /\ Known(Unknown.ops, Len(Steps) + 1)
      BY <1>1, NeverBegunTyped
    <2>5. result' = [t \in Target |-> IF t \in Listed THEN s ELSE Unknown]
      BY <1>3, <2>2
    <2>6. Typed'
      <3>1. job' \in [Target -> AJob]
        BY <1>3, OverTyped
      <3>2. result' \in [Target -> ARecord]
        BY <2>3, <2>4, <2>5
      <3>3. QED
        BY <1>1, <2>1, <3>1, <3>2 DEF Typed, AJob, AGate, AnOp, ARecord, ARun
    <2>7. \A u \in Target : job[u].pc \in {"queued", "done"}
      BY <1>1 DEF SInv, Place, Telling
    <2>8. "queued" \notin Admitted /\ "done" \notin Admitted
      BY DEF Admitted, InSession
    <2>9. \A u \in Target : job'[u].pc \notin Admitted
      BY <1>3, <2>8, OverTyped
    <2>10. Held'
      BY <2>1, <2>7, <2>8, <2>9, SpecKept DEF SInv, Held, Worked, Cut
    <2>11. Owed'
      BY <2>1, <2>7, SpecKept DEF SInv, Owed, Cut
    <2>12. ASSUME NEW u \in Target PROVE Place(u, job[u], result[u], sent[u])'
      <3>1. PICK r, n : r = result'[u] /\ n = sent'[u] /\ n = sent[u]
                        /\ r = (IF u \in Listed THEN s ELSE Unknown)
        BY <2>1, <2>5
      <3>2. job'[u] = Over
        BY <1>3
      <3>3. r.audited = {} /\ r.status # "ok" /\ Known(r.ops, Len(Steps) + 1)
            /\ (r.status = "none" <=> u \notin Listed)
        BY <2>3, <2>4, <3>1
      <3>4. Mode # "confirm" => n = 0
        BY <1>1, <2>7, <3>1 DEF SInv, Place, Telling, Sending, Told
      <3>5. Len(Steps) \in Nat /\ Len(Steps) > 0
        BY <1>1, StepsTyped
      <3>6. Course(Over)'
        <4>1. Course(Over)
          BY <3>5, OverTyped DEF Course
        <4>2. PICK j : j = Over
          OBVIOUS
        <4>3. QED
          BY <2>1, <4>1, CourseKept
      <3>7. Reached(Over)'
        BY OverTyped DEF Reached
      <3>8. Telling(u, Over, r)'
        BY <2>1, <3>3, SpecKept, OverTyped DEF Telling
      <3>9. Kept(r)'
        BY <2>1, <3>3, SpecKept DEF Kept, Known
      <3>10. Sending(Over, r, n)'
        BY <2>1, <3>4, SpecKept DEF Sending
      <3>11. Place(u, Over, r, n)'
        BY <3>6, <3>7, <3>8, <3>9, <3>10 DEF Place
      <3>12. QED
        BY <3>1, <3>2, <3>11
    <2>13. Asked'
      BY <1>1, <2>1, SpecKept DEF Asked
    <2>14. QED
      BY <2>6, <2>10, <2>11, <2>12, <2>13 DEF SInv
  <1>4. QED
    BY <1>2, <1>3 DEF ProbeCancelled

\* The task an interrupt finds, and what it makes of it.
LEMMA InterruptKeeps ==
    ASSUME SInv, Interrupt
    PROVE  SInv'
  <1>1. run \in ARun /\ Asked /\ Typed /\ run.pc \in {"probing", "going"} /\ ~run.stopping
        /\ UNCHANGED <<gate, sent, due>>
    BY DEF SInv, Typed, Interrupt
  <1>2. /\ run' \in ARun /\ run'.spec = run.spec /\ run'.stopping = TRUE /\ run'.pc = run.pc
        /\ run'.held = run.held /\ run'.dead = run.dead
    BY <1>1 DEF Interrupt, ARun
  <1> DEFINE Waits(u) == run.pc = "going" /\ job[u].pc = "queued"
  <1>3. PICK s : s = [Unknown EXCEPT !.status = "skipped"]
    OBVIOUS
  <1>4. s \in ARecord /\ s.status = "skipped" /\ s.ops = <<>> /\ s.audited = {} /\ Known(s.ops, Len(Steps) + 1)
    BY <1>1, <1>3, NeverBegunTyped
  <1>5. /\ job' = [u \in Target |-> IF Waits(u) THEN Over ELSE [job[u] EXCEPT !.cancelled = CancelledBy(u)]]
        /\ result' = [u \in Target |-> IF Waits(u) THEN s ELSE result[u]]
    BY <1>3 DEF Interrupt
  <1> HIDE DEF Waits
  <1>6. ASSUME NEW u \in Target
        PROVE  IF Waits(u) THEN job'[u] = Over
               ELSE JobIs(job'[u], job[u].pc, job[u].attempt, job[u].next, job[u].ops, job[u].freshAt,
                          CancelledBy(u), job[u].pastCommit)
    <2>1. CancelledBy(u) \in BOOLEAN
      BY DEF CancelledBy, Begun
    <2>2. PICK x \in AJob : x = job[u]
      BY <1>1 DEF Typed
    <2>3. PICK c \in BOOLEAN : c = CancelledBy(u)
      BY <2>1
    <2>4. PICK j : j = [x EXCEPT !.cancelled = c]
      OBVIOUS
    <2>5. JobIs(j, x.pc, x.attempt, x.next, x.ops, x.freshAt, c, x.pastCommit)
      BY <2>4, SetCancelled
    <2>6. job'[u] = IF Waits(u) THEN Over ELSE j
      BY <1>5, <2>2, <2>3, <2>4
    <2>7. QED
      BY <2>2, <2>3, <2>5, <2>6
  <1>7. Typed'
    <2>1. \A u \in Target : job'[u] \in AJob
      BY <1>6, OverTyped DEF JobIs
    <2>2. job' \in [Target -> AJob]
      BY <1>5, <2>1
    <2>3. result' \in [Target -> ARecord]
      BY <1>1, <1>4, <1>5 DEF Typed
    <2>4. QED
      BY <1>1, <1>2, <2>2, <2>3 DEF Typed, AJob, AGate, AnOp, ARecord, ARun
  <1>8. Asked'
    BY <1>1, <1>2, SpecKept DEF Asked
  <1>9. "queued" \notin Admitted /\ "done" \notin Admitted /\ "queued" \notin InFlight /\ "done" \notin InFlight
    BY DEF Admitted, InSession, InFlight
  <1>10. \A u \in Target : job'[u].pc \in Admitted <=> job[u].pc \in Admitted
    BY <1>6, <1>9, OverTyped DEF JobIs, Waits
  <1>11. (Cut => Cut') /\ Pool' = Pool
    BY <1>2, SpecKept DEF Cut
  <1>12. Held'
    <2>1. Held
      BY DEF SInv
    <2>2. \A d : Worked(d) => Worked(d)'
      BY <1>10 DEF Worked
    <2>3. QED
      BY <1>1, <1>10, <1>11, <2>1, <2>2 DEF Held
  <1>13. Owed'
    <2>1. SUFFICES ASSUME ~Pool PROVE Owed'
      BY <1>2, <1>11 DEF Owed, Cut
    <2>2. \A u \in Target : job[u].pc # "releasing"
      BY <2>1 DEF SInv, Place, Course
    <2>3. QED
      BY <1>1, <2>1, <2>2 DEF SInv, Owed, Cut
  <1>14. ASSUME NEW u \in Target PROVE Place(u, job[u], result[u], sent[u])'
    <2>1. PICK j, r, n : j = job'[u] /\ r = result'[u] /\ n = sent'[u] /\ n = sent[u]
      BY <1>1
    <2>2. Place(u, job[u], result[u], sent[u]) /\ Len(Steps) \in Nat /\ Len(Steps) > 0
      BY <1>1, StepsTyped DEF SInv
    <2>3. CASE Waits(u)
      <3>1. j = Over /\ r = s
        BY <1>5, <1>6, <2>1, <2>3
      <3>2. Mode # "confirm" => n = 0
        BY <2>1, <2>2, <2>3 DEF Place, Sending, Waits
      <3>3. Course(j)'
        <4>1. Course(j)
          BY <2>2, <3>1, OverTyped DEF Course
        <4>2. QED
          BY <1>2, <4>1, CourseKept
      <3>4. Reached(j)'
        BY <3>1, OverTyped DEF Reached
      <3>5. Telling(u, j, r)'
        BY <1>2, <1>4, <2>2, <2>3, <3>1, SpecKept, OverTyped DEF Telling, Place, Waits
      <3>6. Kept(r)'
        BY <1>2, <1>4, <2>3, <3>1, SpecKept DEF Kept, Known, Waits
      <3>7. Sending(j, r, n)'
        BY <1>2, <3>2, SpecKept DEF Sending
      <3>8. Place(u, j, r, n)'
        BY <3>3, <3>4, <3>5, <3>6, <3>7 DEF Place
      <3>9. QED
        BY <2>1, <3>8
    <2>4. CASE ~Waits(u)
      <3>1. /\ j \in AJob /\ j.pc = job[u].pc /\ j.attempt = job[u].attempt /\ j.next = job[u].next
            /\ j.ops = job[u].ops /\ j.freshAt = job[u].freshAt /\ j.cancelled = CancelledBy(u)
            /\ j.pastCommit = job[u].pastCommit /\ r = result[u]
        BY <1>5, <1>6, <2>1, <2>4 DEF JobIs
      <3>2. Course(j)'
        <4>1. Course(j)
          BY <2>2, <3>1 DEF Course, Place
        <4>2. QED
          BY <1>2, <4>1, CourseKept
      <3>3. Reached(j)'
        <4>1. j.pc \in {"queued", "done"} \cup InFlight
          BY <3>1 DEF AJob
        <4>2. Reached(job[u])
          BY <2>2 DEF Place
        <4>3. QED
          BY <1>2, <2>4, <3>1, <4>1, <4>2, SpecKept DEF Reached, CancelledBy, Begun, Waits
      <3>4. Telling(u, j, r)'
        BY <1>2, <2>2, <3>1, SpecKept DEF Telling, Place
      <3>5. Kept(r)'
        BY <1>2, <2>2, <3>1, SpecKept DEF Kept, Known, Complete, Place, OkOps
      <3>6. Sending(j, r, n)'
        <4>1. Sending(j, r, n)
          BY <2>1, <2>2, <3>1 DEF Place, Sending
        <4>2. QED
          BY <1>2, <4>1, SendingKept
      <3>7. Place(u, j, r, n)'
        BY <3>2, <3>3, <3>4, <3>5, <3>6 DEF Place
      <3>8. QED
        BY <2>1, <3>7
    <2>5. QED
      BY <2>3, <2>4
  <1>15. QED
    BY <1>7, <1>8, <1>12, <1>13, <1>14 DEF SInv

\* A record with a close's fault on top of it.
IsLate(more, ops) ==
    /\ more \in Seq(AnOp) /\ Len(more) = Len(ops) + 1 /\ DOMAIN more = 1 .. (Len(ops) + 1)
    /\ DOMAIN ops = 1 .. Len(ops) /\ Len(ops) \in Nat
    /\ \A i \in 1 .. Len(ops) : more[i] = ops[i]
    /\ more[Len(ops) + 1] = LateClose

LEMMA LateAppended ==
    ASSUME NEW ops \in Seq(AnOp), NEW more, more = Append(ops, LateClose)
    PROVE  IsLate(more, ops)
  <1>1. LateClose \in AnOp
    BY FaultsTyped DEF LateClose, Op, AnOp, Word, OwnSteps
  <1>2. QED
    BY <1>1, Appended, LenProperties DEF IsLate

LEMMA LateIsClose ==
    /\ LateClose.step = "close"
    /\ \A step : Op(step, NoFault) # LateClose
  <1>1. AFault("SESSION_LOST", TRUE) # NoFault
    BY FaultsTyped
  <1>2. LateClose.step = "close" /\ LateClose.fault = AFault("SESSION_LOST", TRUE)
    BY DEF LateClose, Op
  <1>3. \A step : Op(step, NoFault).fault = NoFault
    BY DEF Op
  <1>4. QED
    BY <1>1, <1>2, <1>3

\* What was complete is so without the close.
LEMMA LateComplete ==
    ASSUME Typed, NEW ops \in Seq(AnOp), Complete(ops), NEW more, more = ops \/ IsLate(more, ops)
    PROVE  OkOps(more)
  <1>1. PICK n \in 1 .. Len(Steps) :
            /\ Len(ops) = n
            /\ \A i \in 1 .. n : ops[i] = Op(Steps[i], NoFault)
            /\ n = Len(Steps) \/ Steps[n] = "diff"
    BY DEF Complete
  <1>2. n \in Nat /\ DOMAIN ops = 1 .. n /\ Len(Steps) \in Nat
    BY <1>1, StepsTyped, LenProperties
  <1>3. \A i \in 1 .. n : ops[i] # LateClose
    BY <1>1, LateIsClose
  <1>4. CASE more = ops
    <2>1. {i \in DOMAIN more : more[i] # LateClose} = 1 .. n
      BY <1>2, <1>3, <1>4
    <2>2. QED
      BY <1>1, <1>2, <1>4, <2>1 DEF OkOps
  <1>5. CASE IsLate(more, ops)
    <2>1. {i \in DOMAIN more : more[i] # LateClose} = 1 .. n
      BY <1>1, <1>2, <1>3, <1>5 DEF IsLate
    <2>2. Len(more) = n + 1 /\ \A i \in 1 .. n : more[i] = ops[i]
      BY <1>1, <1>5 DEF IsLate
    <2>3. QED
      BY <1>1, <1>2, <2>1, <2>2 DEF OkOps
  <1>6. QED
    BY <1>4, <1>5

LEMMA SetOps ==
    ASSUME NEW x \in ARecord, NEW ops \in Seq(AnOp), NEW r, r = [x EXCEPT !.ops = ops]
    PROVE  r \in ARecord /\ r.status = x.status /\ r.ops = ops /\ r.audited = x.audited
  BY DEF ARecord

LEMMA EndKeeps ==
    ASSUME SInv, End
    PROVE  SInv' /\ \A u \in Target : result'[u].status = result[u].status
  <1>1. /\ run \in ARun /\ Asked /\ Typed /\ run.pc = "going" /\ UNCHANGED <<job, sent, due>>
        /\ \A u \in Target : job[u].pc = "done"
    BY DEF SInv, Typed, End
  <1>2. /\ run' \in ARun /\ run'.spec = run.spec /\ run'.stopping = run.stopping /\ run'.pc = "ended"
        /\ run'.held = run.held /\ run'.dead = run.dead
    BY <1>1 DEF End, ARun
  <1>3. gate' \in AGate /\ gate'.active = {} /\ gate'.cooled = gate.cooled /\ gate'.broken = gate.broken
    BY <1>1 DEF Typed, AGate, End
  <1>4. PICK late \in SUBSET Target :
            result' = [u \in Target |-> IF u \in late
                         THEN [result[u] EXCEPT !.ops = Append(@, LateClose)] ELSE result[u]]
    BY DEF End
  <1>5. ASSUME NEW u \in Target
        PROVE  /\ result'[u] \in ARecord
               /\ result'[u].status = result[u].status /\ result'[u].audited = result[u].audited
               /\ result'[u].ops = result[u].ops \/ IsLate(result'[u].ops, result[u].ops)
    <2>1. PICK x \in ARecord : x = result[u]
      BY <1>1 DEF Typed
    <2>2. x.ops \in Seq(AnOp)
      BY DEF ARecord
    <2>3. PICK more : more = Append(x.ops, LateClose)
      OBVIOUS
    <2>4. IsLate(more, x.ops)
      BY <2>2, <2>3, LateAppended
    <2>5. PICK r : r = [x EXCEPT !.ops = more]
      OBVIOUS
    <2>6. r \in ARecord /\ r.status = x.status /\ r.ops = more /\ r.audited = x.audited
      BY <2>4, <2>5, SetOps DEF IsLate
    <2>7. result'[u] = r \/ result'[u] = x
      BY <1>4, <2>1, <2>3, <2>5
    <2>8. QED
      BY <2>1, <2>4, <2>6, <2>7
  <1>6. Typed'
    <2>1. result' \in [Target -> ARecord]
      BY <1>4, <1>5
    <2>2. QED
      BY <1>1, <1>2, <1>3, <2>1 DEF Typed, AJob, AGate, AnOp, ARecord, ARun
  <1>7. Asked'
    BY <1>1, <1>2, SpecKept DEF Asked
  <1>8. "done" \notin Admitted /\ "done" # "releasing"
    BY DEF Admitted, InSession
  <1>9. Held'
    BY <1>1, <1>3, <1>8 DEF Held
  <1>10. Owed'
    BY <1>1, <1>2, <1>3, <1>8, SpecKept DEF SInv, Owed, Cut
  <1>11. ASSUME NEW u \in Target PROVE Place(u, job[u], result[u], sent[u])'
    <2>1. PICK j, r, x, n : j = job'[u] /\ j = job[u] /\ r = result'[u] /\ x = result[u]
                            /\ n = sent'[u] /\ n = sent[u]
      BY <1>1
    <2>2. /\ r \in ARecord /\ r.status = x.status /\ r.audited = x.audited
          /\ r.ops = x.ops \/ IsLate(r.ops, x.ops)
          /\ x \in ARecord /\ Place(u, j, x, n) /\ j.pc = "done"
      BY <1>1, <1>5, <2>1 DEF SInv, Typed
    <2>3. x.ops \in Seq(AnOp) /\ r.ops \in Seq(AnOp) /\ Len(Steps) \in Nat /\ Typed
      BY <1>1, <2>2, StepsTyped DEF ARecord
    <2>4. Course(j)'
      BY <1>2, <2>2, CourseKept DEF Place
    <2>5. Reached(j)'
      BY <1>2, <2>2, SpecKept DEF Place, Reached
    <2>6. Telling(u, j, r)'
      BY <1>2, <2>2, SpecKept DEF Place, Telling
    <2>7. Kept(r)'
      <3>1. Known(x.ops, Len(Steps) + 1) /\ (x.status = "ok" => Complete(x.ops))
            /\ x.audited \subseteq Audited
        BY <1>1, <2>2 DEF Place, Kept
      <3>2. Known(r.ops, Len(Steps) + 2)
        <4>1. CASE r.ops = x.ops
          <5>1. Len(x.ops) \in Nat
            BY <2>3, LenProperties
          <5>2. QED
            BY <2>3, <3>1, <4>1, <5>1 DEF Known
        <4>2. CASE IsLate(r.ops, x.ops)
          <5>1. "close" \in StepNames
            BY DEF StepNames
          <5>2. QED
            <6>1. Len(r.ops) <= Len(Steps) + 2
              BY <2>3, <3>1, <4>2 DEF Known, IsLate
            <6>2. ASSUME NEW i \in DOMAIN r.ops PROVE r.ops[i].step \in StepNames
              <7>1. CASE i \in DOMAIN x.ops
                BY <3>1, <4>2, <7>1 DEF Known, IsLate
              <7>2. CASE i = Len(x.ops) + 1
                BY <4>2, <5>1, <7>2, LateIsClose DEF IsLate
              <7>3. QED
                BY <4>2, <7>1, <7>2 DEF IsLate
            <6>3. QED
              BY <6>1, <6>2 DEF Known
        <4>3. QED
          BY <2>2, <4>1, <4>2
      <3>3. r.status = "ok" => OkOps(r.ops)
        BY <2>2, <2>3, <3>1, LateComplete
      <3>4. OkOps(r.ops) => OkOps(r.ops)'
        BY <1>2, SpecKept DEF OkOps
      <3>5. QED
        BY <1>2, <2>2, <3>1, <3>2, <3>3, <3>4, SpecKept DEF Kept, Known
    <2>8. Sending(j, r, n)'
      <3>1. Told(x) => Told(r)
        BY <2>2 DEF Told, IsLate
      <3>2. Sending(j, r, n)
        BY <2>2, <3>1 DEF Place, Sending
      <3>3. QED
        BY <1>2, <3>2, SendingKept
    <2>9. Place(u, j, r, n)'
      BY <2>4, <2>5, <2>6, <2>7, <2>8 DEF Place
    <2>10. QED
      BY <2>1, <2>9
  <1>12. QED
    BY <1>5, <1>6, <1>7, <1>9, <1>10, <1>11 DEF SInv

LEMMA InitHolds == Init => SInv
  <1>1. SUFFICES ASSUME Init PROVE SInv
    OBVIOUS
  <1>2. /\ run \in ARun /\ run.pc = "asked" /\ run.stopping = FALSE /\ run.held = {} /\ run.dead = {}
        /\ due = {} /\ gate \in [active : {{}}, cooled : SUBSET Device, logins : [Device -> {0}], broken : {FALSE}]
    <2>1. PICK spec \in Specs :
              run = [spec |-> spec, pc |-> "asked", stopping |-> FALSE, held |-> {}, dead |-> {}]
      BY <1>1 DEF Init
    <2>2. QED
      BY <1>1, <2>1 DEF Init, ARun
  <1>3. job \in [Target -> AJob] /\ \A t \in Target : job[t] = IF t \in Listed THEN Idle ELSE Over
    BY <1>1, OverTyped DEF Init
  <1>4. result = [t \in Target |-> Unknown] /\ sent = [t \in Target |-> 0]
    BY <1>1 DEF Init
  <1>5. Unknown \in ARecord /\ Unknown.status = "none" /\ Unknown.ops = <<>> /\ Unknown.audited = {}
    <2>1. <<>> \in Seq(AnOp)
      BY EmptySeq
    <2>2. QED
      BY <2>1 DEF Unknown, ARecord
  <1>6. gate \in AGate /\ gate.active = {}
    <2>1. gate.logins \in [Device -> 0 .. RateLimit]
      BY <1>2
    <2>2. QED
      BY <1>2, <2>1 DEF AGate
  <1>7. Typed
    BY <1>2, <1>3, <1>4, <1>5, <1>6 DEF Typed
  <1>8. \A t \in Target : job[t].pc \in {"queued", "done"}
    BY <1>3, OverTyped
  <1>9. Held /\ Owed /\ Asked
    BY <1>2, <1>6, <1>8 DEF Held, Owed, Asked, Admitted, InSession
  <1>10. ASSUME NEW t \in Target PROVE Place(t, job[t], result[t], sent[t])
    <2>1. Len(Steps) \in Nat /\ Len(Steps) > 0 /\ Known(Unknown.ops, Len(Steps) + 1)
      BY <1>5, <1>7, StepsTyped, NeverBegunTyped
    <2>2. Course(job[t])
      BY <1>3, <2>1, OverTyped DEF Course
    <2>3. Reached(job[t])
      BY <1>2, <1>3, OverTyped DEF Reached
    <2>4. Telling(t, job[t], result[t])
      BY <1>2, <1>3, <1>4, <1>5, OverTyped DEF Telling
    <2>5. Kept(result[t])
      BY <1>2, <1>4, <1>5, <2>1 DEF Kept
    <2>6. Sending(job[t], result[t], sent[t])
      BY <1>4 DEF Sending
    <2>7. QED
      BY <2>2, <2>3, <2>4, <2>5, <2>6 DEF Place
  <1>11. QED
    BY <1>7, <1>9, <1>10 DEF SInv

\* A step of the run is one of a target, or one of these.
LEMMA StepKeeps == SInv /\ [Next]_vars => SInv'
  <1>1. SUFFICES ASSUME SInv, [Next]_vars PROVE SInv'
    OBVIOUS
  <1>2. CASE UNCHANGED vars
    <2>1. /\ run' = run /\ run'.spec = run.spec /\ job' = job /\ gate' = gate /\ result' = result
          /\ sent' = sent /\ due' = due
      BY <1>2 DEF vars
    <2>2. Typed' /\ Asked'
      BY <1>1, <2>1, SpecKept DEF SInv, Typed, Asked, ARun, AGate, AJob, ARecord, AnOp
    <2>3. Held'
      BY <1>1, <2>1, SpecKept DEF SInv, Held, Worked, Cut
    <2>4. Owed'
      <3>1. ASSUME NEW u \in Target, Cools(job[u].ops, job[u].attempt)
            PROVE  Cools(job[u].ops, job[u].attempt)'
        <4>1. PICK j : j = job[u] /\ j = job'[u]
          BY <2>1
        <4>2. Cools(j.ops, j.attempt) => Cools(j.ops, j.attempt)'
          BY <2>1, CoolsKept
        <4>3. QED
          BY <3>1, <4>1, <4>2
      <3>2. QED
        BY <1>1, <2>1, <3>1, SpecKept DEF SInv, Owed, Cut
    <2>5. ASSUME NEW u \in Target PROVE Place(u, job[u], result[u], sent[u])'
      <3>1. PICK j, r, n : /\ j = job[u] /\ r = result[u] /\ n = sent[u]
                           /\ j = job'[u] /\ r = result'[u] /\ n = sent'[u]
        BY <2>1
      <3>2. Place(u, j, r, n)
        BY <1>1, <3>1 DEF SInv
      <3>3. Place(u, j, r, n)'
        BY <2>1, <3>2, PlaceKept
      <3>4. QED
        BY <3>1, <3>3
    <2>6. QED
      BY <2>2, <2>3, <2>4, <2>5 DEF SInv
  <1>3. CASE \E t \in Target : Begin(t) \/ PauseEnds(t) \/ Released(t)
                               \/ Cancelled(t) \/ OverBudget(t) \/ Answered(t)
    BY <1>1, <1>3, TargetStep, TaskStepKeeps
  <1>4. CASE Execute \/ ProbeEnds \/ ProbeCancelled \/ Interrupt \/ End
    BY <1>1, <1>4, ExecuteKeeps, ProbeEndsKeeps, ProbeCancelledKeeps, InterruptKeeps, EndKeeps
  <1>5. QED
    BY <1>1, <1>2, <1>3, <1>4 DEF Next, Terminating

LEMMA Invariant == Spec => []SInv
  <1>1. QED
    BY InitHolds, StepKeeps, PTL DEF Spec

-----------------------------------------------------------------------------
(* What follows                                                            *)

\* Every variable keeps its shape: a task is at one of its run's operations, no
\* record is longer than an attempt can make it, and no login is counted beyond
\* the window.
THEOREM SchedulerTyped == Spec => []TypeOK
  <1>1. ASSUME SInv PROVE TypeOK
    <2>1. Typed /\ Asked /\ Len(Steps) \in Nat /\ Len(Steps) > 0 /\ DOMAIN Steps = 1 .. Len(Steps)
      BY <1>1, StepsTyped, LenProperties DEF SInv
    <2>2. ASSUME NEW ops \in Seq(AnOp), Known(ops, Len(Steps) + 2) PROVE Operations(ops)
      <3>1. \A i \in DOMAIN ops : ops[i] \in AnOp /\ ops[i].step \in StepNames
        BY <2>2 DEF Known
      <3>2. \A i \in DOMAIN ops : ops[i] \in Operation
        BY <3>1 DEF AnOp, Operation
      <3>3. Len(ops) \in Nat /\ Len(ops) <= 2 * Len(Steps) + 1
        BY <2>1, <2>2, LenProperties DEF Known
      <3>4. QED
        BY <3>2, <3>3 DEF Operations
    <2>3. ASSUME NEW t \in Target
          PROVE  /\ job[t].pc \in {"queued", "done"} \cup InFlight
                 /\ job[t].attempt \in 1 .. (Retries + 1) /\ job[t].next \in DOMAIN Steps
                 /\ job[t].freshAt \in 0 .. Len(Steps)
                 /\ {job[t].kept, job[t].cancelled, job[t].pastCommit} \subseteq BOOLEAN
                 /\ Operations(job[t].ops) /\ Operations(result[t].ops)
                 /\ result[t].status \in {"none", "ok", "failed", "skipped"}
                 /\ result[t].audited \subseteq Audited
                 /\ sent[t] \in Nat
      <3>1. /\ job[t] \in AJob /\ result[t] \in ARecord /\ sent[t] \in Nat
            /\ Course(job[t]) /\ Kept(result[t])
        BY <1>1, TargetTyped DEF Place
      <3>2. PICK ops \in Seq(AnOp) : ops = job[t].ops
        BY <3>1 DEF AJob
      <3>3. Known(ops, Len(Steps) + 2)
        <4>1. Len(ops) \in Nat /\ DOMAIN ops = 1 .. Len(ops)
          BY LenProperties
        <4>2. CASE job[t].pc \in {"queued", "done", "opening"}
          <5>1. ops = <<>>
            BY <3>1, <3>2, <4>2 DEF Course
          <5>2. QED
            BY <2>1, <4>1, <5>1 DEF Known
        <4>3. CASE job[t].pc = "pausing"
          BY <2>1, <3>1, <3>2, <4>1, <4>3 DEF Course, Known
        <4>4. CASE job[t].pc = "operating"
          <5>1. PICK n \in Nat : n <= Len(Steps) /\ Len(ops) = n /\ \A i \in 1 .. n : ops[i].step = Steps[i]
            <6>1. PICK n \in Nat : n = job[t].next - 1 /\ n <= Len(Steps)
              BY <2>1, <3>1 DEF Course, AJob
            <6>2. InOrder(ops, n)
              BY <3>1, <3>2, <4>4, <6>1 DEF Course
            <6>3. QED
              BY <6>1, <6>2 DEF InOrder
          <5>2. \A i \in 1 .. n : i \in 1 .. Len(Steps)
            BY <2>1, <5>1
          <5>3. QED
            BY <2>1, <4>1, <5>1, <5>2, StepsTyped DEF Known
        <4>5. CASE job[t].pc = "fresh"
          <5>1. PICK n \in Nat : n <= Len(Steps) /\ Len(ops) = n /\ \A i \in 1 .. n : ops[i].step = Steps[i]
            BY <2>1, <3>1, <3>2, <4>5 DEF Course, InOrder, AJob
          <5>2. \A i \in 1 .. n : i \in 1 .. Len(Steps)
            BY <2>1, <5>1
          <5>3. QED
            BY <2>1, <4>1, <5>1, <5>2, StepsTyped DEF Known
        <4>6. CASE job[t].pc = "releasing"
          <5>1. Whole(ops)
            BY <2>1, <3>1, <3>2, <4>6, BrokenTyped DEF Course
          <5>2. QED
            BY <2>1, <4>1, <5>1 DEF Whole, Known
        <4>7. QED
          BY <3>1, <4>2, <4>3, <4>4, <4>5, <4>6 DEF AJob, InFlight, Admitted, InSession
      <3>4. PICK rops \in Seq(AnOp) : rops = result[t].ops
        BY <3>1 DEF ARecord
      <3>5. Known(rops, Len(Steps) + 2)
        <4>1. Len(rops) \in Nat
          BY LenProperties
        <4>2. QED
          BY <2>1, <3>1, <3>4, <4>1 DEF Kept, Known
      <3>6. Operations(job[t].ops) /\ Operations(result[t].ops)
        BY <2>2, <3>2, <3>3, <3>4, <3>5
      <3>7. job[t].next \in DOMAIN Steps /\ job[t].freshAt \in 0 .. Len(Steps)
        BY <2>1, <3>1 DEF Course, AJob
      <3>8. QED
        BY <3>1, <3>6, <3>7 DEF AJob, ARecord, Kept
    <2>4. QED
      BY <2>1, <2>3 DEF TypeOK, Typed, Asked, ARun, AGate
  <1>2. QED
    BY <1>1, Invariant, PTL

\* Whatever the targets of a run are, a device has at most one of them working
\* on it, the gate has it reserved meanwhile, and a reservation nobody works
\* under is only what an unusable gate or an interrupted cleanup left behind.
THEOREM OneAtATime == Spec => []ReservedByOne
  <1>1. ASSUME SInv PROVE ReservedByOne
    <2>1. Held
      BY <1>1 DEF SInv
    <2>2. ASSUME NEW d \in Device
          PROVE  /\ Cardinality(Admittees(d)) <= 1
                 /\ Admittees(d) # {} => d \in gate.active
                 /\ d \in gate.active /\ Admittees(d) = {} => gate.broken \/ (Pool /\ run.stopping)
      <3>1. CASE Admittees(d) = {}
        <4>1. Cardinality(Admittees(d)) = 0
          BY <3>1, FS_EmptySet
        <4>2. ~Worked(d)
          BY <3>1 DEF Admittees, Worked
        <4>3. QED
          BY <2>1, <3>1, <4>1, <4>2 DEF Held, Cut
      <3>2. CASE Admittees(d) # {}
        <4>1. PICK t \in Target : DeviceOf[t] = d /\ job[t].pc \in Admitted
          BY <3>2 DEF Admittees
        <4>2. Admittees(d) = {t}
          BY <2>1, <4>1 DEF Held, Admittees
        <4>3. Cardinality(Admittees(d)) = 1
          BY <4>2, FS_Singleton
        <4>4. d \in gate.active
          BY <2>1, <4>1 DEF Held
        <4>5. QED
          BY <3>2, <4>3, <4>4
      <3>3. QED
        BY <3>1, <3>2
    <2>3. QED
      BY <2>2 DEF ReservedByOne
  <1>2. QED
    BY <1>1, Invariant, PTL

\* Unless the run confirms, a commit that was sent is sent once and told: it is
\* in the target's record whatever came of it, audited, and the target is not
\* called skipped.  (A confirm that an interrupt cuts is called skipped.)
THEOREM CommitsTold ==
    ASSUME \A s \in Specs : s.mode # "confirm"
    PROVE  Spec => []CommitTold
  <1>1. ASSUME SInv PROVE CommitTold
    <2>1. Mode # "confirm"
      BY <1>1 DEF SInv, Typed, ARun, Mode
    <2>2. ASSUME NEW t \in Target, job[t].pc = "done", sent[t] > 0,
                 Head(result[t].ops) # Head(Broken)
          PROVE  /\ sent[t] = 1 /\ result[t].status # "skipped"
                 /\ \E i \in DOMAIN result[t].ops : result[t].ops[i].step \in Commits
                 /\ result[t].audited \cap Commits # {}
      <3>1. Sending(job[t], result[t], sent[t]) /\ sent[t] # 0
        BY <1>1, <2>2, TargetTyped DEF Place
      <3>2. sent[t] = 1 /\ Told(result[t])
        BY <2>1, <2>2, <3>1 DEF Sending
      <3>3. result[t].ops \in Seq(AnOp) /\ Broken \in Seq(AnOp)
        BY <1>1, TargetTyped, BrokenTyped DEF ARecord
      <3>4. result[t].ops[1] # Broken[1]
        <4>1. Len(result[t].ops) > 0 /\ Len(Broken) = 1
          BY <1>1, <3>2, TargetTyped, BrokenTyped DEF Told
        <4>2. result[t].ops # <<>> /\ Broken # <<>>
          <5>1. \A ops \in Seq(AnOp) : Len(ops) > 0 => ops # <<>>
            OBVIOUS
          <5>2. QED
            BY <3>3, <4>1, <5>1
        <4>3. Head(result[t].ops) = result[t].ops[1] /\ Head(Broken) = Broken[1]
          BY <3>3, <4>2
        <4>4. QED
          BY <2>2, <4>3
      <3>5. QED
        BY <3>2, <3>4 DEF Told, Commits
    <2>3. QED
      BY <2>2 DEF CommitTold
  <1>2. QED
    BY <1>1, Invariant, PTL

\* Every device that met a fault the table cools down is cooled down when the
\* run is over, unless its gate was unusable or an interrupt may have cut the
\* cleanup of a kept session short.
THEOREM CooldownsDecided == Spec => []CooldownDecidedUncut
  <1>1. ASSUME SInv PROVE CooldownDecidedUncut
    <2>1. SUFFICES ASSUME ~(Pool /\ run.stopping), run.pc = "ended", ~gate.broken
                   PROVE  due \subseteq gate.cooled
      BY DEF CooldownDecidedUncut, CooldownDecided
    <2>2. \A t \in Target : job[t].pc = "done"
      BY <1>1, <2>1 DEF SInv, Place, Telling
    <2>3. QED
      BY <1>1, <2>1, <2>2 DEF SInv, Owed, Cut
  <1>2. QED
    BY <1>1, Invariant, PTL

\* A target called ok ran all its operations, or those up to an empty diff, in
\* order and without a fault: no retry, fresh session or late close hides one.
THEOREM OkIsWhole == Spec => []OkIsComplete
  <1>1. ASSUME SInv PROVE OkIsComplete
    <2>1. ASSUME NEW t \in Target, result[t].status = "ok" PROVE OkOps(result[t].ops)
      <3>1. Typed /\ result[t].ops \in Seq(AnOp) /\ Kept(result[t])
        BY <1>1, TargetTyped DEF Place, ARecord
      <3>2. Complete(result[t].ops) => OkOps(result[t].ops)
        BY <3>1, LateComplete
      <3>3. QED
        BY <2>1, <3>1, <3>2 DEF Kept
    <2>2. QED
      BY <2>1 DEF OkIsComplete, OkOps
  <1>2. QED
    BY <1>1, Invariant, PTL

-----------------------------------------------------------------------------
(* What no step does                                                       *)

\* After the interrupt no login begins and no commit or confirm is sent: what
\* was in flight only winds down, at whichever await the interrupt found it.
THEOREM InterruptStops == Spec => StopsAtInterrupt
  <1> DEFINE Winding == /\ sent' = sent
                        /\ \A d \in Device : gate'.logins[d] = gate.logins[d]
                        /\ \A t \in Target : job[t].pc \in {"queued", "pausing"} =>
                              job'[t].pc \in {job[t].pc, "done"}
  <1>1. ASSUME SInv, [Next]_vars, run.stopping PROVE Winding
    <2>1. run \in ARun /\ Asked /\ Typed
      BY <1>1 DEF SInv, Typed
    <2>2. CASE UNCHANGED vars
      BY <2>2 DEF vars
    <2>3. ASSUME NEW t \in Target, TaskStep(t) PROVE Winding
      <3>1. PICK j \in AJob, r \in ARecord, n \in Nat : Frame(t, j, r, n) /\ Winds(t, j, n)
        BY <2>3 DEF TaskStep
      <3>2. n = sent[t] /\ gate'.logins = gate.logins
            /\ (job[t].pc \in {"queued", "pausing"} => j.pc \in {job[t].pc, "done"})
        BY <1>1, <3>1 DEF Winds
      <3>3. sent' = sent
        BY <1>1, <3>1, <3>2, TargetTyped DEF Frame
      <3>4. \A u \in Target : job'[u] = IF u = t THEN j ELSE job[u]
        BY <2>1, <3>1 DEF Frame, Typed
      <3>5. QED
        BY <3>2, <3>3, <3>4
    <2>4. CASE \E t \in Target : Begin(t) \/ PauseEnds(t) \/ Released(t)
                                 \/ Cancelled(t) \/ OverBudget(t) \/ Answered(t)
      BY <1>1, <2>3, <2>4, TargetStep
    <2>5. CASE Execute \/ ProbeEnds \/ Interrupt \/ Terminating
      BY <1>1, <2>1, <2>2, <2>5 DEF Execute, ProbeEnds, Interrupt, Terminating, Asked
    <2>6. CASE ProbeCancelled
      BY <2>6, OverTyped DEF ProbeCancelled
    <2>7. CASE End
      <3>1. gate'.logins = gate.logins
        BY <2>1, <2>7 DEF End, Typed, AGate
      <3>2. QED
        BY <2>7, <3>1 DEF End
    <2>8. QED
      BY <1>1, <2>2, <2>4, <2>5, <2>6, <2>7 DEF Next
  <1>2. SInv /\ [Next]_vars => [run.stopping => Winding]_vars
    BY <1>1
  <1>3. QED
    BY <1>2, Invariant, PTL DEF Spec, StopsAtInterrupt

\* Once a device met a fault the table cools down, no other target and no retry
\* of the run logs in to it: the cooldown, the reservation or the interrupt
\* that cut the cleanup keeps each of them out.
THEOREM CooledLeftAlone == Spec => LeftAlone
  <1> DEFINE Alone == \A t \in Target : job'[t].pc = "opening" /\ job[t].pc # "opening"
                                        => DeviceOf[t] \notin due
  <1>1. ASSUME SInv, [Next]_vars PROVE Alone
    <2>1. Typed
      BY <1>1 DEF SInv
    <2>2. ASSUME NEW t \in Target, TaskStep(t) PROVE Alone
      <3>1. PICK j \in AJob, r \in ARecord, n \in Nat :
                Frame(t, j, r, n) /\ GateStep(t, j.pc) /\ Winds(t, j, n)
        BY <2>2 DEF TaskStep
      <3>2. \A u \in Target : job'[u] = IF u = t THEN j ELSE job[u]
        BY <2>1, <3>1 DEF Frame, Typed
      <3>3. ASSUME j.pc = "opening", job[t].pc # "opening", DeviceOf[t] \in due PROVE FALSE
        <4>1. job[t].pc \notin Admitted /\ Enters(t)
          BY <3>1, <3>3 DEF GateStep, Admitted
        <4>2. job[t].pc \in {"queued", "pausing"}
          BY <2>2, <4>1 DEF TaskStep, Moving, InFlight
        <4>3. ~run.stopping
          BY <3>1, <3>3, <4>2 DEF Winds
        <4>4. PICK u \in Target : DeviceOf[u] = DeviceOf[t] /\ job[u].pc = "releasing"
          BY <1>1, <3>3, <4>1, <4>3 DEF SInv, Owed, Cut, Enters
        <4>5. DeviceOf[t] \in gate.active
          BY <1>1, <4>4 DEF SInv, Held, Admitted, InSession
        <4>6. QED
          BY <4>1, <4>5 DEF Enters
      <3>4. QED
        BY <3>2, <3>3
    <2>3. CASE \E t \in Target : Begin(t) \/ PauseEnds(t) \/ Released(t)
                                 \/ Cancelled(t) \/ OverBudget(t) \/ Answered(t)
      BY <1>1, <2>2, <2>3, TargetStep
    <2>4. CASE Execute \/ ProbeEnds \/ End \/ Terminating \/ UNCHANGED vars
      BY <2>4 DEF Execute, ProbeEnds, End, Terminating, vars
    <2>5. CASE ProbeCancelled
      <3>1. \A t \in Target : job'[t] = job[t] \/ job'[t] = Over
        BY <2>5 DEF ProbeCancelled
      <3>2. QED
        BY <3>1, OverTyped
    <2>6. CASE Interrupt
      <3>1. ASSUME NEW t \in Target PROVE job'[t] = Over \/ job'[t].pc = job[t].pc
        <4>1. PICK x \in AJob : x = job[t]
          BY <2>1 DEF Typed
        <4>2. job'[t] = Over \/ job'[t] = [x EXCEPT !.cancelled = CancelledBy(t)]
          BY <2>6, <4>1 DEF Interrupt
        <4>3. QED
          BY <4>1, <4>2 DEF AJob
      <3>2. QED
        BY <3>1, OverTyped
    <2>7. QED
      BY <1>1, <2>3, <2>4, <2>5, <2>6 DEF Next
  <1>2. SInv /\ [Next]_vars => [Alone]_vars
    BY <1>1
  <1>3. QED
    BY <1>2, Invariant, PTL DEF Spec, LeftAlone

-----------------------------------------------------------------------------
(* What a run promises                                                     *)

PStage == CASE run.pc \in {"asked", "probing"} -> "asked"
            [] run.pc = "going" -> "on"
            [] OTHER -> run.pc
PTold == [t \in Target |-> result[t].status]

\* A step of a target tells it, sends to it, or is of no interest to the caller.
LEMMA TargetPromised ==
    ASSUME SInv, Mode # "confirm", NEW t \in Target, TaskStep(t)
    PROVE  Promise!Next \/ UNCHANGED Promise!vars
  <1>1. PICK j \in AJob, r \in ARecord, n \in Nat :
            Frame(t, j, r, n) /\ Place(t, j, r, n) /\ Winds(t, j, n)
    BY DEF TaskStep
  <1>2. run' = run /\ run.pc = "going" /\ t \in Listed /\ Typed
    BY <1>1, MovingIsOn, TargetTyped DEF TaskStep, Frame
  <1>3. /\ Listed' = Listed /\ run'.stopping = run.stopping /\ run'.pc = run.pc
        /\ sent' = [sent EXCEPT ![t] = n] /\ PStage = "on"
    BY <1>1, <1>2, SpecKept DEF Frame, PStage
  <1>4. PTold' = [PTold EXCEPT ![t] = r.status] /\ PTold[t] = result[t].status
    BY <1>1, <1>2 DEF Frame, PTold, Typed
  <1>5. result[t].status = "none"
    <2>1. job[t].pc # "done"
      BY DEF TaskStep, Moving, InFlight, Admitted, InSession
    <2>2. QED
      BY <1>2, <2>1, TargetTyped DEF Place, Telling
  <1>6. PStage' = PStage
    BY <1>2 DEF PStage
  <1>7. sent = [sent EXCEPT ![t] = sent[t]] /\ sent[t] \in Nat /\ sent \in [Target -> Nat]
    BY TargetTyped DEF Typed
  <1>8. CASE n # sent[t]
    <2>1. n = 1 /\ sent[t] = 0 /\ j.pc = "operating" /\ ~run.stopping
      BY <1>1, <1>7, <1>8 DEF Winds, Place, Sending
    <2>2. r.status = "none"
      BY <1>1, <1>2, <2>1 DEF Place, Telling
    <2>3. PTold' = PTold
      BY <1>4, <1>5, <2>2 DEF PTold
    <2>4. Promise!Send(t)
      BY <1>2, <1>3, <1>4, <1>5, <1>6, <2>1, <2>3 DEF Promise!Send, Promise!Untold, PTold, PStage
    <2>5. QED
      BY <2>4 DEF Promise!Next
  <1>9. CASE n = sent[t] /\ j.pc # "done"
    <2>1. r.status = "none"
      BY <1>1, <1>2, <1>9 DEF Place, Telling
    <2>2. PTold' = PTold
      BY <1>4, <1>5, <2>1 DEF PTold
    <2>3. QED
      BY <1>3, <1>6, <1>7, <1>9, <2>2 DEF Promise!vars, PTold, PStage
  <1>10. CASE n = sent[t] /\ j.pc = "done"
    <2>1. r.status \in {"ok", "failed", "skipped"}
      BY <1>1, <1>2, <1>10 DEF Place, Telling, ARecord
    <2>2. r.status = "skipped" => sent[t] = 0
      BY <1>1, <1>10 DEF Place, Sending, Told
    <2>3. Promise!Tell(t)
      BY <1>2, <1>3, <1>4, <1>5, <1>6, <1>7, <1>10, <2>1, <2>2
         DEF Promise!Tell, Promise!Untold, Promise!Status, PTold, PStage
    <2>4. QED
      BY <2>3 DEF Promise!Next, Promise!Progress
  <1>11. QED
    BY <1>8, <1>9, <1>10

\* Unless the run confirms: a refused run has touched no device; a target is
\* told one status, once; what is called skipped was sent no commit; nothing is
\* sent twice, nor once the interrupt came; the run ends with every target told.
THEOREM RunKeepsPromise ==
    ASSUME \A s \in Specs : s.mode # "confirm"
    PROVE  Spec => Promise!Init /\ [][Promise!Next]_(Promise!vars)
  <1>1. Init => Promise!Init
    <2>1. SUFFICES ASSUME Init PROVE Promise!Init
      OBVIOUS
    <2>2. Listed \subseteq Target
      BY <2>1, InitHolds, SpecTyped DEF SInv, RunSpec, Listed
    <2>3. run.pc = "asked" /\ run.stopping = FALSE
      BY <2>1 DEF Init
    <2>4. \A t \in Target : result[t].status = "none"
      BY <2>1 DEF Init, Unknown
    <2>5. QED
      BY <2>1, <2>2, <2>3, <2>4 DEF Init, Promise!Init
  <1>2. ASSUME SInv, [Next]_vars PROVE Promise!Next \/ UNCHANGED Promise!vars
    <2>1. /\ Typed /\ run \in ARun /\ Mode # "confirm" /\ Asked /\ Listed \subseteq Target
          /\ \A t \in Target : Place(t, job[t], result[t], sent[t])
      BY <1>2, SpecTyped DEF SInv, Typed, ARun, Mode, RunSpec, Listed
    <2>2. CASE UNCHANGED vars
      BY <2>2 DEF vars, Promise!vars, Listed
    <2>3. CASE \E t \in Target : Begin(t) \/ PauseEnds(t) \/ Released(t)
                                 \/ Cancelled(t) \/ OverBudget(t) \/ Answered(t)
      BY <1>2, <2>1, <2>3, TargetStep, TargetPromised
    <2>4. CASE (Execute \/ ProbeEnds \/ ProbeCancelled) /\ UNCHANGED <<job, result, sent>>
      <3>1. /\ run.pc \in {"asked", "probing"} /\ run'.pc \in {"probing", "going", "refused"}
            /\ run'.stopping = run.stopping /\ run'.spec = run.spec
        BY <2>1, <2>4 DEF Execute, ProbeEnds, ProbeCancelled, ARun
      <3>2. Listed' = Listed
        BY <3>1, SpecKept
      <3>3. CASE run'.pc = "probing"
        BY <2>4, <3>1, <3>2, <3>3 DEF Promise!vars
      <3>4. CASE run'.pc = "going"
        <4>1. Promise!Start
          BY <2>4, <3>1, <3>2, <3>4 DEF Promise!Start
        <4>2. QED
          BY <4>1 DEF Promise!Next, Promise!Progress
      <3>5. CASE run'.pc = "refused"
        <4>1. Promise!Refuse
          BY <2>4, <3>1, <3>2, <3>5 DEF Promise!Refuse
        <4>2. QED
          BY <4>1 DEF Promise!Next, Promise!Progress
      <3>6. QED
        BY <3>1, <3>3, <3>4, <3>5
    <2>5. CASE ProbeCancelled /\ run'.pc = "going"
      <3>1. /\ run.pc = "probing" /\ run.stopping /\ run'.pc = "going" /\ run'.stopping = run.stopping
            /\ run'.spec = run.spec /\ sent' = sent
        BY <2>1, <2>5 DEF ProbeCancelled, ARun
      <3>2. Listed' = Listed
        BY <3>1, SpecKept
      <3>3. \A t \in Target : result'[t].status = IF t \in Listed THEN "skipped" ELSE "none"
        BY <2>1, <2>5 DEF ProbeCancelled, Unknown, ARun
      <3>4. \A t \in Target : t \notin Listed => result[t].status = "none"
        BY <2>1 DEF Place, Telling
      <3>5. Promise!Start
        BY <3>1, <3>2, <3>3, <3>4 DEF Promise!Start, Promise!Skips
      <3>6. QED
        BY <3>5 DEF Promise!Next, Promise!Progress
    <2>6. CASE Interrupt
      <3>1. /\ run.pc \in {"probing", "going"} /\ ~run.stopping /\ run'.stopping = TRUE /\ run'.pc = run.pc
            /\ run'.spec = run.spec /\ sent' = sent
        BY <2>1, <2>6 DEF Interrupt, ARun
      <3>2. Listed' = Listed
        BY <3>1, SpecKept
      <3>3. PICK queued : queued = {t \in Target : run.pc = "going" /\ job[t].pc = "queued"}
        OBVIOUS
      <3>4. \A t \in Target : result'[t].status = IF t \in queued THEN "skipped" ELSE result[t].status
        BY <2>6, <3>3 DEF Interrupt, Unknown
      <3>5. \A t \in queued : t \in Listed /\ result[t].status = "none" /\ sent[t] = 0
        BY <2>1, <3>3 DEF Place, Telling, Sending
      <3>6. queued # {} => run.pc = "going"
        BY <3>3
      <3>7. Promise!Stop
        <4>1. queued \in SUBSET {t \in Promise!Untold : PStage = "on" /\ sent[t] = 0}
          BY <2>1, <3>3, <3>5, <3>6 DEF Promise!Untold, PStage
        <4>2. Promise!Skips(queued)
          BY <3>4 DEF Promise!Skips
        <4>3. QED
          BY <3>1, <3>2, <4>1, <4>2 DEF Promise!Stop, PStage
      <3>8. QED
        BY <3>7 DEF Promise!Next
    <2>7. CASE End
      <3>1. /\ run.pc = "going" /\ run'.pc = "ended" /\ run'.stopping = run.stopping
            /\ run'.spec = run.spec /\ sent' = sent
        BY <2>1, <2>7 DEF End, ARun
      <3>2. Listed' = Listed
        BY <3>1, SpecKept
      <3>3. \A t \in Target : result'[t].status = result[t].status
        BY <1>2, <2>7, EndKeeps
      <3>4. \A t \in Listed : result[t].status # "none"
        BY <2>1, <2>7 DEF End, Place, Telling
      <3>5. Promise!End
        BY <2>1, <3>1, <3>2, <3>3, <3>4 DEF Promise!End, Promise!Untold
      <3>6. QED
        BY <3>5 DEF Promise!Next, Promise!Progress
    <2>8. CASE Execute \/ ProbeEnds
      BY <2>4, <2>8 DEF Execute, ProbeEnds
    <2>9. CASE ProbeCancelled /\ run'.pc # "going"
      <3>1. ProbeCancelled /\ UNCHANGED <<job, result, sent>>
        BY <2>1, <2>9 DEF ProbeCancelled, ARun
      <3>2. QED
        BY <2>4, <3>1
    <2>10. QED
      BY <1>2, <2>2, <2>3, <2>5, <2>6, <2>7, <2>8, <2>9 DEF Next, Terminating
  <1>3. SInv /\ [Next]_vars => [Promise!Next]_(Promise!vars)
    BY <1>2
  <1>4. QED
    BY <1>1, <1>3, Invariant, PTL DEF Spec

-----------------------------------------------------------------------------
(* The logins of a run and its plan                                        *)

\* The logins a task can have asked for so far, one an attempt: none before it
\* begins, the attempt's unless it found a session kept, all once it is over.
Spent(j) ==
    IF j.pc = "queued" THEN 0
    ELSE IF j.pc = "done" THEN Retries + 1
    ELSE IF j.pc = "opening" /\ j.kept THEN j.attempt - 1 ELSE j.attempt

Credit(d) == {c \in Listed \X (1 .. (Retries + 1)) : DeviceOf[c[1]] = d /\ c[2] <= Spent(job[c[1]])}

\* No login is counted that no attempt stands for; a run that is on was planned.
Counted == Mode # "batch" => \A d \in Device : gate.logins[d] <= Cardinality(Credit(d))
PlanFits == run.pc \in {"probing", "going"} => \A t \in Listed : Planned(KeyOf[t]) <= RateLimit
LInv == Counted /\ PlanFits

\* A step of t asks for no login, or for one that its next attempt stands for.
LoginStep(t) ==
    /\ Spent(job[t]) <= Spent(job'[t])
    /\ \/ gate'.logins = gate.logins
       \/ /\ gate'.logins = [gate.logins EXCEPT ![DeviceOf[t]] = @ + 1]
          /\ Spent(job[t]) + 1 <= Spent(job'[t])

LEMMA SpentTyped ==
    ASSUME NEW j \in AJob
    PROVE  Spent(j) \in 0 .. (Retries + 1)
  BY DEF AJob, Spent

LEMMA OverSpends ==
    ASSUME SInv, NEW t \in Target, job' = [job EXCEPT ![t] = Over], gate'.logins = gate.logins
    PROVE  LoginStep(t)
  <1>1. job[t] \in AJob /\ job'[t] = Over
    BY TargetTyped DEF SInv, Typed
  <1>2. Spent(Over) = Retries + 1
    BY OverTyped DEF Spent
  <1>3. QED
    BY <1>1, <1>2, SpentTyped DEF LoginStep

LEMMA SettleSpends ==
    ASSUME SInv, NEW t \in Target, NEW cool, gate' = Settle(gate, DeviceOf[t], cool)
    PROVE  gate'.logins = gate.logins
  BY TargetTyped, Settles

LEMMA AttemptOverSpends ==
    ASSUME SInv, NEW t \in Target, job[t].pc \in Admitted, NEW ops \in Seq(AnOp),
           AttemptOver(t, job[t].attempt, ops, gate)
    PROVE  LoginStep(t)
  <1>1. gate'.logins = gate.logins
    BY SettleSpends DEF AttemptOver
  <1>2. CASE job' = [job EXCEPT ![t] = Over]
    BY <1>1, <1>2, OverSpends
  <1>3. CASE job' = [job EXCEPT ![t] = [Idle EXCEPT !.pc = "pausing", !.attempt = job[t].attempt,
                                                    !.ops = ops]]
    <2>1. job[t] \in AJob /\ job \in [Target -> AJob]
      BY TargetTyped DEF SInv, Typed
    <2>2. PICK j : j = [Idle EXCEPT !.pc = "pausing", !.attempt = job[t].attempt, !.ops = ops]
      OBVIOUS
    <2>3. job'[t] = j /\ j.pc = "pausing" /\ j.attempt = job[t].attempt
      BY <1>3, <2>1, <2>2, OverTyped DEF AJob
    <2>4. Spent(j) = job[t].attempt
      BY <2>3 DEF Spent
    <2>5. Spent(job[t]) <= job[t].attempt
      BY <2>1 DEF Spent, AJob, Admitted, InSession
    <2>6. QED
      BY <1>1, <2>3, <2>4, <2>5 DEF LoginStep
  <1>4. QED
    BY <1>2, <1>3 DEF AttemptOver, Recorded

\* A session that is released, or an operation that starts: the attempt is the same.
LEMMA GoesOnSpends ==
    ASSUME SInv, NEW t \in Target, job[t].pc \in Admitted, gate'.logins = gate.logins,
           NEW j \in AJob, job'[t] = j, j.attempt = job[t].attempt, j.pc \in {"operating", "releasing"}
    PROVE  LoginStep(t)
  <1>1. Spent(j) = job[t].attempt
    BY DEF Spent
  <1>2. Spent(job[t]) <= job[t].attempt
    BY TargetTyped DEF Spent, AJob, Admitted, InSession
  <1>3. QED
    BY <1>1, <1>2 DEF LoginStep

LEMMA OperationsOverSpends ==
    ASSUME SInv, NEW t \in Target, job[t].pc \in Admitted, NEW ops \in Seq(AnOp),
           OperationsOver(t, ops, gate)
    PROVE  LoginStep(t)
  <1>1. CASE AttemptOver(t, job[t].attempt, ops, gate)
    BY <1>1, AttemptOverSpends
  <1>2. CASE gate' = gate /\ job' = [job EXCEPT ![t].pc = "releasing", ![t].ops = ops]
    <2>1. PICK x \in AJob : x = job[t] /\ job \in [Target -> AJob]
      BY TargetTyped DEF SInv, Typed
    <2>2. PICK j : j = [x EXCEPT !.pc = "releasing", !.ops = ops]
      OBVIOUS
    <2>3. JobIs(j, "releasing", x.attempt, x.next, ops, x.freshAt, x.cancelled, x.pastCommit)
      <3>1. "releasing" \in InFlight
        BY DEF InFlight, Admitted, InSession
      <3>2. QED
        BY <2>1, <2>2, <3>1, SetPhase
    <2>4. job'[t] = j
      BY <1>2, <2>1, <2>2
    <2>5. j \in AJob /\ j.attempt = job[t].attempt /\ j.pc = "releasing"
      BY <2>1, <2>3 DEF JobIs
    <2>6. QED
      BY <1>2, <2>4, <2>5, GoesOnSpends
  <1>3. QED
    BY <1>1, <1>2 DEF OperationsOver

LEMMA StartSpends ==
    ASSUME SInv, NEW t \in Target, job[t].pc \in Admitted, NEW next \in Nat \ {0}, NEW ops \in Seq(AnOp),
           Start(t, next, ops, gate)
    PROVE  LoginStep(t)
  <1> DEFINE past == (Steps[next] = "commit")
  <1>1. PICK x \in AJob : x = job[t] /\ job \in [Target -> AJob]
    BY TargetTyped DEF SInv, Typed
  <1>2. next \in Nat \ {0} /\ past \in BOOLEAN
    OBVIOUS
  <1>3. PICK j : j = [x EXCEPT !.pc = "operating", !.next = next, !.ops = ops, !.pastCommit = past]
    OBVIOUS
  <1>4. JobIs(j, "operating", x.attempt, next, ops, x.freshAt, x.cancelled, past)
    BY <1>1, <1>2, <1>3, SetStart
  <1>5. job'[t] = j /\ gate' = gate
    BY <1>1, <1>2, <1>3 DEF Start
  <1>6. j \in AJob /\ j.attempt = job[t].attempt /\ j.pc = "operating"
    BY <1>1, <1>4 DEF JobIs
  <1>7. QED
    BY <1>5, <1>6, GoesOnSpends

\* A login is counted where the window has room.
LEMMA CountsOne ==
    ASSUME NEW g \in AGate, NEW d \in Device
    PROVE  LoginCounted(g, d).logins = [g.logins EXCEPT ![d] = @ + 1]
  BY DEF AGate, LoginCounted

LEMMA AttemptSpends ==
    ASSUME SInv, NEW t \in Target, NEW attempt \in 1 .. (Retries + 1), Attempt(t, attempt),
           Spent(job[t]) = attempt - 1
    PROVE  LoginStep(t)
  <1> DEFINE d == DeviceOf[t]
  <1>1. gate \in AGate /\ d \in Device /\ job \in [Target -> AJob]
    BY TargetTyped DEF SInv, Typed
  <1>2. CASE job' = [job EXCEPT ![t] = Over] /\ gate' \in {gate, [gate EXCEPT !.broken = TRUE]}
    <2>1. gate'.logins = gate.logins
      BY <1>1, <1>2 DEF AGate
    <2>2. QED
      BY <1>2, <2>1, OverSpends
  <1>3. ASSUME NEW kept \in {FALSE, Pool}, gate' = Reserved(gate, d, ~kept),
               job' = [job EXCEPT ![t] = [Idle EXCEPT !.pc = "opening", !.kept = kept,
                                                      !.attempt = attempt]]
        PROVE  LoginStep(t)
    <2>1. kept \in BOOLEAN
      BY SpecTyped DEF RunSpec, Pool, SInv
    <2>2. PICK x \in AJob : x = Idle
      BY OverTyped
    <2>3. PICK j : j = [x EXCEPT !.pc = "opening", !.kept = kept, !.attempt = attempt]
      OBVIOUS
    <2>4. j.pc = "opening" /\ j.kept = kept /\ j.attempt = attempt
      BY <2>3 DEF AJob
    <2>5. job'[t] = j
      BY <1>1, <1>3, <2>2, <2>3
    <2>6. Spent(j) = IF kept THEN attempt - 1 ELSE attempt
      BY <2>1, <2>4 DEF Spent
    <2>7. gate'.logins = IF kept THEN gate.logins ELSE [gate.logins EXCEPT ![d] = @ + 1]
      <3>1. PICK h : h = IF kept THEN gate ELSE LoginCounted(gate, d)
        OBVIOUS
      <3>2. gate' = [h EXCEPT !.active = @ \cup {d}]
        BY <1>3, <2>1, <3>1 DEF Reserved
      <3>3. gate'.logins = h.logins
        BY <1>1, <3>1, <3>2 DEF LoginCounted, AGate
      <3>4. QED
        BY <1>1, <3>1, <3>3, CountsOne
    <2>8. QED
      BY <2>1, <2>5, <2>6, <2>7 DEF LoginStep
  <1>4. QED
    BY <1>2, <1>3 DEF Attempt, Recorded

\* Of the steps of a target outside a batch, only an attempt that opens and a
\* kept session that is not vouched for count a login.
LEMMA TargetSpends ==
    ASSUME SInv, Mode # "batch", NEW t \in Target,
           \/ Begin(t) \/ PauseEnds(t) \/ Released(t) \/ Cancelled(t) \/ OverBudget(t) \/ Answered(t)
    PROVE  LoginStep(t)
  <1>1. /\ Typed /\ job[t] \in AJob /\ job \in [Target -> AJob] /\ gate \in AGate
        /\ DeviceOf[t] \in Device /\ Course(job[t])
    BY TargetTyped DEF SInv, Typed, Place
  <1>2. PICK open : open = <<LocalOpen>> /\ open \in Seq(AnOp)
    BY <1>1, LocalOpenWhole
  <1>3. ASSUME Bug(t, gate) PROVE LoginStep(t)
    BY <1>3, SettleSpends, OverSpends DEF Bug
  <1>4. ASSUME NEW op, NEW status, FailedBefore(t, op, status), gate'.logins = gate.logins PROVE LoginStep(t)
    BY <1>4, OverSpends DEF FailedBefore
  <1>5. CASE Begin(t)
    <2>1. Spent(job[t]) = 0
      BY <1>5 DEF Begin, Spent
    <2>2. 1 \in 1 .. (Retries + 1) /\ Spent(job[t]) = 1 - 1
      BY <2>1
    <2>3. CASE Attempt(t, 1)
      BY <2>2, <2>3, AttemptSpends
    <2>4. QED
      BY <1>4, <1>5, <2>3 DEF Begin
  <1>6. CASE PauseEnds(t)
    <2>1. PICK a : a = job[t].attempt + 1
      OBVIOUS
    <2>2. a \in 1 .. (Retries + 1) /\ Spent(job[t]) = a - 1 /\ Attempt(t, a)
      BY <1>1, <1>6, <2>1 DEF PauseEnds, Course, AJob, Spent
    <2>3. QED
      BY <2>2, AttemptSpends
  <1>7. CASE Released(t)
    <2>1. job[t].pc \in Admitted /\ job[t].ops \in Seq(AnOp)
      BY <1>1, <1>7 DEF Released, Admitted, InSession, AJob
    <2>2. QED
      BY <1>3, <1>7, <2>1, AttemptOverSpends DEF Released
  <1>8. CASE Cancelled(t)
    <2>1. CASE PauseCancelled(t)
      BY <2>1, OverSpends DEF PauseCancelled, Recorded
    <2>2. CASE OpenCancelled(t)
      BY <1>2, <2>2, AttemptOverSpends DEF OpenCancelled, Admitted
    <2>3. CASE OperationCancelled(t)
      <3>1. gate'.logins = gate.logins
        BY <2>3, SettleSpends DEF OperationCancelled
      <3>2. QED
        BY <1>4, <2>3, <3>1 DEF OperationCancelled
    <2>4. CASE ReleaseCancelled(t)
      BY <1>4, <2>4 DEF ReleaseCancelled
    <2>5. QED
      BY <1>8, <2>1, <2>2, <2>3, <2>4 DEF Cancelled
  <1>9. ASSUME NEW fault \in Fault, OpenEnds(t, fault) PROVE LoginStep(t)
    <2>1. PICK ops : ops = <<Op("open", fault)>>
      OBVIOUS
    <2>2. ops \in Seq(AnOp)
      BY <1>1, <2>1, OpenWord, AloneWhole
    <2>3. QED
      BY <1>9, <2>1, <2>2, AttemptOverSpends DEF OpenEnds, Admitted
  <1>10. ASSUME NEW fault \in Fault \cup {NoFault}, NEW empty \in BOOLEAN, job[t].pc = "operating",
                Returned(t, fault, empty)
         PROVE  LoginStep(t)
    <2>1. /\ job[t].ops \in Seq(AnOp) /\ job[t].next \in 1 .. Len(Steps) /\ Len(Steps) \in Nat
          /\ InOrder(job[t].ops, job[t].next - 1) /\ job[t].pc \in Admitted
      BY <1>10, Operating
    <2> DEFINE n == job[t].next + 1
    <2>2. PICK ops : ops = Append(job[t].ops, Op(StepOf(t), fault))
      OBVIOUS
    <2>3. ops \in Seq(AnOp) /\ n \in Nat \ {0}
      <3>1. PICK k \in 1 .. Len(Steps) : k = job[t].next
        BY <2>1
      <3>2. ops = Append(job[t].ops, Op(Steps[k], fault)) /\ InOrder(job[t].ops, k - 1)
        BY <2>1, <2>2, <3>1 DEF StepOf
      <3>3. IsRan(ops, job[t].ops, k, fault)
        BY <1>1, <2>1, <3>2, Ran
      <3>4. QED
        BY <2>1, <2>2, <3>3 DEF IsRan
    <2>4. PICK more : more = Append(ops, Op("confirm", AFault("REFUSED", TRUE)))
      OBVIOUS
    <2>5. more \in Seq(AnOp)
      <3>1. "confirm" \in Word
        BY DEF Word, OwnSteps
      <3>2. Op("confirm", AFault("REFUSED", TRUE)) \in AnOp
        BY <1>1, <3>1, FaultsTyped, OpTyped
      <3>3. QED
        BY <2>3, <2>4, <3>2, Appended
    <2>6. \/ OperationsOver(t, ops, gate) \/ OperationsOver(t, more, gate)
          \/ Start(t, n, ops, gate)
      BY <1>10, <2>2, <2>4 DEF Returned
    <2>7. QED
      BY <2>1, <2>3, <2>5, <2>6, OperationsOverSpends, StartSpends
  <1>11. TimedOut \in Fault /\ OpenFaults \subseteq Fault
    BY FaultsTyped
  <1>12. job[t].pc # "fresh"
    BY <1>1 DEF Course
  <1>13. CASE OverBudget(t)
    BY <1>9, <1>10, <1>11, <1>12, <1>13
       DEF OverBudget, OpenOverBudget, OperationOverBudget, FreshOverBudget, FreshEnds
  <1>14. CASE Answered(t)
    <2>1. CASE Opened(t)
      <3>1. <<>> \in Seq(AnOp) /\ 1 \in Nat \ {0}
        BY EmptySeq
      <3>2. QED
        BY <2>1, <3>1, StartSpends DEF Opened, Admitted
    <2>2. CASE NotReused(t)
      <3>1. CASE gate' = Settle(gate, DeviceOf[t], FALSE) /\ Recorded(t, <<LocalOpen>>, "skipped")
        BY <3>1, SettleSpends, OverSpends DEF Recorded
      <3>2. CASE gate' = LoginCounted(gate, DeviceOf[t]) /\ job' = [job EXCEPT ![t].kept = FALSE]
        <4>1. gate'.logins = [gate.logins EXCEPT ![DeviceOf[t]] = @ + 1]
          BY <1>1, <3>2, CountsOne
        <4>2. PICK x \in AJob : x = job[t]
          BY <1>1
        <4>3. PICK j : j = [x EXCEPT !.kept = FALSE]
          OBVIOUS
        <4>4. job'[t] = j /\ j.pc = x.pc /\ j.attempt = x.attempt /\ ~j.kept
          BY <1>1, <3>2, <4>2, <4>3 DEF AJob
        <4>5. x.pc = "opening" /\ x.kept /\ x.attempt \in Nat
          BY <2>2, <4>2 DEF NotReused, AJob
        <4>6. Spent(j) = x.attempt /\ Spent(x) = x.attempt - 1
          BY <4>4, <4>5 DEF Spent
        <4>7. QED
          BY <4>1, <4>2, <4>4, <4>5, <4>6 DEF LoginStep
      <3>3. QED
        BY <1>3, <2>2, <3>1, <3>2 DEF NotReused
    <2>3. CASE OperationReturns(t)
      <3>1. PICK fault \in Faults(t) \cup {NoFault}, empty \in BOOLEAN : Returned(t, fault, empty)
        BY <2>3 DEF OperationReturns
      <3>2. fault \in Fault \cup {NoFault}
        BY <1>1, SpecTyped, FaultsTyped DEF Faults
      <3>3. QED
        BY <1>10, <2>3, <3>1, <3>2 DEF OperationReturns
    <2>4. CASE OperationBreaks(t)
      <3>1. job[t].pc \in Admitted
        BY <2>4 DEF OperationBreaks, Admitted, InSession
      <3>2. CASE gate' = gate /\ job' = [job EXCEPT ![t].pc = "releasing", ![t].ops = Broken]
        <4>1. PICK x \in AJob : x = job[t]
          BY <1>1
        <4>2. PICK j : j = [x EXCEPT !.pc = "releasing", !.ops = Broken]
          OBVIOUS
        <4>3. Broken \in Seq(AnOp) /\ "releasing" \in InFlight
          BY <1>1, BrokenTyped DEF InFlight, Admitted, InSession
        <4>4. JobIs(j, "releasing", x.attempt, x.next, Broken, x.freshAt, x.cancelled, x.pastCommit)
          BY <4>1, <4>2, <4>3, SetPhase
        <4>5. job'[t] = j
          BY <1>1, <3>2, <4>1, <4>2
        <4>6. j \in AJob /\ j.attempt = job[t].attempt /\ j.pc = "releasing"
          BY <4>1, <4>4 DEF JobIs
        <4>7. QED
          BY <3>1, <3>2, <4>5, <4>6, GoesOnSpends
      <3>3. QED
        BY <1>3, <2>4, <3>2 DEF OperationBreaks
    <2>5. CASE OpenFails(t) \/ OpenBreaks(t)
      BY <1>3, <1>9, <1>11, <2>5 DEF OpenFails, OpenBreaks
    <2>6. QED
      BY <1>12, <1>14, <2>1, <2>2, <2>3, <2>4, <2>5 DEF Answered, FreshOpened, FreshFails, FreshEnds
  <1>15. QED
    BY <1>5, <1>6, <1>7, <1>8, <1>13, <1>14

\* What a device may be credited with is finite.
LEMMA CreditFinite ==
    ASSUME Typed, NEW S \in SUBSET (Listed \X (1 .. (Retries + 1)))
    PROVE  IsFiniteSet(S) /\ Cardinality(S) \in Nat
  <1>1. Listed \in SUBSET Target /\ IsFiniteSet(Target)
    BY SpecTyped DEF RunSpec, Listed
  <1>2. IsFiniteSet(Listed)
    BY <1>1, FS_Subset
  <1>3. IsFiniteSet(1 .. (Retries + 1))
    <2>1. PICK n \in Nat : n = Retries + 1
      OBVIOUS
    <2>2. QED
      BY <2>1, UpTo
  <1>4. IsFiniteSet(Listed \X (1 .. (Retries + 1)))
    BY <1>2, <1>3, FS_Product
  <1>5. QED
    BY <1>4, FS_Subset, FS_CardinalityType

LEMMA CreditGrows ==
    ASSUME Typed, Typed', run'.spec = run.spec, NEW d,
           \A u \in Target : Spent(job[u]) <= Spent(job'[u])
    PROVE  /\ Credit(d) \subseteq Credit(d)'
           /\ IsFiniteSet(Credit(d)) /\ Cardinality(Credit(d)) \in Nat
           /\ IsFiniteSet(Credit(d)') /\ Cardinality(Credit(d)') \in Nat
           /\ Cardinality(Credit(d)) <= Cardinality(Credit(d)')
  <1>1. Listed' = Listed /\ Listed \subseteq Target
    BY SpecKept, SpecTyped DEF RunSpec, Listed
  <1>2. \A u \in Target : Spent(job[u])' = Spent(job'[u])
    BY DEF Spent
  <1>3. \A u \in Target : Spent(job[u]) \in Nat /\ Spent(job'[u]) \in Nat
    <2>1. \A u \in Target : job[u] \in AJob /\ job'[u] \in AJob
      BY DEF Typed, AJob, AnOp
    <2>2. QED
      BY <2>1, SpentTyped
  <1>4. Credit(d) \subseteq Credit(d)'
    <2>1. SUFFICES ASSUME NEW c \in Credit(d) PROVE c \in Credit(d)'
      OBVIOUS
    <2>2. /\ c \in Listed \X (1 .. (Retries + 1)) /\ DeviceOf[c[1]] = d
          /\ c[2] <= Spent(job[c[1]]) /\ c[1] \in Target /\ c[2] \in Nat
      BY <1>1, <2>1 DEF Credit
    <2>3. c[2] <= Spent(job'[c[1]])
      BY <1>3, <2>2
    <2>4. QED
      BY <1>1, <1>2, <2>2, <2>3 DEF Credit
  <1>5. /\ Credit(d) \in SUBSET (Listed \X (1 .. (Retries + 1)))
        /\ Credit(d)' \in SUBSET (Listed \X (1 .. (Retries + 1)))
    BY <1>1 DEF Credit
  <1>6. /\ IsFiniteSet(Credit(d)) /\ Cardinality(Credit(d)) \in Nat
        /\ IsFiniteSet(Credit(d)') /\ Cardinality(Credit(d)') \in Nat
    BY <1>5, CreditFinite
  <1>7. QED
    BY <1>4, <1>6, FS_Subset

\* A step that counts no login.
LEMMA CountedKept ==
    ASSUME Typed, Typed', Counted, run'.spec = run.spec, gate'.logins = gate.logins,
           \A u \in Target : Spent(job[u]) <= Spent(job'[u])
    PROVE  Counted'
  <1>1. Mode' = Mode
    BY SpecKept
  <1>2. ASSUME Mode # "batch", NEW d \in Device PROVE gate.logins[d] <= Cardinality(Credit(d)')
    <2>1. gate.logins[d] <= Cardinality(Credit(d)) /\ gate.logins[d] \in Nat
      BY <1>2 DEF Counted, Typed, AGate
    <2>2. QED
      BY <2>1, CreditGrows
  <1>3. QED
    BY <1>1, <1>2 DEF Counted

\* A step that counts a login is the attempt's of its target.
LEMMA CountedMore ==
    ASSUME Typed, Typed', Counted, run'.spec = run.spec, NEW t \in Listed, t \in Target,
           gate'.logins = [gate.logins EXCEPT ![DeviceOf[t]] = @ + 1],
           \A u \in Target : Spent(job[u]) <= Spent(job'[u]), Spent(job[t]) + 1 <= Spent(job'[t])
    PROVE  Counted'
  <1> DEFINE d == DeviceOf[t]
             s == Spent(job[t])
             e == <<t, s + 1>>
  <1>1. Mode' = Mode /\ Listed' = Listed
    BY SpecKept
  <1>2. gate.logins \in [Device -> 0 .. RateLimit] /\ d \in Device
    BY DEF Typed, AGate
  <1>3. s \in Nat /\ Spent(job'[t]) \in 0 .. (Retries + 1)
    <2>1. job[t] \in AJob /\ job'[t] \in AJob
      BY DEF Typed, AJob, AnOp
    <2>2. QED
      BY <2>1, SpentTyped
  <1>4. e \in Credit(d)' /\ e \notin Credit(d)
    <2>1. s + 1 \in 1 .. (Retries + 1)
      BY <1>3
    <2>2. e \in Credit(d)'
      BY <1>1, <2>1 DEF Credit, Spent
    <2>3. e \notin Credit(d)
      BY <1>3 DEF Credit
    <2>4. QED
      BY <2>2, <2>3
  <1>5. ASSUME Mode # "batch", NEW c \in Device PROVE gate'.logins[c] <= Cardinality(Credit(c)')
    <2>1. gate.logins[c] <= Cardinality(Credit(c)) /\ gate.logins[c] \in Nat
      BY <1>2, <1>5 DEF Counted
    <2>2. CASE c # d
      <3>1. gate'.logins[c] = gate.logins[c]
        BY <1>2, <2>2
      <3>2. QED
        BY <2>1, <3>1, CreditGrows
    <2>3. CASE c = d
      <3>1. gate'.logins[d] = gate.logins[d] + 1
        BY <1>2
      <3>2. IsFiniteSet(Credit(d)) /\ IsFiniteSet(Credit(d)') /\ Credit(d) \subseteq Credit(d)'
            /\ Cardinality(Credit(d)) \in Nat /\ Cardinality(Credit(d)') \in Nat
        BY CreditGrows
      <3>3. Cardinality(Credit(d) \cup {e}) = Cardinality(Credit(d)) + 1
        BY <1>4, <3>2, FS_AddElement
      <3>4. Credit(d) \cup {e} \in SUBSET Credit(d)'
        BY <1>4, <3>2
      <3>5. Cardinality(Credit(d) \cup {e}) <= Cardinality(Credit(d)')
        BY <3>2, <3>4, FS_Subset
      <3>6. QED
        BY <2>1, <2>3, <3>1, <3>2, <3>3, <3>5
    <2>4. QED
      BY <2>2, <2>3
  <1>6. QED
    BY <1>1, <1>5 DEF Counted

\* The plan is made before the run, and the run keeps its targets.
LEMMA PlanKept ==
    ASSUME PlanFits, run'.spec = run.spec,
           run'.pc \in {"probing", "going"} => run.pc \in {"probing", "going"}
    PROVE  PlanFits'
  <1>1. Listed' = Listed
    BY SpecKept
  <1>2. \A key : Planned(key)' = Planned(key)
    BY <1>1 DEF Planned
  <1>3. QED
    BY <1>1, <1>2 DEF PlanFits

\* The run's steps count no login, and leave a task as it is or over.
LEMMA LoginsKept ==
    ASSUME SInv, SInv', LInv, [Next]_vars
    PROVE  LInv'
  <1>1. Typed /\ Typed' /\ Counted /\ PlanFits /\ run \in ARun /\ Asked
    BY DEF SInv, Typed, LInv
  <1>2. \A u \in Target : Spent(job[u]) \in 0 .. (Retries + 1)
    BY <1>1, SpentTyped DEF Typed
  <1>3. Spent(Over) = Retries + 1
    BY OverTyped DEF Spent
  <1>4. CASE UNCHANGED vars
    <2>1. run'.spec = run.spec /\ run'.pc = run.pc /\ job' = job /\ gate'.logins = gate.logins
      BY <1>4 DEF vars
    <2>2. \A u \in Target : Spent(job[u]) <= Spent(job'[u])
      BY <1>2, <2>1
    <2>3. QED
      BY <1>1, <2>1, <2>2, CountedKept, PlanKept DEF LInv
  <1>5. ASSUME NEW t \in Target, \/ Begin(t) \/ PauseEnds(t) \/ Released(t)
                                 \/ Cancelled(t) \/ OverBudget(t) \/ Answered(t)
        PROVE  LInv'
    <2>1. PICK j \in AJob, r \in ARecord, n \in Nat : Moving(t) /\ Frame(t, j, r, n) /\ Winds(t, j, n)
                                                      /\ GateStep(t, j.pc) /\ Place(t, j, r, n)
      BY <1>5, TargetStep DEF TaskStep
    <2>2. run' = run /\ run'.spec = run.spec /\ run'.pc = run.pc /\ t \in Listed
      BY <2>1, MovingIsOn DEF Frame
    <2>3. \A u \in Target : job'[u] = IF u = t THEN j ELSE job[u]
      BY <1>1, <2>1 DEF Frame, Typed
    <2>4. PlanFits'
      BY <1>1, <2>2, PlanKept
    <2>5. CASE Mode = "batch"
      <3>1. Mode' = "batch"
        BY <2>2, <2>5, SpecKept
      <3>2. Counted'
        BY <3>1 DEF Counted
      <3>3. QED
        BY <2>4, <3>2 DEF LInv
    <2>6. CASE Mode # "batch"
      <3>1. LoginStep(t)
        BY <1>5, <2>6, TargetSpends
      <3>2. \A u \in Target : Spent(job[u]) <= Spent(job'[u])
        BY <1>2, <2>3, <3>1 DEF LoginStep
      <3>3. Counted'
        BY <1>1, <2>2, <3>1, <3>2, CountedKept, CountedMore DEF LoginStep
      <3>4. QED
        BY <2>4, <3>3 DEF LInv
    <2>7. QED
      BY <2>5, <2>6
  <1>6. ASSUME run'.spec = run.spec, gate'.logins = gate.logins,
               \A u \in Target : job'[u] = Over \/ Spent(job'[u]) = Spent(job[u])
        PROVE  Counted'
    <2>1. \A u \in Target : Spent(job[u]) <= Spent(job'[u])
      BY <1>2, <1>3, <1>6
    <2>2. QED
      BY <1>1, <1>6, <2>1, CountedKept
  <1>7. CASE Execute
    <2>1. run'.spec = run.spec /\ (run'.pc = "refused" \/ \A t \in Listed : Planned(KeyOf[t]) <= RateLimit)
      BY <1>1, <1>7 DEF Execute, ARun
    <2>2. Counted'
      BY <1>6, <1>7, <2>1 DEF Execute
    <2>3. Listed' = Listed /\ \A key : Planned(key)' = Planned(key)
      BY <2>1, SpecKept DEF Planned
    <2>4. PlanFits'
      BY <2>1, <2>3 DEF PlanFits
    <2>5. QED
      BY <2>2, <2>4 DEF LInv
  <1>8. CASE ProbeEnds \/ ProbeCancelled
    <2>1. run'.spec = run.spec /\ run.pc = "probing" /\ gate' = gate
      BY <1>1, <1>8 DEF ProbeEnds, ProbeCancelled, ARun
    <2>2. \A u \in Target : job'[u] = Over \/ job'[u] = job[u]
      BY <1>8 DEF ProbeEnds, ProbeCancelled
    <2>3. QED
      BY <1>1, <1>6, <2>1, <2>2, PlanKept DEF LInv
  <1>9. CASE Interrupt
    <2>1. run'.spec = run.spec /\ run'.pc = run.pc /\ gate' = gate
      BY <1>1, <1>9 DEF Interrupt, ARun
    <2>2. ASSUME NEW u \in Target PROVE job'[u] = Over \/ Spent(job'[u]) = Spent(job[u])
      <3>1. PICK x \in AJob : x = job[u]
        BY <1>1 DEF Typed
      <3>2. PICK c \in BOOLEAN : c = CancelledBy(u)
        BY DEF CancelledBy, Begun
      <3>3. job'[u] = Over \/ job'[u] = [x EXCEPT !.cancelled = c]
        BY <1>9, <3>1, <3>2 DEF Interrupt
      <3>4. job'[u] = Over \/ (job'[u].pc = x.pc /\ job'[u].kept = x.kept /\ job'[u].attempt = x.attempt)
        BY <3>3 DEF AJob
      <3>5. QED
        BY <3>1, <3>4 DEF Spent
    <2>3. QED
      BY <1>1, <1>6, <2>1, <2>2, PlanKept DEF LInv
  <1>10. CASE End
    <2>1. run'.spec = run.spec /\ run'.pc = "ended" /\ gate'.logins = gate.logins /\ job' = job
      BY <1>1, <1>10 DEF End, ARun, Typed, AGate
    <2>2. QED
      BY <1>1, <1>6, <2>1, PlanKept DEF LInv
  <1>11. QED
    BY <1>4, <1>5, <1>7, <1>8, <1>9, <1>10 DEF Next, Terminating

LEMMA LoginsInit == Init => LInv
  <1>1. SUFFICES ASSUME Init PROVE LInv
    OBVIOUS
  <1>2. Typed
    BY <1>1, InitHolds DEF SInv
  <1>3. \A d \in Device : gate.logins[d] = 0
    BY <1>1 DEF Init
  <1>4. ASSUME NEW d PROVE Cardinality(Credit(d)) \in Nat
    BY <1>2, CreditFinite DEF Credit
  <1>5. Counted
    BY <1>3, <1>4 DEF Counted
  <1>6. PlanFits
    BY <1>1 DEF Init, PlanFits
  <1>7. QED
    BY <1>5, <1>6 DEF LInv

\* Where listings of one device share a session key, as checked runs do, the
\* plan made before the run leaves every target that pauses its next login: the
\* attempts its device's listings may still make are among the planned ones.
THEOREM PlanSuffices ==
    ASSUME \A t, u \in Target : DeviceOf[t] = DeviceOf[u] => KeyOf[t] = KeyOf[u]
    PROVE  Spec => []NeverHalfway
  <1>1. SInv /\ LInv => NeverHalfway
    <2>1. SUFFICES ASSUME SInv, LInv, NEW t \in Target, job[t].pc = "pausing", Mode # "batch"
                   PROVE  ~Full(gate, DeviceOf[t])
      BY DEF NeverHalfway
    <2> DEFINE d == DeviceOf[t]
               P == {u \in Listed : KeyOf[u] = KeyOf[t]}
               W == P \X (1 .. (Retries + 1))
               e == <<t, Retries + 1>>
    <2>2. run.pc = "going" /\ t \in Listed /\ Typed /\ d \in Device
      BY <2>1, RunIsOn, TargetTyped DEF InFlight
    <2>3. gate.logins[d] \in Nat /\ gate.logins[d] <= Cardinality(Credit(d))
      BY <2>1, <2>2 DEF LInv, Counted, Typed, AGate
    <2>4. Spent(job[t]) \in Nat /\ Spent(job[t]) <= Retries
      <3>1. job[t] \in AJob /\ Course(job[t])
        BY <2>1, TargetTyped DEF Place
      <3>2. QED
        BY <2>1, <3>1 DEF Course, Spent, AJob
    <2>5. Listed \in SUBSET Target /\ IsFiniteSet(Listed)
      <3>1. Listed \in SUBSET Target
        BY <2>2, SpecTyped DEF RunSpec, Listed
      <3>2. QED
        BY <3>1, FS_Subset
    <2>6. IsFiniteSet(P) /\ Cardinality(P) \in Nat
      <3>1. P \in SUBSET Listed
        OBVIOUS
      <3>2. QED
        BY <2>5, <3>1, FS_Subset, FS_CardinalityType
    <2>7. IsFiniteSet(1 .. (Retries + 1)) /\ Cardinality(1 .. (Retries + 1)) = Retries + 1
      <3>1. PICK n \in Nat : n = Retries + 1
        OBVIOUS
      <3>2. IsFiniteSet(1 .. n) /\ Cardinality(1 .. n) = n
        BY UpTo
      <3>3. QED
        BY <3>1, <3>2
    <2>8. IsFiniteSet(W) /\ Cardinality(W) = Planned(KeyOf[t])
      <3>1. PICK p, i : p = P /\ i = 1 .. (Retries + 1)
        OBVIOUS
      <3>2. IsFiniteSet(p) /\ IsFiniteSet(i)
        BY <2>6, <2>7, <3>1
      <3>3. IsFiniteSet(p \X i) /\ Cardinality(p \X i) = Cardinality(p) * Cardinality(i)
        BY <3>2, FS_Product
      <3>4. QED
        BY <2>7, <3>1, <3>3 DEF Planned
    <2>9. Cardinality(W) <= RateLimit
      BY <2>1, <2>2, <2>8 DEF LInv, PlanFits
    <2>10. Credit(d) \subseteq W \ {e}
      <3>1. SUFFICES ASSUME NEW c \in Credit(d) PROVE c \in W \ {e}
        OBVIOUS
      <3>2. /\ c \in Listed \X (1 .. (Retries + 1)) /\ c[1] \in Target /\ c[2] \in Nat
            /\ DeviceOf[c[1]] = d /\ c[2] <= Spent(job[c[1]])
        BY <2>5, <3>1 DEF Credit
      <3>3. c[1] \in P
        BY <2>1, <3>2
      <3>4. c # e
        BY <2>4, <3>2
      <3>5. QED
        BY <3>2, <3>3, <3>4
    <2>11. IsFiniteSet(W \ {e}) /\ Cardinality(W \ {e}) = Cardinality(W) - 1
      <3>1. PICK w, x : w = W /\ x = e
        OBVIOUS
      <3>2. x \in w /\ IsFiniteSet(w)
        BY <2>2, <2>8, <3>1
      <3>3. IsFiniteSet(w \ {x}) /\ Cardinality(w \ {x}) = Cardinality(w) - 1
        BY <3>2, FS_RemoveElement
      <3>4. QED
        BY <3>1, <3>3
    <2>12. Cardinality(Credit(d)) <= Cardinality(W \ {e}) /\ Cardinality(Credit(d)) \in Nat
      <3>1. Credit(d) \in SUBSET (W \ {e})
        BY <2>10
      <3>2. QED
        BY <2>11, <3>1, FS_Subset, FS_CardinalityType
    <2>13. Cardinality(W) \in Nat
      BY <2>8, FS_CardinalityType
    <2>14. QED
      BY <2>3, <2>9, <2>11, <2>12, <2>13 DEF Full
  <1>2. Spec => [](SInv /\ LInv)
    <2>1. Init => SInv /\ LInv
      BY InitHolds, LoginsInit
    <2>2. (SInv /\ LInv) /\ [Next]_vars => (SInv /\ LInv)'
      BY StepKeeps, LoginsKept
    <2>3. QED
      BY <2>1, <2>2, PTL DEF Spec
  <1>3. QED
    BY <1>1, <1>2, PTL
=============================================================================
