-------------------------- MODULE EditSessionsProofs --------------------------
(***************************************************************************)
(* Proofs about EditSessions, for any sessions of the three transports and  *)
(* any number of lines.  The invariant speaks of the flags of a session     *)
(* under names that all transports share.  The steps of an edit, Ask, End,  *)
(* Tear, are shown to keep it once; each action of a transport is then one  *)
(* of them.  A step of a session leaves all others alone (SessionStep), one *)
(* of the device leaves this side alone (DeviceStep).                       *)
(***************************************************************************)
EXTENDS EditSessions, SequenceTheorems, TLAPS

USE DeviceAssumption, SessionsAssumption

-----------------------------------------------------------------------------
(* The edit of a session, whatever transport types it                      *)

\* The flags of NetconfSession and of CliEngine under one name: the device has
\* granted the candidate; there are lines to roll back; nothing is in doubt.
Has(s) == IF s \in NetSession THEN net[s].locked ELSE cli[s].configured
Dirty(s) == IF s \in NetSession THEN net[s].dirty ELSE cli[s].dirty
Fit(s) == IF s \in NetSession THEN ~net[s].doubtful ELSE cli[s].ready
Op(s) == IF s \in NetSession THEN net[s].op ELSE cli[s].op
Awaits(s) == IF s \in NetSession THEN net[s].awaits ELSE cli[s].awaits

\* Requests that leave lock and candidate as they are, or only add lines.
Step == {"load", "diff", "check", "history"}
Cleanup == {"rollback", "unlock", "bye"}

\* r is among the requests the device has not worked off.
Due(s, r) == \E i \in 1..Len(wire[s].queue) : wire[s].queue[i] = r
Quiet(s) == wire[s].queue = <<>>
Newest(s) == wire[s].queue[Len(wire[s].queue)]
\* They are steps, all of them or all before the last.
Steady(s) == \A i \in 1..Len(wire[s].queue) : wire[s].queue[i] \in Step
Ordered(s) == \A i \in 1..Len(wire[s].queue) :
                 i < Len(wire[s].queue) => wire[s].queue[i] \in Step

Up(s) == wire[s].up
Answer(s) == wire[s].answer
At(s) == caller[s].stage
Holds(s) == dev.holder = s

-----------------------------------------------------------------------------
(* The invariant                                                           *)

\* Between the device and one session: what changes the candidate comes from the
\* session that holds it, and a request other than a step is the last.
DeviceInv(s) ==
    /\ Up(s) => wire[s].served
    /\ ~wire[s].served => Quiet(s) /\ ~Holds(s)
    /\ Answer(s) # "none" => Up(s) /\ Quiet(s)
    /\ Due(s, "load") \/ Due(s, "commit") \/ Due(s, "rollback") \/ Due(s, "unlock") => Holds(s)
    /\ Due(s, "unlock") => s \notin dev.cand /\ ~Due(s, "load")
    /\ dev.fate[s] = "sent" <=> Due(s, "commit")
    /\ Ordered(s)
    /\ s \in dev.cand => Holds(s)

\* The thread in a method, and the call it runs for.
ThreadInv(s) ==
    /\ Op(s) = "none" <=> Awaits(s) = "none"
    /\ Op(s) = "none" \/ At(s) = "gone" => caller[s].call = "none"
    /\ Op(s) # "none" /\ At(s) # "gone" =>
          caller[s].call = Op(s) /\ At(s) \in Follows(Op(s))
    /\ Awaits(s) = "lock" => Op(s) \in {"load", "diff", "commit", "confirm"}
    /\ Awaits(s) = "load" => Op(s) = "load"
    /\ Awaits(s) \in {"diff", "check"} => Op(s) = "diff"
    /\ Awaits(s) = "history" => Op(s) \in {"confirm", "history"}
    /\ Awaits(s) = "commit" => Op(s) \in {"commit", "confirm"}
    /\ Awaits(s) \in {"rollback", "unlock"} => Op(s) \in {"release", "close"}
    /\ Awaits(s) = "bye" => Op(s) = "close"
    /\ Awaits(s) = "probe" => Op(s) = "reuse"
    /\ Awaits(s) = "login" => Op(s) \in {"load", "history"}
    /\ Awaits(s) = "exec" => Op(s) = "show"

\* What waits on the wire of a thread.
QueueInv(s) ==
    /\ Awaits(s) \notin Request /\ At(s) \notin {"doubted", "gone"} => Quiet(s)
    /\ Awaits(s) \in Request /\ Up(s) =>
          Fit(s) /\ IF Quiet(s) THEN Answer(s) # "none"
                                ELSE Answer(s) = "none" /\ Newest(s) = Awaits(s)
    /\ Awaits(s) \notin Request /\ Up(s) /\ Fit(s) => Steady(s)
    /\ Up(s) /\ Awaits(s) # "unlock" => ~Due(s, "unlock")
    /\ Len(wire[s].queue) <= 2
    /\ Up(s) /\ Awaits(s) \notin Cleanup => Len(wire[s].queue) <= 1

\* The flags and the device: who has the lock, and whose lines are left.
LockInv(s) ==
    /\ Up(s) /\ Has(s) /\ Awaits(s) # "unlock" => Holds(s)
    /\ Fit(s) /\ ~Has(s) /\ Awaits(s) # "lock" => ~Holds(s) /\ ~Due(s, "lock")
    /\ Awaits(s) = "lock" => ~Has(s)
    /\ Awaits(s) = "lock" /\ Up(s) /\ Quiet(s) =>
          IF Answer(s) = "ok" THEN Holds(s) /\ s \notin dev.cand ELSE ~Holds(s)
    /\ Awaits(s) = "lock" /\ Up(s) /\ ~Quiet(s) => ~Holds(s)
    /\ Awaits(s) = "unlock" /\ Up(s) /\ Quiet(s) /\ Answer(s) = "ok" => ~Holds(s)
    /\ Awaits(s) \in {"load", "diff", "check", "commit", "rollback", "unlock"} /\ Up(s) => Has(s)
    /\ Awaits(s) = "history" /\ Op(s) = "confirm" /\ Up(s) => Has(s)
    /\ Awaits(s) \in {"bye", "probe"} /\ Fit(s) => ~Has(s)
    /\ Up(s) /\ Has(s) /\ ~Dirty(s) => s \notin dev.cand /\ ~Due(s, "load")
    /\ Awaits(s) = "rollback" /\ Up(s) /\ Quiet(s) /\ Answer(s) = "ok" => s \notin dev.cand

\* The one commit of a borrow, and what is told of it.
CommitInv(s) ==
    /\ At(s) \in {"borrowed", "loaded", "changed", "asked"} =>
          caller[s].told = "nothing" /\ (Awaits(s) # "commit" => dev.fate[s] = "none")
    /\ Awaits(s) = "commit" /\ Up(s) /\ Quiet(s) =>
          IF Answer(s) = "ok" THEN dev.fate[s] = "landed" /\ s \notin dev.cand
                              ELSE dev.fate[s] = "refused"
    /\ Up(s) /\ Fit(s) /\ Dirty(s) /\ Awaits(s) # "commit" => dev.fate[s] \in {"none", "refused"}
    /\ Fit(s) /\ Awaits(s) # "commit" /\ At(s) # "gone" =>
          dev.fate[s] # "sent" /\ caller[s].told # "unknown"
    /\ At(s) = "kept" => Fit(s) /\ ~Has(s)

EditInv(s) == DeviceInv(s) /\ ThreadInv(s) /\ QueueInv(s) /\ LockInv(s) /\ CommitInv(s)

NetInv(s) ==
    /\ ~Fit(s) => ~Up(s) /\ ~Has(s)
    /\ At(s) = "gone" => ~Up(s)

CliInv(s) ==
    /\ Len(wire[s].queue) <= 1
    /\ Up(s) /\ Fit(s) /\ Awaits(s) \notin Request => Quiet(s)
    /\ At(s) = "gone" /\ Up(s) => Op(s) \in {"none", "load", "history"} /\ dev.fate[s] = "none"
    /\ At(s) = "gone" /\ Up(s) => s \in MuxSession
    /\ s \notin MuxSession => Awaits(s) \notin {"login", "exec"}
    /\ Awaits(s) = "load" => Dirty(s)

MuxInv(s) ==
    /\ mux[s].shell \in {"none", "starting", "opening"} =>
          Quiet(s) /\ Answer(s) = "none" /\ ~Holds(s) /\ ~Has(s)
    /\ mux[s].shell \in {"none", "starting"} => ~Up(s)
    /\ mux[s].shell \in {"starting", "opening"} <=> Awaits(s) = "login"
    /\ mux[s].shell \in {"starting", "opening"} => Fit(s)
    /\ mux[s].shell \in {"starting", "opening"} /\ At(s) # "gone" => mux[s].ready
    /\ mux[s].shell = "none" /\ At(s) # "gone" => Fit(s)
    /\ mux[s].shell = "late" => At(s) = "gone"
    /\ At(s) = "gone" => ~mux[s].ready
    /\ At(s) = "gone" /\ Up(s) => mux[s].shell \in {"opening", "late"}
    /\ mux[s].shell # "on" => dev.fate[s] = "none"
    /\ Awaits(s) \in Request => mux[s].shell \in {"on", "late"}

SessionInv(s) ==
    /\ EditInv(s)
    /\ s \in NetSession => NetInv(s)
    /\ s \in CliSession => CliInv(s)
    /\ s \in MuxSession => MuxInv(s)

\* While a session holds the candidate nobody else has lines in it.
Exclusive == dev.holder \in Session => Other \notin dev.cand

-----------------------------------------------------------------------------
(* The transports use the wire and the caller as EditCaller has them       *)

LEMMA NetconfUses ==
    ASSUME NEW s, NEW x, NEW y
    PROVE  /\ Netconf!Put(s, x) <=> Put(s, x)
           /\ Netconf!Read(s) <=> Read(s)
           /\ Netconf!Cut(s) <=> Cut(s)
           /\ Netconf!Renew(s) <=> Renew(s)
           /\ Netconf!May(s, x) <=> May(s, x)
           /\ Netconf!Calls(s, x) <=> Calls(s, x)
           /\ Netconf!ReturnsTelling(s, x, y) <=> ReturnsTelling(s, x, y)
           /\ Netconf!NewBorrow(s) <=> NewBorrow(s)
           /\ Netconf!Abandons(s) <=> Abandons(s)
  BY DEF Netconf!Put, Put, Netconf!Read, Read, Netconf!Cut, Cut, Netconf!Renew, Renew,
     Netconf!May, May, Netconf!Follows, Follows, Netconf!Borrowed, Borrowed,
     Netconf!Calls, Calls, Netconf!ReturnsTelling, ReturnsTelling,
     Netconf!NewBorrow, NewBorrow, Netconf!Abandons, Abandons

LEMMA CliUses ==
    ASSUME NEW s, NEW x, NEW y
    PROVE  /\ Cli!Put(s, x) <=> Put(s, x)
           /\ Cli!Read(s) <=> Read(s)
           /\ Cli!Cut(s) <=> Cut(s)
           /\ Cli!Connect(s) <=> Connect(s)
           /\ Cli!Renew(s) <=> Renew(s)
           /\ Cli!May(s, x) <=> May(s, x)
           /\ Cli!Calls(s, x) <=> Calls(s, x)
           /\ Cli!ReturnsTelling(s, x, y) <=> ReturnsTelling(s, x, y)
           /\ Cli!Returns(s, x) <=> ReturnsTelling(s, x, caller[s].told)
           /\ Cli!NewBorrow(s) <=> NewBorrow(s)
           /\ Cli!Abandons(s) <=> Abandons(s)
  BY DEF Cli!Put, Put, Cli!Read, Read, Cli!Cut, Cut, Cli!Connect, Connect, Cli!Renew, Renew,
     Cli!May, May, Cli!Follows, Follows, Cli!Borrowed, Borrowed,
     Cli!Calls, Calls, Cli!Returns, Cli!ReturnsTelling, ReturnsTelling,
     Cli!NewBorrow, NewBorrow, Cli!Abandons, Abandons

-----------------------------------------------------------------------------
(* The types                                                               *)

\* The type invariant, with the requests on a wire as a sequence.
AWire == [queue : Seq(Request), answer : {"none", "ok", "empty", "refused"},
          up : BOOLEAN, served : BOOLEAN]
DevTyped == dev \in Dev /\ wire \in [Session -> AWire]
CallerTyped == caller \in [Session -> Caller]
NetTyped == net \in [NetSession -> Netconf!Net]
CliTyped == cli \in [CliSession -> Cli!Engine]
MuxTyped == mux \in [MuxSession -> Cli!Mux]
FlagsTyped == NetTyped /\ CliTyped /\ MuxTyped
Typed == DevTyped /\ CallerTyped /\ FlagsTyped

LEMMA DevFields ==
    ASSUME DevTyped, NEW s \in Session
    PROVE  /\ dev = [holder |-> dev.holder, cand |-> dev.cand, fate |-> dev.fate]
           /\ dev.holder \in Session \cup {NoOne} /\ dev.cand \in SUBSET (Session \cup {Other})
           /\ dev.fate \in [Session -> {"none", "sent", "landed", "refused"}]
           /\ dev.fate[s] \in {"none", "sent", "landed", "refused"}
           /\ wire[s] \in AWire /\ wire[s].queue \in Seq(Request)
           /\ Len(wire[s].queue) \in Nat
           /\ Answer(s) \in {"none", "ok", "empty", "refused"}
           /\ Up(s) \in BOOLEAN /\ wire[s].served \in BOOLEAN
  BY DEF DevTyped, Dev, AWire, Answer, Up

-----------------------------------------------------------------------------
(* What the primitives of the transport do, field by field                 *)

\* Nothing is added to the requests of s, and none worked off.
QueueSame(s) ==
    /\ Len(wire'[s].queue) = Len(wire[s].queue)
    /\ Quiet(s)' <=> Quiet(s)
    /\ Newest(s)' = Newest(s)
    /\ Steady(s)' <=> Steady(s)
    /\ Ordered(s)' <=> Ordered(s)
    /\ \A x \in Request : Due(s, x)' <=> Due(s, x)

QueueLonger(s, r) ==
    /\ Len(wire'[s].queue) = Len(wire[s].queue) + 1
    /\ ~Quiet(s)'
    /\ Newest(s)' = r
    /\ Steady(s)' <=> Steady(s) /\ r \in Step
    /\ Ordered(s)' <=> Steady(s)
    /\ \A x \in Request : Due(s, x)' <=> Due(s, x) \/ x = r

\* The device's side of another session, and the candidate, stay as they are.
DevBeside(s) ==
    /\ dev'.holder = dev.holder /\ dev'.cand = dev.cand
    /\ Holds(s)' <=> Holds(s)
    /\ \A q \in Session \ {s} : wire'[q] = wire[q] /\ dev'.fate[q] = dev.fate[q]

SentTo(s, r) ==
    /\ Up(s) => QueueLonger(s, r)
    /\ ~Up(s) => QueueSame(s)
    /\ wire'[s].up = wire[s].up /\ wire'[s].served = wire[s].served
    /\ wire'[s].answer = "none"
    /\ dev'.fate[s] = IF Up(s) /\ r = "commit" THEN "sent" ELSE dev.fate[s]

ReadFrom(s) ==
    /\ QueueSame(s)
    /\ wire'[s].up = wire[s].up /\ wire'[s].served = wire[s].served
    /\ wire'[s].answer = "none"
    /\ dev'.fate[s] = dev.fate[s]

CutOff(s) ==
    /\ QueueSame(s)
    /\ ~wire'[s].up /\ wire'[s].served = wire[s].served
    /\ wire'[s].answer = "none"
    /\ dev'.fate[s] = dev.fate[s]

Renewed(s) ==
    /\ QueueSame(s)
    /\ wire'[s].up = wire[s].up /\ wire'[s].served = wire[s].served
    /\ wire'[s].answer = "none"
    /\ dev'.fate[s] = "none"

LEMMA SameQueue ==
    ASSUME NEW s, wire'[s].queue = wire[s].queue
    PROVE  QueueSame(s)
  BY DEF QueueSame, Quiet, Newest, Steady, Ordered, Due

LEMMA LongerQueue ==
    ASSUME NEW s, wire[s].queue \in Seq(Request), NEW r \in Request,
           wire'[s].queue = Append(wire[s].queue, r)
    PROVE  QueueLonger(s, r)
  <1> DEFINE q == wire[s].queue
             p == wire'[s].queue
  <1>1. PICK n \in Nat : n = Len(q)
    OBVIOUS
  <1>2. Len(p) = n + 1 /\ p[n + 1] = r /\ \A i \in 1..n : p[i] = q[i]
    BY <1>1
  <1> HIDE DEF q, p
  <1>3. n + 1 \in 1..(n + 1) /\ 1..n \subseteq 1..(n + 1)
        /\ \A i \in 1..(n + 1) : i \in 1..n \/ i = n + 1
    OBVIOUS
  <1>4. Len(p) = Len(q) + 1 /\ p[Len(p)] = r /\ p # <<>>
    <2>1. p \in Seq(Request)
      BY DEF p, q
    <2> QED
      BY <1>1, <1>2, <2>1
  <1>5. (\A i \in 1..Len(p) : p[i] \in Step) <=> (\A i \in 1..Len(q) : q[i] \in Step) /\ r \in Step
    BY <1>1, <1>2, <1>3
  <1>6. (\A i \in 1..Len(p) : i < Len(p) => p[i] \in Step) <=> (\A i \in 1..Len(q) : q[i] \in Step)
    BY <1>1, <1>2, <1>3
  <1>7. \A x : (\E i \in 1..Len(p) : p[i] = x) <=> (\E i \in 1..Len(q) : q[i] = x) \/ x = r
    BY <1>1, <1>2, <1>3
  <1>8. QED
    BY <1>4, <1>5, <1>6, <1>7 DEF p, q, QueueLonger, Quiet, Newest, Steady, Ordered, Due

LEMMA PutFields ==
    ASSUME DevTyped, NEW s \in Session, NEW r \in Request, Put(s, r)
    PROVE  SentTo(s, r) /\ DevBeside(s) /\ DevTyped'
  <1>1. wire[s] \in AWire /\ wire[s].up \in BOOLEAN /\ wire[s].queue \in Seq(Request)
    BY DevFields DEF Up
  <1> DEFINE p == IF wire[s].up THEN Append(wire[s].queue, r) ELSE wire[s].queue
             w == [wire[s] EXCEPT !.queue = p]
             v == [w EXCEPT !.answer = "none"]
  <1>2. wire' \in [Session -> AWire] /\ wire'[s] = v /\ \A q \in Session \ {s} : wire'[q] = wire[q]
    <2>1. p \in Seq(Request)
      BY <1>1
    <2>2. w \in AWire /\ w.queue = p /\ w.up = wire[s].up /\ w.served = wire[s].served
      BY <1>1, <2>1 DEF AWire
    <2>3. v \in AWire
      BY <2>2 DEF AWire
    <2>4. wire' = [[wire EXCEPT ![s] = w] EXCEPT ![s] = v]
      <3>1. wire' = [wire EXCEPT ![s].queue = p, ![s].answer = "none"]
        BY DEF Put
      <3>2. [wire EXCEPT ![s] = w][s] = w
        BY DEF DevTyped
      <3> QED
        BY <3>1, <3>2
    <2> HIDE DEF w, v
    <2> QED
      BY <2>2, <2>3, <2>4 DEF DevTyped
  <1>3. /\ wire'[s].queue = p
        /\ wire'[s].up = wire[s].up /\ wire'[s].served = wire[s].served
        /\ wire'[s].answer = "none"
    BY <1>1, <1>2 DEF AWire
  <1>4. wire' \in [Session -> AWire]
    BY <1>2
  <1>5. /\ dev' \in Dev
        /\ dev'.holder = dev.holder /\ dev'.cand = dev.cand
        /\ dev'.fate[s] = IF wire[s].up /\ r = "commit" THEN "sent" ELSE dev.fate[s]
        /\ \A q \in Session \ {s} : dev'.fate[q] = dev.fate[q]
    BY DEF Put, DevTyped, Dev
  <1>6. Up(s) => QueueLonger(s, r)
    BY <1>1, <1>3, LongerQueue DEF Up
  <1>7. ~Up(s) => QueueSame(s)
    BY <1>3, SameQueue DEF Up
  <1>8. QED
    BY <1>2, <1>3, <1>4, <1>5, <1>6, <1>7 DEF SentTo, DevBeside, Holds, DevTyped, Up

LEMMA ReadFields ==
    ASSUME DevTyped, NEW s \in Session, Read(s)
    PROVE  ReadFrom(s) /\ DevBeside(s) /\ DevTyped'
  <1>1. /\ wire'[s].queue = wire[s].queue
        /\ wire'[s].up = wire[s].up /\ wire'[s].served = wire[s].served
        /\ wire'[s].answer = "none"
        /\ \A q \in Session \ {s} : wire'[q] = wire[q]
        /\ wire' \in [Session -> AWire]
    <2> DEFINE w == [wire[s] EXCEPT !.answer = "none"]
    <2>1. wire' = [wire EXCEPT ![s] = w]
      BY DEF Read
    <2>2. /\ w \in AWire /\ w.queue = wire[s].queue /\ w.up = wire[s].up
          /\ w.served = wire[s].served /\ w.answer = "none"
      BY DevFields DEF AWire
    <2> HIDE DEF w
    <2> QED
      BY <2>1, <2>2 DEF DevTyped
  <1>2. dev' = dev
    BY DEF Read
  <1>3. QED
    BY <1>1, <1>2, SameQueue DEF ReadFrom, DevBeside, Holds, DevTyped

LEMMA CutFields ==
    ASSUME DevTyped, NEW s \in Session, Cut(s)
    PROVE  CutOff(s) /\ DevBeside(s) /\ DevTyped'
  <1> DEFINE w == [wire[s] EXCEPT !.up = FALSE]
             v == [w EXCEPT !.answer = "none"]
  <1>0. wire[s] \in AWire
    BY DevFields
  <1>a. w \in AWire /\ w.queue = wire[s].queue /\ w.up = FALSE /\ w.served = wire[s].served
    BY <1>0 DEF AWire
  <1>b. /\ v \in AWire /\ v.queue = wire[s].queue /\ v.up = FALSE /\ v.served = wire[s].served
        /\ v.answer = "none"
    BY <1>a DEF AWire
  <1>c. wire' = [[wire EXCEPT ![s] = w] EXCEPT ![s] = v]
    <2>1. wire' = [wire EXCEPT ![s].up = FALSE, ![s].answer = "none"]
      BY DEF Cut
    <2>2. [wire EXCEPT ![s] = w][s] = w
      BY DEF DevTyped
    <2> QED
      BY <2>1, <2>2
  <1> HIDE DEF w, v
  <1>1. /\ wire'[s].queue = wire[s].queue
        /\ wire'[s].up = FALSE /\ wire'[s].served = wire[s].served
        /\ wire'[s].answer = "none"
        /\ \A q \in Session \ {s} : wire'[q] = wire[q]
        /\ wire' \in [Session -> AWire]
    BY <1>b, <1>c DEF DevTyped
  <1>2. dev' = dev
    BY DEF Cut
  <1>3. QED
    BY <1>1, <1>2, SameQueue DEF CutOff, DevBeside, Holds, DevTyped

LEMMA RenewFields ==
    ASSUME DevTyped, NEW s \in Session, Renew(s)
    PROVE  Renewed(s) /\ DevBeside(s) /\ DevTyped'
  <1>1. /\ wire'[s].queue = wire[s].queue
        /\ wire'[s].up = wire[s].up /\ wire'[s].served = wire[s].served
        /\ wire'[s].answer = "none"
        /\ \A q \in Session \ {s} : wire'[q] = wire[q]
        /\ wire' \in [Session -> AWire]
    BY DEF Renew, DevTyped, AWire
  <1>2. /\ dev' \in Dev /\ dev'.holder = dev.holder /\ dev'.cand = dev.cand
        /\ dev'.fate[s] = "none"
        /\ \A q \in Session \ {s} : dev'.fate[q] = dev.fate[q]
    BY DEF Renew, DevTyped, Dev
  <1>3. QED
    BY <1>1, <1>2, SameQueue DEF Renewed, DevBeside, Holds, DevTyped

-----------------------------------------------------------------------------
(* What a step of a thread, or of its caller, does to an edit              *)

\* The flags of s after the step, and the caller's part in it.
Becomes(s, has, dirty, fit, op, awaits) ==
    /\ Has(s)' <=> has
    /\ Dirty(s)' <=> dirty
    /\ Fit(s)' <=> fit
    /\ Op(s)' = op
    /\ Awaits(s)' = awaits

CallerSame(s) == At(s)' = At(s) /\ caller'[s].call = caller[s].call /\ caller'[s].told = caller[s].told

Called(s, call) == At(s)' = At(s) /\ caller'[s].call = call /\ caller'[s].told = caller[s].told

Returned(s, stage, word) ==
    IF At(s) = "gone" THEN CallerSame(s)
    ELSE At(s)' = stage /\ caller'[s].call = "none" /\ caller'[s].told = word

Abandoned(s) ==
    /\ At(s) # "gone" /\ At(s)' = "gone"
    /\ caller'[s].call = "none"
    /\ caller'[s].told = IF caller[s].call \in {"commit", "confirm"} THEN "unknown" ELSE caller[s].told

CallerBeside(s) == \A q \in Session \ {s} : caller'[q] = caller[q]
FlagsBeside(s) ==
    /\ \A q \in NetSession \ {s} : net'[q] = net[q]
    /\ \A q \in CliSession \ {s} : cli'[q] = cli[q]
    /\ \A q \in MuxSession \ {s} : mux'[q] = mux[q]

LEMMA CallerFields ==
    ASSUME CallerTyped, NEW s \in Session
    PROVE  /\ caller[s] \in Caller
           /\ At(s) \in Stage /\ caller[s].call \in Call \cup {"none"}
           /\ caller[s].told \in {"nothing", "committed", "failed", "unknown"}
  BY DEF CallerTyped, Caller, At

LEMMA CallsFields ==
    ASSUME CallerTyped, NEW s \in Session, NEW c \in Call, Calls(s, c)
    PROVE  Called(s, c) /\ CallerBeside(s) /\ CallerTyped'
  BY DEF Calls, Called, CallerBeside, CallerTyped, Caller, At

LEMMA ReturnsFields ==
    ASSUME CallerTyped, NEW s \in Session, NEW stage \in Stage,
           NEW word \in {"nothing", "committed", "failed", "unknown"},
           ReturnsTelling(s, stage, word)
    PROVE  Returned(s, stage, word) /\ CallerBeside(s) /\ CallerTyped'
  <1>1. CASE At(s) = "gone"
    BY <1>1 DEF ReturnsTelling, Returned, CallerSame, CallerBeside, CallerTyped, At
  <1>2. CASE At(s) # "gone"
    <2>1. caller' = [caller EXCEPT ![s] = [stage |-> stage, call |-> "none", told |-> word]]
      BY <1>2 DEF ReturnsTelling, At
    <2> QED
      BY <1>2, <2>1 DEF Returned, CallerBeside, CallerTyped, Caller, At
  <1>3. QED
    BY <1>1, <1>2

LEMMA BorrowFields ==
    ASSUME CallerTyped, NEW s \in Session, NewBorrow(s)
    PROVE  /\ At(s)' = "borrowed" /\ caller'[s].call = "none" /\ caller'[s].told = "nothing"
           /\ CallerBeside(s) /\ CallerTyped'
  BY DEF NewBorrow, CallerBeside, CallerTyped, Caller, Stage, Borrowed, At

LEMMA AbandonFields ==
    ASSUME CallerTyped, NEW s \in Session, Abandons(s)
    PROVE  Abandoned(s) /\ CallerBeside(s) /\ CallerTyped'
  <1>1. CASE caller[s].call \in {"commit", "confirm"}
    BY <1>1 DEF Abandons, Abandoned, CallerBeside, CallerTyped, Caller, Stage, Borrowed, At
  <1>2. CASE caller[s].call \notin {"commit", "confirm"}
    BY <1>2 DEF Abandons, Abandoned, CallerBeside, CallerTyped, Caller, Stage, Borrowed, At
  <1>3. QED
    BY <1>1, <1>2

LEMMA SameCaller ==
    ASSUME CallerTyped, UNCHANGED caller
    PROVE  CallerTyped' /\ \A s \in Session : CallerSame(s) /\ CallerBeside(s)
  BY DEF CallerTyped, CallerSame, CallerBeside, At

\* A session is of one transport.
LEMMA NetIsNotCli ==
    ASSUME NEW s \in NetSession
    PROVE  s \in Session /\ s \notin CliSession /\ s \notin MuxSession
  OBVIOUS

LEMMA CliIsNotNet ==
    ASSUME NEW s \in CliSession
    PROVE  s \in Session /\ s \notin NetSession
  OBVIOUS

LEMMA NetSet ==
    ASSUME FlagsTyped, NEW s \in NetSession, NEW n \in Netconf!Net,
           Netconf!Sets(s, n), UNCHANGED <<cli, mux>>
    PROVE  Becomes(s, n.locked, n.dirty, ~n.doubtful, n.op, n.awaits)
           /\ FlagsBeside(s) /\ FlagsTyped'
  <1>1. net' \in [NetSession -> Netconf!Net] /\ net'[s] = n
        /\ \A q \in NetSession \ {s} : net'[q] = net[q]
    BY DEF Netconf!Sets, FlagsTyped, NetTyped
  <1>2. QED
    BY <1>1, NetIsNotCli
       DEF Becomes, Has, Dirty, Fit, Op, Awaits, FlagsBeside, FlagsTyped, NetTyped, CliTyped, MuxTyped

LEMMA CliSet ==
    ASSUME FlagsTyped, NEW s \in CliSession, NEW e \in Cli!Engine,
           Cli!Sets(s, e), UNCHANGED net,
           MuxTyped', \A q \in MuxSession \ {s} : mux'[q] = mux[q]
    PROVE  Becomes(s, e.configured, e.dirty, e.ready, e.op, e.awaits)
           /\ FlagsBeside(s) /\ FlagsTyped' /\ cli'[s] = e
  <1>1. cli' \in [CliSession -> Cli!Engine] /\ cli'[s] = e
        /\ \A q \in CliSession \ {s} : cli'[q] = cli[q]
    BY DEF Cli!Sets, FlagsTyped, CliTyped
  <1>2. QED
    BY <1>1, CliIsNotNet
       DEF Becomes, Has, Dirty, Fit, Op, Awaits, FlagsBeside, FlagsTyped, NetTyped, CliTyped, MuxTyped

\* The fields of the flags, and the same under their common names.
LEMMA NetFields ==
    ASSUME FlagsTyped, NEW s \in NetSession
    PROVE  /\ net[s] \in Netconf!Net
           /\ net[s].locked \in BOOLEAN /\ net[s].dirty \in BOOLEAN /\ net[s].doubtful \in BOOLEAN
           /\ net[s].op \in Call \cup {"none"} /\ net[s].awaits \in Request \cup {"none"}
           /\ Has(s) <=> net[s].locked
           /\ Dirty(s) <=> net[s].dirty
           /\ Fit(s) <=> ~net[s].doubtful
           /\ Op(s) = net[s].op /\ Awaits(s) = net[s].awaits
  BY DEF FlagsTyped, NetTyped, Netconf!Net, Netconf!Call, Netconf!Request, Call, Request,
     Has, Dirty, Fit, Op, Awaits

LEMMA CliFields ==
    ASSUME FlagsTyped, NEW s \in CliSession
    PROVE  /\ cli[s] \in Cli!Engine
           /\ cli[s].configured \in BOOLEAN /\ cli[s].dirty \in BOOLEAN /\ cli[s].ready \in BOOLEAN
           /\ cli[s].sent \in BOOLEAN /\ cli[s].left \in 0..Lines
           /\ cli[s].op \in Call \cup {"none"}
           /\ cli[s].awaits \in Request \cup {"none", "login", "exec"}
           /\ Has(s) <=> cli[s].configured
           /\ Dirty(s) <=> cli[s].dirty
           /\ Fit(s) <=> cli[s].ready
           /\ Op(s) = cli[s].op /\ Awaits(s) = cli[s].awaits
  BY CliIsNotNet DEF FlagsTyped, CliTyped, Cli!Engine, Cli!Call, Cli!Request, Call, Request,
     Has, Dirty, Fit, Op, Awaits

-----------------------------------------------------------------------------
(* The steps of an edit                                                    *)

\* What the promise sees of a step of s that leaves the candidate alone.
Plays(s) ==
    \/ /\ dev'.fate[s] = dev.fate[s] /\ caller'[s].told = caller[s].told
       /\ At(s)' = "kept" <=> At(s) = "kept"
    \/ /\ Holds(s) /\ At(s) # "kept" /\ At(s)' # "kept"
       /\ dev.fate[s] = "none" /\ caller[s].told = "nothing"
       /\ dev'.fate[s] = "sent" /\ caller'[s].told = caller[s].told
    \/ /\ At(s) # "kept" /\ At(s)' # "kept" /\ dev'.fate[s] = dev.fate[s]
       /\ caller[s].told = "nothing"
       /\ caller'[s].told = "committed" => dev.fate[s] = "landed"
       /\ caller'[s].told = "failed" => dev.fate[s] = "refused"
    \/ /\ At(s)' = "kept"
       /\ ~Holds(s) /\ s \notin dev.cand /\ dev.fate[s] # "sent" /\ caller[s].told # "unknown"
       /\ dev'.fate[s] = dev.fate[s] /\ caller'[s].told = caller[s].told
    \/ /\ At(s) = "kept" /\ At(s)' # "kept"
       /\ dev'.fate[s] = "none" /\ caller'[s].told = "nothing"
    \/ /\ At(s)' # "kept"
       /\ dev'.fate[s] = dev.fate[s] /\ caller'[s].told = caller[s].told

\* What a step of s may send.
Careful(s) ==
    Len(wire'[s].queue) > Len(wire[s].queue) =>
        /\ s \in CliSession => Quiet(s)
        /\ Newest(s)' = "rollback" => dev.fate[s] \in {"none", "refused"}

Good(s) == EditInv(s)' /\ Plays(s) /\ Careful(s)

\* The thread sends r, in a call that begins or goes on; it ends its method, or
\* ends it with the transport.
AskStep(s, r, has, dirty, op) ==
    /\ Becomes(s, has, dirty, Fit(s), op, r)
    /\ SentTo(s, r) /\ DevBeside(s)
    /\ op # "none"
    /\ \/ Op(s) = "none" /\ May(s, op) /\ Called(s, op)
       \/ Op(s) = op /\ CallerSame(s)

EndStep(s, has, dirty, fit, stage, word) ==
    /\ Becomes(s, has, dirty, fit, "none", "none")
    /\ ReadFrom(s) /\ DevBeside(s)
    /\ Returned(s, stage, word)

\* It ends in doubt; or with the flags as they are.
TearStep(s, stage, word) ==
    /\ ~Fit(s)' /\ Op(s)' = "none" /\ Awaits(s)' = "none"
    /\ CutOff(s) /\ DevBeside(s)
    /\ Returned(s, stage, word)

CutShort(s, stage, word) ==
    /\ Becomes(s, Has(s), Dirty(s), Fit(s), "none", "none")
    /\ CutOff(s) /\ DevBeside(s)
    /\ Returned(s, stage, word)

\* No request is on the way that a next one could meet.
Clear(s) == Up(s) => Quiet(s) /\ Fit(s)

LEMMA QuietQueue ==
    ASSUME DevTyped, NEW s \in Session, Quiet(s)
    PROVE  Len(wire[s].queue) = 0 /\ Steady(s) /\ \A x : ~Due(s, x)
  <1>1. Len(wire[s].queue) = 0
    BY DEF Quiet
  <1>2. QED
    BY <1>1 DEF Steady, Due

LEMMA Beginning ==
    ASSUME CallerTyped, NEW s \in Session, NEW c \in Call, May(s, c)
    PROVE  /\ caller[s].call = "none" /\ At(s) # "gone"
           /\ c \in {"show", "load", "history"} <=> c \notin {"reuse", "diff", "commit", "confirm", "release", "close"}
           /\ c \in {"show", "load", "history"} => At(s) = "borrowed"
           /\ c = "diff" => At(s) = "loaded"
           /\ c = "commit" => At(s) = "changed"
           /\ c = "confirm" => At(s) = "asked"
           /\ c = "release" => At(s) \in Borrowed
           /\ c = "close" => At(s) \in Borrowed \cup {"doubted", "kept"}
           /\ c = "reuse" => At(s) = "kept"
           /\ At(s) \in Follows(c)
  BY DEF May, Follows, Borrowed, Call, At

LEMMA AskLock ==
    ASSUME Typed, NEW s \in Session, EditInv(s), NEW op \in Call,
           op \in {"load", "diff", "commit", "confirm"},
           AskStep(s, "lock", Has(s), Dirty(s), op),
           Clear(s), ~Has(s), Awaits(s) \in {"none", "login"}
    PROVE  Good(s)
  <1> USE DEF AskStep, Becomes, Clear, Called, CallerSame
  <1>1. DevTyped /\ CallerTyped
    BY DEF Typed
  <1>2. Op(s) = "none" => caller[s].call = "none" /\ At(s) # "gone" /\ At(s) \in Follows(op) /\ At(s) \notin {"doubted", "kept"}
    BY <1>1, Beginning
  <1>3. Quiet(s) => Len(wire[s].queue) = 0 /\ Steady(s) /\ \A x : ~Due(s, x)
    BY <1>1, QuietQueue
  <1>a. /\ Op(s) = "none" => Awaits(s) = "none"
        /\ Answer(s) # "none" => Up(s) /\ Quiet(s)
    BY DEF EditInv, ThreadInv, DeviceInv
  <1>b. Up(s) /\ Fit(s) /\ Awaits(s) = "none" => Steady(s) /\ Len(wire[s].queue) <= 1
    BY DEF EditInv, QueueInv, Request, Cleanup
  <1>c. /\ Up(s) /\ Has(s) /\ Awaits(s) \in {"none", "rollback"} => Holds(s)
        /\ Up(s) /\ Has(s) /\ ~Dirty(s) => s \notin dev.cand /\ ~Due(s, "load")
        /\ Awaits(s) = "rollback" /\ Answer(s) = "ok" => s \notin dev.cand
    BY <1>a DEF EditInv, LockInv
  <1>d. /\ Op(s) \in {"load", "history"} => At(s) \in {"borrowed", "gone"}
        /\ Op(s) = "diff" => At(s) \in {"loaded", "gone"}
        /\ Op(s) = "commit" => At(s) \in {"changed", "gone"}
        /\ Op(s) = "confirm" => At(s) \in {"asked", "gone"}
    BY DEF EditInv, ThreadInv, Follows
  <1>4. ThreadInv(s)'
    BY <1>1, <1>2, CallerFields DEF EditInv, ThreadInv
  <1>5. QueueInv(s)'
    BY <1>1, <1>2, <1>3, <1>a, <1>b, <1>c, <1>d
       DEF EditInv, QueueInv, SentTo, QueueLonger, QueueSame, Request, Step, Cleanup, Up, Answer
  <1>6. DeviceInv(s)'
    BY <1>1, <1>3, <1>a, <1>b, <1>c, <1>d
       DEF EditInv, DeviceInv, SentTo, QueueLonger, QueueSame, Request, Step, Up, Answer, DevBeside, Holds
  <1>7. LockInv(s)'
    BY <1>1, <1>3, <1>a, <1>b, <1>c, <1>d
       DEF EditInv, LockInv, SentTo, QueueLonger, QueueSame, Request, Up, Answer, DevBeside, Holds
  <1>8. CommitInv(s)'
    BY <1>1, <1>2, <1>3, <1>a, <1>b, <1>c, <1>d
       DEF EditInv, CommitInv, SentTo, QueueLonger, QueueSame, Up, Answer, DevBeside, Holds
  <1>9. Plays(s)
    BY <1>1, <1>2, <1>3, <1>a, <1>b, <1>c, <1>d DEF EditInv, CommitInv, Plays, SentTo
  <1>10. Careful(s)
    BY <1>1, <1>2, <1>3, <1>a, <1>b, <1>c, <1>d
       DEF EditInv, CommitInv, SentTo, QueueLonger, QueueSame, Careful, Up
  <1> QED
    BY <1>10, <1>4, <1>5, <1>6, <1>7, <1>8, <1>9 DEF Good, EditInv

\* A step of the edit, for a session the device has granted the candidate.
LEMMA AskUnderLock ==
    ASSUME Typed, NEW s \in Session, EditInv(s), NEW op \in Call,
           NEW r \in {"load", "diff", "check", "history"},
           r = "load" => op = "load",
           r \in {"diff", "check"} => op = "diff",
           r = "history" => op = "confirm",
           AskStep(s, r, TRUE, Dirty(s) \/ r = "load", op),
           Clear(s), Up(s) => Holds(s) /\ (Dirty(s) \/ s \notin dev.cand),
           Up(s) /\ r = "load" => dev.fate[s] \in {"none", "refused"},
           Awaits(s) \in {"none", "login", "lock", "load", "diff"}
    PROVE  Good(s)
  <1> USE DEF AskStep, Becomes, Clear, Called, CallerSame
  <1>1. DevTyped /\ CallerTyped
    BY DEF Typed
  <1>2. Op(s) = "none" => caller[s].call = "none" /\ At(s) # "gone" /\ At(s) \in Follows(op) /\ At(s) \notin {"doubted", "kept"}
    BY <1>1, Beginning
  <1>3. Quiet(s) => Len(wire[s].queue) = 0 /\ Steady(s) /\ \A x : ~Due(s, x)
    BY <1>1, QuietQueue
  <1>a. /\ Op(s) = "none" => Awaits(s) = "none"
        /\ Answer(s) # "none" => Up(s) /\ Quiet(s)
    BY DEF EditInv, ThreadInv, DeviceInv
  <1>b. Up(s) /\ Fit(s) /\ Awaits(s) = "none" => Steady(s) /\ Len(wire[s].queue) <= 1
    BY DEF EditInv, QueueInv, Request, Cleanup
  <1>c. /\ Up(s) /\ Has(s) /\ Awaits(s) \in {"none", "rollback"} => Holds(s)
        /\ Up(s) /\ Has(s) /\ ~Dirty(s) => s \notin dev.cand /\ ~Due(s, "load")
        /\ Awaits(s) = "rollback" /\ Answer(s) = "ok" => s \notin dev.cand
    BY <1>a DEF EditInv, LockInv
  <1>d. /\ Op(s) \in {"load", "history"} => At(s) \in {"borrowed", "gone"}
        /\ Op(s) = "diff" => At(s) \in {"loaded", "gone"}
        /\ Op(s) = "commit" => At(s) \in {"changed", "gone"}
        /\ Op(s) = "confirm" => At(s) \in {"asked", "gone"}
    BY DEF EditInv, ThreadInv, Follows
  <1>4. ThreadInv(s)'
    BY <1>1, <1>2, CallerFields DEF EditInv, ThreadInv
  <1>5. QueueInv(s)'
    BY <1>1, <1>2, <1>3, <1>a, <1>b, <1>c, <1>d
       DEF EditInv, QueueInv, SentTo, QueueLonger, QueueSame, Request, Step, Cleanup, Up, Answer
  <1>6. DeviceInv(s)'
    BY <1>1, <1>3, <1>a, <1>b, <1>c, <1>d
       DEF EditInv, DeviceInv, SentTo, QueueLonger, QueueSame, Request, Step, Up, Answer, DevBeside, Holds
  <1>7. LockInv(s)'
    BY <1>1, <1>3, <1>a, <1>b, <1>c, <1>d
       DEF EditInv, LockInv, SentTo, QueueLonger, QueueSame, Request, Up, Answer, DevBeside, Holds
  <1>8. CommitInv(s)'
    BY <1>1, <1>2, <1>3, <1>a, <1>b, <1>c, <1>d
       DEF EditInv, CommitInv, SentTo, QueueLonger, QueueSame, Up, Answer, DevBeside, Holds
  <1>9. Plays(s)
    BY <1>1, <1>2, <1>3, <1>a, <1>b, <1>c, <1>d DEF EditInv, CommitInv, Plays, SentTo
  <1>10. Careful(s)
    BY <1>1, <1>2, <1>3, <1>a, <1>b, <1>c, <1>d
       DEF EditInv, CommitInv, SentTo, QueueLonger, QueueSame, Careful, Up
  <1> QED
    BY <1>10, <1>4, <1>5, <1>6, <1>7, <1>8, <1>9 DEF Good, EditInv

LEMMA AskCommit ==
    ASSUME Typed, NEW s \in Session, EditInv(s), NEW op \in Call,
           op \in {"commit", "confirm"},
           AskStep(s, "commit", TRUE, Dirty(s), op),
           Clear(s), Up(s) => Holds(s) /\ (Dirty(s) \/ s \notin dev.cand) /\ At(s) # "gone",
           Awaits(s) \in {"none", "lock", "history"}
    PROVE  Good(s)
  <1> USE DEF AskStep, Becomes, Clear, Called, CallerSame
  <1>1. DevTyped /\ CallerTyped
    BY DEF Typed
  <1>2. Op(s) = "none" => caller[s].call = "none" /\ At(s) # "gone" /\ At(s) \in Follows(op) /\ At(s) = (IF op = "commit" THEN "changed" ELSE "asked")
    BY <1>1, Beginning
  <1>3. Quiet(s) => Len(wire[s].queue) = 0 /\ Steady(s) /\ \A x : ~Due(s, x)
    BY <1>1, QuietQueue
  <1>a. /\ Op(s) = "none" => Awaits(s) = "none"
        /\ Answer(s) # "none" => Up(s) /\ Quiet(s)
    BY DEF EditInv, ThreadInv, DeviceInv
  <1>b. Up(s) /\ Fit(s) /\ Awaits(s) = "none" => Steady(s) /\ Len(wire[s].queue) <= 1
    BY DEF EditInv, QueueInv, Request, Cleanup
  <1>c. /\ Up(s) /\ Has(s) /\ Awaits(s) \in {"none", "rollback"} => Holds(s)
        /\ Up(s) /\ Has(s) /\ ~Dirty(s) => s \notin dev.cand /\ ~Due(s, "load")
        /\ Awaits(s) = "rollback" /\ Answer(s) = "ok" => s \notin dev.cand
    BY <1>a DEF EditInv, LockInv
  <1>d. /\ Op(s) \in {"load", "history"} => At(s) \in {"borrowed", "gone"}
        /\ Op(s) = "diff" => At(s) \in {"loaded", "gone"}
        /\ Op(s) = "commit" => At(s) \in {"changed", "gone"}
        /\ Op(s) = "confirm" => At(s) \in {"asked", "gone"}
    BY DEF EditInv, ThreadInv, Follows
  <1>4. ThreadInv(s)'
    BY <1>1, <1>2, CallerFields DEF EditInv, ThreadInv
  <1>5. QueueInv(s)'
    BY <1>1, <1>2, <1>3, <1>a, <1>b, <1>c, <1>d
       DEF EditInv, QueueInv, SentTo, QueueLonger, QueueSame, Request, Step, Cleanup, Up, Answer
  <1>6. DeviceInv(s)'
    BY <1>1, <1>3, <1>a, <1>b, <1>c, <1>d
       DEF EditInv, DeviceInv, SentTo, QueueLonger, QueueSame, Request, Step, Up, Answer, DevBeside, Holds
  <1>7. LockInv(s)'
    BY <1>1, <1>3, <1>a, <1>b, <1>c, <1>d
       DEF EditInv, LockInv, SentTo, QueueLonger, QueueSame, Request, Up, Answer, DevBeside, Holds
  <1>8. CommitInv(s)'
    BY <1>1, <1>2, <1>3, <1>a, <1>b, <1>c, <1>d
       DEF EditInv, CommitInv, SentTo, QueueLonger, QueueSame, Up, Answer, DevBeside, Holds
  <1>9. Plays(s)
    BY <1>1, <1>2, <1>3, <1>a, <1>b, <1>c, <1>d DEF EditInv, CommitInv, Plays, SentTo
  <1>10. Careful(s)
    BY <1>1, <1>2, <1>3, <1>a, <1>b, <1>c, <1>d
       DEF EditInv, CommitInv, SentTo, QueueLonger, QueueSame, Careful, Up
  <1> QED
    BY <1>10, <1>4, <1>5, <1>6, <1>7, <1>8, <1>9 DEF Good, EditInv

LEMMA AskHistory ==
    ASSUME Typed, NEW s \in Session, EditInv(s), NEW op \in Call,
           op = "history",
           AskStep(s, "history", Has(s), Dirty(s), op),
           Clear(s), Awaits(s) \in {"none", "login"}
    PROVE  Good(s)
  <1> USE DEF AskStep, Becomes, Clear, Called, CallerSame
  <1>1. DevTyped /\ CallerTyped
    BY DEF Typed
  <1>2. Op(s) = "none" => caller[s].call = "none" /\ At(s) # "gone" /\ At(s) \in Follows(op) /\ At(s) \notin {"doubted", "kept"}
    BY <1>1, Beginning
  <1>3. Quiet(s) => Len(wire[s].queue) = 0 /\ Steady(s) /\ \A x : ~Due(s, x)
    BY <1>1, QuietQueue
  <1>a. /\ Op(s) = "none" => Awaits(s) = "none"
        /\ Answer(s) # "none" => Up(s) /\ Quiet(s)
    BY DEF EditInv, ThreadInv, DeviceInv
  <1>b. Up(s) /\ Fit(s) /\ Awaits(s) = "none" => Steady(s) /\ Len(wire[s].queue) <= 1
    BY DEF EditInv, QueueInv, Request, Cleanup
  <1>c. /\ Up(s) /\ Has(s) /\ Awaits(s) \in {"none", "rollback"} => Holds(s)
        /\ Up(s) /\ Has(s) /\ ~Dirty(s) => s \notin dev.cand /\ ~Due(s, "load")
        /\ Awaits(s) = "rollback" /\ Answer(s) = "ok" => s \notin dev.cand
    BY <1>a DEF EditInv, LockInv
  <1>d. /\ Op(s) \in {"load", "history"} => At(s) \in {"borrowed", "gone"}
        /\ Op(s) = "diff" => At(s) \in {"loaded", "gone"}
        /\ Op(s) = "commit" => At(s) \in {"changed", "gone"}
        /\ Op(s) = "confirm" => At(s) \in {"asked", "gone"}
    BY DEF EditInv, ThreadInv, Follows
  <1>4. ThreadInv(s)'
    BY <1>1, <1>2, CallerFields DEF EditInv, ThreadInv
  <1>5. QueueInv(s)'
    BY <1>1, <1>2, <1>3, <1>a, <1>b, <1>c, <1>d
       DEF EditInv, QueueInv, SentTo, QueueLonger, QueueSame, Request, Step, Cleanup, Up, Answer
  <1>6. DeviceInv(s)'
    BY <1>1, <1>3, <1>a, <1>b, <1>c, <1>d
       DEF EditInv, DeviceInv, SentTo, QueueLonger, QueueSame, Request, Step, Up, Answer, DevBeside, Holds
  <1>7. LockInv(s)'
    BY <1>1, <1>3, <1>a, <1>b, <1>c, <1>d
       DEF EditInv, LockInv, SentTo, QueueLonger, QueueSame, Request, Up, Answer, DevBeside, Holds
  <1>8. CommitInv(s)'
    BY <1>1, <1>2, <1>3, <1>a, <1>b, <1>c, <1>d
       DEF EditInv, CommitInv, SentTo, QueueLonger, QueueSame, Up, Answer, DevBeside, Holds
  <1>9. Plays(s)
    BY <1>1, <1>2, <1>3, <1>a, <1>b, <1>c, <1>d DEF EditInv, CommitInv, Plays, SentTo
  <1>10. Careful(s)
    BY <1>1, <1>2, <1>3, <1>a, <1>b, <1>c, <1>d
       DEF EditInv, CommitInv, SentTo, QueueLonger, QueueSame, Careful, Up
  <1> QED
    BY <1>10, <1>4, <1>5, <1>6, <1>7, <1>8, <1>9 DEF Good, EditInv

\* A cleanup may follow a step that got no answer.
LEMMA AskRollback ==
    ASSUME Typed, NEW s \in Session, EditInv(s), NEW op \in Call,
           op \in {"release", "close"},
           AskStep(s, "rollback", Has(s), Dirty(s), op),
           Op(s) = "none", Has(s), Dirty(s), Fit(s), s \in CliSession /\ Up(s) => Quiet(s)
    PROVE  Good(s)
  <1> USE DEF AskStep, Becomes, Clear, Called, CallerSame
  <1>1. DevTyped /\ CallerTyped
    BY DEF Typed
  <1>2. Op(s) = "none" => caller[s].call = "none" /\ At(s) # "gone" /\ At(s) \in Follows(op)
    BY <1>1, Beginning
  <1>3. Quiet(s) => Len(wire[s].queue) = 0 /\ Steady(s) /\ \A x : ~Due(s, x)
    BY <1>1, QuietQueue
  <1>a. /\ Op(s) = "none" => Awaits(s) = "none"
        /\ Answer(s) # "none" => Up(s) /\ Quiet(s)
    BY DEF EditInv, ThreadInv, DeviceInv
  <1>b. Up(s) /\ Fit(s) /\ Awaits(s) = "none" => Steady(s) /\ Len(wire[s].queue) <= 1
    BY DEF EditInv, QueueInv, Request, Cleanup
  <1>c. /\ Up(s) /\ Has(s) /\ Awaits(s) \in {"none", "rollback"} => Holds(s)
        /\ Up(s) /\ Has(s) /\ ~Dirty(s) => s \notin dev.cand /\ ~Due(s, "load")
        /\ Awaits(s) = "rollback" /\ Answer(s) = "ok" => s \notin dev.cand
    BY <1>a DEF EditInv, LockInv
  <1>d. /\ Op(s) \in {"load", "history"} => At(s) \in {"borrowed", "gone"}
        /\ Op(s) = "diff" => At(s) \in {"loaded", "gone"}
        /\ Op(s) = "commit" => At(s) \in {"changed", "gone"}
        /\ Op(s) = "confirm" => At(s) \in {"asked", "gone"}
    BY DEF EditInv, ThreadInv, Follows
  <1>4. ThreadInv(s)'
    BY <1>1, <1>2, CallerFields DEF EditInv, ThreadInv
  <1>5. QueueInv(s)'
    BY <1>1, <1>2, <1>3, <1>a, <1>b, <1>c, <1>d
       DEF EditInv, QueueInv, SentTo, QueueLonger, QueueSame, Request, Step, Cleanup, Up, Answer
  <1>6. DeviceInv(s)'
    BY <1>1, <1>3, <1>a, <1>b, <1>c, <1>d
       DEF EditInv, DeviceInv, SentTo, QueueLonger, QueueSame, Request, Step, Up, Answer, DevBeside, Holds
  <1>7. LockInv(s)'
    BY <1>1, <1>3, <1>a, <1>b, <1>c, <1>d
       DEF EditInv, LockInv, SentTo, QueueLonger, QueueSame, Request, Up, Answer, DevBeside, Holds
  <1>8. CommitInv(s)'
    BY <1>1, <1>2, <1>3, <1>a, <1>b, <1>c, <1>d
       DEF EditInv, CommitInv, SentTo, QueueLonger, QueueSame, Up, Answer, DevBeside, Holds
  <1>9. Plays(s)
    BY <1>1, <1>2, <1>3, <1>a, <1>b, <1>c, <1>d DEF EditInv, CommitInv, Plays, SentTo
  <1>10. Careful(s)
    BY <1>1, <1>2, <1>3, <1>a, <1>b, <1>c, <1>d
       DEF EditInv, CommitInv, SentTo, QueueLonger, QueueSame, Careful, Up
  <1> QED
    BY <1>10, <1>4, <1>5, <1>6, <1>7, <1>8, <1>9 DEF Good, EditInv

LEMMA AskUnlock ==
    ASSUME Typed, NEW s \in Session, EditInv(s), NEW op \in Call,
           op \in {"release", "close"},
           Dirty(s)' => Dirty(s),
           AskStep(s, "unlock", TRUE, Dirty(s)', op),
           Fit(s), Has(s),
           \/ Op(s) = "none" /\ ~Dirty(s) /\ (s \in CliSession /\ Up(s) => Quiet(s))
           \/ Awaits(s) = "rollback" /\ Answer(s) = "ok"
    PROVE  Good(s)
  <1> USE DEF AskStep, Becomes, Clear, Called, CallerSame
  <1>1. DevTyped /\ CallerTyped
    BY DEF Typed
  <1>2. Op(s) = "none" => caller[s].call = "none" /\ At(s) # "gone" /\ At(s) \in Follows(op)
    BY <1>1, Beginning
  <1>3. Quiet(s) => Len(wire[s].queue) = 0 /\ Steady(s) /\ \A x : ~Due(s, x)
    BY <1>1, QuietQueue
  <1>a. /\ Op(s) = "none" => Awaits(s) = "none"
        /\ Answer(s) # "none" => Up(s) /\ Quiet(s)
    BY DEF EditInv, ThreadInv, DeviceInv
  <1>b. Up(s) /\ Fit(s) /\ Awaits(s) = "none" => Steady(s) /\ Len(wire[s].queue) <= 1
    BY DEF EditInv, QueueInv, Request, Cleanup
  <1>c. /\ Up(s) /\ Has(s) /\ Awaits(s) \in {"none", "rollback"} => Holds(s)
        /\ Up(s) /\ Has(s) /\ ~Dirty(s) => s \notin dev.cand /\ ~Due(s, "load")
        /\ Awaits(s) = "rollback" /\ Answer(s) = "ok" => s \notin dev.cand
    BY <1>a DEF EditInv, LockInv
  <1>d. /\ Op(s) \in {"load", "history"} => At(s) \in {"borrowed", "gone"}
        /\ Op(s) = "diff" => At(s) \in {"loaded", "gone"}
        /\ Op(s) = "commit" => At(s) \in {"changed", "gone"}
        /\ Op(s) = "confirm" => At(s) \in {"asked", "gone"}
    BY DEF EditInv, ThreadInv, Follows
  <1>4. ThreadInv(s)'
    BY <1>1, <1>2, CallerFields DEF EditInv, ThreadInv
  <1>5. QueueInv(s)'
    BY <1>1, <1>2, <1>3, <1>a, <1>b, <1>c, <1>d
       DEF EditInv, QueueInv, SentTo, QueueLonger, QueueSame, Request, Step, Cleanup, Up, Answer
  <1>6. DeviceInv(s)'
    BY <1>1, <1>3, <1>a, <1>b, <1>c, <1>d
       DEF EditInv, DeviceInv, SentTo, QueueLonger, QueueSame, Request, Step, Up, Answer, DevBeside, Holds
  <1>7. LockInv(s)'
    BY <1>1, <1>3, <1>a, <1>b, <1>c, <1>d
       DEF EditInv, LockInv, SentTo, QueueLonger, QueueSame, Request, Up, Answer, DevBeside, Holds
  <1>8. CommitInv(s)'
    BY <1>1, <1>2, <1>3, <1>a, <1>b, <1>c, <1>d
       DEF EditInv, CommitInv, SentTo, QueueLonger, QueueSame, Up, Answer, DevBeside, Holds
  <1>9. Plays(s)
    BY <1>1, <1>2, <1>3, <1>a, <1>b, <1>c, <1>d DEF EditInv, CommitInv, Plays, SentTo
  <1>10. Careful(s)
    BY <1>1, <1>2, <1>3, <1>a, <1>b, <1>c, <1>d
       DEF EditInv, CommitInv, SentTo, QueueLonger, QueueSame, Careful, Up
  <1> QED
    BY <1>10, <1>4, <1>5, <1>6, <1>7, <1>8, <1>9 DEF Good, EditInv

LEMMA AskBye ==
    ASSUME Typed, NEW s \in Session, EditInv(s), NEW op \in Call,
           op = "close", s \notin CliSession, Dirty(s)' => Dirty(s),
           AskStep(s, "bye", FALSE, Dirty(s)', op), Fit(s),
           \/ Op(s) = "none" /\ ~Has(s)
           \/ Awaits(s) = "unlock" /\ Answer(s) = "ok"
    PROVE  Good(s)
  <1> USE DEF AskStep, Becomes, Clear, Called, CallerSame
  <1>1. DevTyped /\ CallerTyped
    BY DEF Typed
  <1>2. Op(s) = "none" => caller[s].call = "none" /\ At(s) # "gone" /\ At(s) \in Follows(op)
    BY <1>1, Beginning
  <1>3. Quiet(s) => Len(wire[s].queue) = 0 /\ Steady(s) /\ \A x : ~Due(s, x)
    BY <1>1, QuietQueue
  <1>a. /\ Op(s) = "none" => Awaits(s) = "none"
        /\ Answer(s) # "none" => Up(s) /\ Quiet(s)
    BY DEF EditInv, ThreadInv, DeviceInv
  <1>b. Up(s) /\ Fit(s) /\ Awaits(s) = "none" => Steady(s) /\ Len(wire[s].queue) <= 1
    BY DEF EditInv, QueueInv, Request, Cleanup
  <1>c. /\ Up(s) /\ Has(s) /\ Awaits(s) \in {"none", "rollback"} => Holds(s)
        /\ Up(s) /\ Has(s) /\ ~Dirty(s) => s \notin dev.cand /\ ~Due(s, "load")
        /\ Awaits(s) = "rollback" /\ Answer(s) = "ok" => s \notin dev.cand
    BY <1>a DEF EditInv, LockInv
  <1>d. /\ Op(s) \in {"load", "history"} => At(s) \in {"borrowed", "gone"}
        /\ Op(s) = "diff" => At(s) \in {"loaded", "gone"}
        /\ Op(s) = "commit" => At(s) \in {"changed", "gone"}
        /\ Op(s) = "confirm" => At(s) \in {"asked", "gone"}
    BY DEF EditInv, ThreadInv, Follows
  <1>4. ThreadInv(s)'
    BY <1>1, <1>2, CallerFields DEF EditInv, ThreadInv
  <1>5. QueueInv(s)'
    BY <1>1, <1>2, <1>3, <1>a, <1>b, <1>c, <1>d
       DEF EditInv, QueueInv, SentTo, QueueLonger, QueueSame, Request, Step, Cleanup, Up, Answer
  <1>6. DeviceInv(s)'
    BY <1>1, <1>3, <1>a, <1>b, <1>c, <1>d
       DEF EditInv, DeviceInv, SentTo, QueueLonger, QueueSame, Request, Step, Up, Answer, DevBeside, Holds
  <1>7. LockInv(s)'
    BY <1>1, <1>3, <1>a, <1>b, <1>c, <1>d
       DEF EditInv, LockInv, SentTo, QueueLonger, QueueSame, Request, Up, Answer, DevBeside, Holds
  <1>8. CommitInv(s)'
    BY <1>1, <1>2, <1>3, <1>a, <1>b, <1>c, <1>d
       DEF EditInv, CommitInv, SentTo, QueueLonger, QueueSame, Up, Answer, DevBeside, Holds
  <1>9. Plays(s)
    BY <1>1, <1>2, <1>3, <1>a, <1>b, <1>c, <1>d DEF EditInv, CommitInv, Plays, SentTo
  <1>10. Careful(s)
    BY <1>1, <1>2, <1>3, <1>a, <1>b, <1>c, <1>d
       DEF EditInv, CommitInv, SentTo, QueueLonger, QueueSame, Careful, Up
  <1> QED
    BY <1>10, <1>4, <1>5, <1>6, <1>7, <1>8, <1>9 DEF Good, EditInv

LEMMA AskProbe ==
    ASSUME Typed, NEW s \in Session, EditInv(s), NEW op \in Call,
           op = "reuse",
           AskStep(s, "probe", Has(s), Dirty(s), op), Op(s) = "none", Fit(s)
    PROVE  Good(s)
  <1> USE DEF AskStep, Becomes, Clear, Called, CallerSame
  <1>1. DevTyped /\ CallerTyped
    BY DEF Typed
  <1>2. Op(s) = "none" => caller[s].call = "none" /\ At(s) # "gone" /\ At(s) \in Follows(op) /\ At(s) = "kept"
    BY <1>1, Beginning
  <1>3. Quiet(s) => Len(wire[s].queue) = 0 /\ Steady(s) /\ \A x : ~Due(s, x)
    BY <1>1, QuietQueue
  <1>a. /\ Op(s) = "none" => Awaits(s) = "none"
        /\ Answer(s) # "none" => Up(s) /\ Quiet(s)
    BY DEF EditInv, ThreadInv, DeviceInv
  <1>b. Up(s) /\ Fit(s) /\ Awaits(s) = "none" => Steady(s) /\ Len(wire[s].queue) <= 1
    BY DEF EditInv, QueueInv, Request, Cleanup
  <1>e. Awaits(s) = "none" /\ Quiet(s) /\ ~Has(s) /\ At(s) = "kept"
    BY <1>2, <1>a DEF EditInv, QueueInv, CommitInv, Request
  <1>c. /\ Up(s) /\ Has(s) /\ Awaits(s) \in {"none", "rollback"} => Holds(s)
        /\ Up(s) /\ Has(s) /\ ~Dirty(s) => s \notin dev.cand /\ ~Due(s, "load")
        /\ Awaits(s) = "rollback" /\ Answer(s) = "ok" => s \notin dev.cand
    BY <1>a DEF EditInv, LockInv
  <1>d. /\ Op(s) \in {"load", "history"} => At(s) \in {"borrowed", "gone"}
        /\ Op(s) = "diff" => At(s) \in {"loaded", "gone"}
        /\ Op(s) = "commit" => At(s) \in {"changed", "gone"}
        /\ Op(s) = "confirm" => At(s) \in {"asked", "gone"}
    BY DEF EditInv, ThreadInv, Follows
  <1>4. ThreadInv(s)'
    BY <1>1, <1>2, CallerFields DEF EditInv, ThreadInv
  <1>5. QueueInv(s)'
    BY <1>1, <1>2, <1>3, <1>a, <1>e, <1>b, <1>c, <1>d
       DEF EditInv, QueueInv, SentTo, QueueLonger, QueueSame, Request, Step, Cleanup, Up, Answer
  <1>6. DeviceInv(s)'
    BY <1>1, <1>3, <1>a, <1>e, <1>b, <1>c, <1>d
       DEF EditInv, DeviceInv, SentTo, QueueLonger, QueueSame, Request, Step, Up, Answer, DevBeside, Holds
  <1>7. LockInv(s)'
    BY <1>1, <1>3, <1>a, <1>e, <1>b, <1>c, <1>d
       DEF EditInv, LockInv, SentTo, QueueLonger, QueueSame, Request, Up, Answer, DevBeside, Holds
  <1>8. CommitInv(s)'
    BY <1>1, <1>2, <1>3, <1>a, <1>e, <1>b, <1>c, <1>d
       DEF EditInv, CommitInv, SentTo, QueueLonger, QueueSame, Up, Answer, DevBeside, Holds
  <1>9. Plays(s)
    BY <1>1, <1>2, <1>3, <1>a, <1>e, <1>b, <1>c, <1>d DEF EditInv, CommitInv, Plays, SentTo
  <1>10. Careful(s)
    BY <1>1, <1>2, <1>3, <1>a, <1>e, <1>b, <1>c, <1>d
       DEF EditInv, CommitInv, SentTo, QueueLonger, QueueSame, Careful, Up
  <1> QED
    BY <1>10, <1>4, <1>5, <1>6, <1>7, <1>8, <1>9 DEF Good, EditInv

-----------------------------------------------------------------------------
(* A method, or a session, ends                                            *)

LEMMA StepsOnly ==
    ASSUME DevTyped, NEW s \in Session, Ordered(s), Newest(s) \in Step
    PROVE  Steady(s)
  <1>1. Len(wire[s].queue) \in Nat
    BY DevFields
  <1>2. \A i \in 1..Len(wire[s].queue) : i < Len(wire[s].queue) \/ i = Len(wire[s].queue)
    BY <1>1
  <1>3. QED
    BY <1>2 DEF Ordered, Newest, Steady

\* Nothing was asked: the call is refused here, or needs nothing of the device.
LEMMA EndUnasked ==
    ASSUME Typed, NEW s \in Session, EditInv(s),
           NEW stage \in {"spent", "doubted", "kept"},
           EndStep(s, Has(s), Dirty(s), Fit(s), stage, caller[s].told),
           Awaits(s) \in {"none", "login", "exec"},
           At(s) = "doubted" => stage = "doubted",
           stage = "kept" => Awaits(s) = "none" /\ Fit(s) /\ ~Has(s) /\ At(s) # "gone"
    PROVE  Good(s)
  <1> USE DEF EndStep, Becomes, Returned, CallerSame
  <1>1. DevTyped /\ CallerTyped
    BY DEF Typed
  <1>2. caller[s].told \in {"nothing", "committed", "failed", "unknown"}
    BY <1>1, CallerFields
  <1>3. Quiet(s) => Len(wire[s].queue) = 0 /\ Steady(s) /\ \A x : ~Due(s, x)
    BY <1>1, QuietQueue
  <1>4. Ordered(s) /\ Newest(s) \in Step => Steady(s)
    BY <1>1, StepsOnly
  <1>5. /\ Op(s) = "none" <=> Awaits(s) = "none"
        /\ Answer(s) # "none" => Up(s) /\ Quiet(s)
        /\ Ordered(s)
    BY DEF EditInv, ThreadInv, DeviceInv
  <1>6. /\ Op(s) # "none" /\ At(s) # "gone" => caller[s].call = Op(s)
        /\ Op(s) \in {"load", "history", "show"} => At(s) \in {"borrowed", "gone"}
        /\ Op(s) = "diff" => At(s) \in {"loaded", "gone"}
        /\ Op(s) = "commit" => At(s) \in {"changed", "gone"}
        /\ Op(s) = "confirm" => At(s) \in {"asked", "gone"}
        /\ Op(s) = "release" => At(s) # "kept"
    BY DEF EditInv, ThreadInv, Follows, Borrowed
  <1>7. ThreadInv(s)'
    BY <1>2, <1>5, <1>6 DEF EditInv, ThreadInv
  <1>8. QueueInv(s)'
    BY <1>2, <1>3, <1>4, <1>5, <1>6
       DEF EditInv, QueueInv, ReadFrom, QueueSame, Request, Step, Cleanup, Up, Answer
  <1>9. DeviceInv(s)'
    BY <1>3, <1>5 DEF EditInv, DeviceInv, ReadFrom, QueueSame, Request, Up, Answer, DevBeside, Holds
  <1>10. LockInv(s)'
    BY <1>3, <1>5, <1>6
       DEF EditInv, LockInv, CommitInv, ReadFrom, QueueSame, Request, Up, Answer, DevBeside, Holds
  <1>11. CommitInv(s)'
    BY <1>2, <1>3, <1>5, <1>6
       DEF EditInv, CommitInv, ThreadInv, ReadFrom, QueueSame, Up, Answer, DevBeside, Holds
  <1>12. Plays(s)
    BY <1>2, <1>3, <1>5, <1>6
       DEF EditInv, CommitInv, LockInv, ThreadInv, DeviceInv, Plays, ReadFrom
  <1>13. Careful(s)
    BY <1>1, DevFields DEF Careful, ReadFrom, QueueSame
  <1> QED
    BY <1>7, <1>8, <1>9, <1>10, <1>11, <1>12, <1>13 DEF Good, EditInv

\* The answer to a step of the edit, after which the caller may go on.
LEMMA EndAnswered ==
    ASSUME Typed, NEW s \in Session, EditInv(s),
           NEW stage \in {"loaded", "changed", "asked", "spent"},
           EndStep(s, Has(s), Dirty(s), Fit(s), stage, caller[s].told),
           Awaits(s) \in {"lock", "load", "diff", "check", "history"}, Answer(s) # "none",
           Awaits(s) = "lock" => Answer(s) # "ok",
           stage # "spent" => Op(s) \in {"load", "diff", "history"}
    PROVE  Good(s)
  <1> USE DEF EndStep, Becomes, Returned, CallerSame
  <1>1. DevTyped /\ CallerTyped
    BY DEF Typed
  <1>2. caller[s].told \in {"nothing", "committed", "failed", "unknown"}
    BY <1>1, CallerFields
  <1>3. Quiet(s) => Len(wire[s].queue) = 0 /\ Steady(s) /\ \A x : ~Due(s, x)
    BY <1>1, QuietQueue
  <1>4. Ordered(s) /\ Newest(s) \in Step => Steady(s)
    BY <1>1, StepsOnly
  <1>5. /\ Op(s) = "none" <=> Awaits(s) = "none"
        /\ Answer(s) # "none" => Up(s) /\ Quiet(s)
        /\ Ordered(s)
    BY DEF EditInv, ThreadInv, DeviceInv
  <1>6. /\ Op(s) # "none" /\ At(s) # "gone" => caller[s].call = Op(s)
        /\ Op(s) \in {"load", "history", "show"} => At(s) \in {"borrowed", "gone"}
        /\ Op(s) = "diff" => At(s) \in {"loaded", "gone"}
        /\ Op(s) = "commit" => At(s) \in {"changed", "gone"}
        /\ Op(s) = "confirm" => At(s) \in {"asked", "gone"}
        /\ Op(s) = "release" => At(s) # "kept"
    BY DEF EditInv, ThreadInv, Follows, Borrowed
  <1>7. ThreadInv(s)'
    BY <1>2, <1>5, <1>6 DEF EditInv, ThreadInv
  <1>8. QueueInv(s)'
    BY <1>2, <1>3, <1>4, <1>5, <1>6
       DEF EditInv, QueueInv, ReadFrom, QueueSame, Request, Step, Cleanup, Up, Answer
  <1>9. DeviceInv(s)'
    BY <1>3, <1>5 DEF EditInv, DeviceInv, ReadFrom, QueueSame, Request, Up, Answer, DevBeside, Holds
  <1>10. LockInv(s)'
    BY <1>3, <1>5, <1>6
       DEF EditInv, LockInv, CommitInv, ReadFrom, QueueSame, Request, Up, Answer, DevBeside, Holds
  <1>11. CommitInv(s)'
    BY <1>2, <1>3, <1>5, <1>6
       DEF EditInv, CommitInv, ThreadInv, ReadFrom, QueueSame, Up, Answer, DevBeside, Holds
  <1>12. Plays(s)
    BY <1>2, <1>3, <1>5, <1>6
       DEF EditInv, CommitInv, LockInv, ThreadInv, DeviceInv, Plays, ReadFrom
  <1>13. Careful(s)
    BY <1>1, DevFields DEF Careful, ReadFrom, QueueSame
  <1> QED
    BY <1>7, <1>8, <1>9, <1>10, <1>11, <1>12, <1>13 DEF Good, EditInv

LEMMA EndCommit ==
    ASSUME Typed, NEW s \in Session, EditInv(s),
           NEW word \in {"committed", "failed"},
           word = "committed" <=> Answer(s) = "ok",
           EndStep(s, Has(s), Dirty(s) /\ Answer(s) # "ok", Fit(s), "spent", word),
           Awaits(s) = "commit", Answer(s) # "none"
    PROVE  Good(s)
  <1> USE DEF EndStep, Becomes, Returned, CallerSame
  <1>1. DevTyped /\ CallerTyped
    BY DEF Typed
  <1>2. caller[s].told \in {"nothing", "committed", "failed", "unknown"}
    BY <1>1, CallerFields
  <1>3. Quiet(s) => Len(wire[s].queue) = 0 /\ Steady(s) /\ \A x : ~Due(s, x)
    BY <1>1, QuietQueue
  <1>4. Ordered(s) /\ Newest(s) \in Step => Steady(s)
    BY <1>1, StepsOnly
  <1>5. /\ Op(s) = "none" <=> Awaits(s) = "none"
        /\ Answer(s) # "none" => Up(s) /\ Quiet(s)
        /\ Ordered(s)
    BY DEF EditInv, ThreadInv, DeviceInv
  <1>6. /\ Op(s) # "none" /\ At(s) # "gone" => caller[s].call = Op(s)
        /\ Op(s) \in {"load", "history", "show"} => At(s) \in {"borrowed", "gone"}
        /\ Op(s) = "diff" => At(s) \in {"loaded", "gone"}
        /\ Op(s) = "commit" => At(s) \in {"changed", "gone"}
        /\ Op(s) = "confirm" => At(s) \in {"asked", "gone"}
        /\ Op(s) = "release" => At(s) # "kept"
    BY DEF EditInv, ThreadInv, Follows, Borrowed
  <1>7. ThreadInv(s)'
    BY <1>2, <1>5, <1>6 DEF EditInv, ThreadInv
  <1>8. QueueInv(s)'
    BY <1>2, <1>3, <1>4, <1>5, <1>6
       DEF EditInv, QueueInv, ReadFrom, QueueSame, Request, Step, Cleanup, Up, Answer
  <1>9. DeviceInv(s)'
    BY <1>3, <1>5 DEF EditInv, DeviceInv, ReadFrom, QueueSame, Request, Up, Answer, DevBeside, Holds
  <1>10. LockInv(s)'
    BY <1>3, <1>5, <1>6
       DEF EditInv, LockInv, CommitInv, ReadFrom, QueueSame, Request, Up, Answer, DevBeside, Holds
  <1>11. CommitInv(s)'
    BY <1>2, <1>3, <1>5, <1>6
       DEF EditInv, CommitInv, ThreadInv, ReadFrom, QueueSame, Up, Answer, DevBeside, Holds
  <1>12. Plays(s)
    BY <1>2, <1>3, <1>5, <1>6
       DEF EditInv, CommitInv, LockInv, ThreadInv, DeviceInv, Plays, ReadFrom
  <1>13. Careful(s)
    BY <1>1, DevFields DEF Careful, ReadFrom, QueueSame
  <1> QED
    BY <1>7, <1>8, <1>9, <1>10, <1>11, <1>12, <1>13 DEF Good, EditInv

LEMMA EndCleaned ==
    ASSUME Typed, NEW s \in Session, EditInv(s),
           Dirty(s)' => Dirty(s),
           EndStep(s, FALSE, Dirty(s)', Fit(s), "kept", caller[s].told),
           Awaits(s) = "unlock", Answer(s) = "ok", Op(s) = "release"
    PROVE  Good(s)
  <1> USE DEF EndStep, Becomes, Returned, CallerSame
  <1>1. DevTyped /\ CallerTyped
    BY DEF Typed
  <1>2. caller[s].told \in {"nothing", "committed", "failed", "unknown"}
    BY <1>1, CallerFields
  <1>3. Quiet(s) => Len(wire[s].queue) = 0 /\ Steady(s) /\ \A x : ~Due(s, x)
    BY <1>1, QuietQueue
  <1>4. Ordered(s) /\ Newest(s) \in Step => Steady(s)
    BY <1>1, StepsOnly
  <1>5. /\ Op(s) = "none" <=> Awaits(s) = "none"
        /\ Answer(s) # "none" => Up(s) /\ Quiet(s)
        /\ Ordered(s)
    BY DEF EditInv, ThreadInv, DeviceInv
  <1>6. /\ Op(s) # "none" /\ At(s) # "gone" => caller[s].call = Op(s)
        /\ Op(s) \in {"load", "history", "show"} => At(s) \in {"borrowed", "gone"}
        /\ Op(s) = "diff" => At(s) \in {"loaded", "gone"}
        /\ Op(s) = "commit" => At(s) \in {"changed", "gone"}
        /\ Op(s) = "confirm" => At(s) \in {"asked", "gone"}
        /\ Op(s) = "release" => At(s) # "kept"
    BY DEF EditInv, ThreadInv, Follows, Borrowed
  <1>a. Fit(s) /\ ~Holds(s) /\ s \notin dev.cand
    BY <1>5 DEF EditInv, QueueInv, LockInv, DeviceInv, Request
  <1>7. ThreadInv(s)'
    BY <1>2, <1>5, <1>6 DEF EditInv, ThreadInv
  <1>8. QueueInv(s)'
    BY <1>2, <1>3, <1>4, <1>5, <1>6, <1>a
       DEF EditInv, QueueInv, ReadFrom, QueueSame, Request, Step, Cleanup, Up, Answer
  <1>9. DeviceInv(s)'
    BY <1>3, <1>5, <1>a DEF EditInv, DeviceInv, ReadFrom, QueueSame, Request, Up, Answer, DevBeside, Holds
  <1>10. LockInv(s)'
    BY <1>3, <1>5, <1>6, <1>a
       DEF EditInv, LockInv, CommitInv, ReadFrom, QueueSame, Request, Up, Answer, DevBeside, Holds
  <1>11. CommitInv(s)'
    BY <1>2, <1>3, <1>5, <1>6, <1>a
       DEF EditInv, CommitInv, ThreadInv, ReadFrom, QueueSame, Up, Answer, DevBeside, Holds
  <1>12. Plays(s)
    BY <1>2, <1>3, <1>5, <1>6, <1>a
       DEF EditInv, CommitInv, LockInv, ThreadInv, DeviceInv, Plays, ReadFrom
  <1>13. Careful(s)
    BY <1>1, DevFields DEF Careful, ReadFrom, QueueSame
  <1> QED
    BY <1>7, <1>8, <1>9, <1>10, <1>11, <1>12, <1>13 DEF Good, EditInv

\* No answer came: NETCONF leaves the session to its caller, an engine is out
\* of step.
LEMMA EndLost ==
    ASSUME Typed, NEW s \in Session, EditInv(s),
           NEW word \in {"nothing", "committed", "failed", "unknown"},
           Fit(s)' => Fit(s) /\ Awaits(s) \in {"load", "diff", "check", "history"},
           EndStep(s, Has(s), Dirty(s), Fit(s)', "doubted", word),
           Awaits(s) \in {"lock", "load", "diff", "check", "history", "commit"},
           word = IF Awaits(s) = "commit" THEN "unknown" ELSE caller[s].told
    PROVE  Good(s)
  <1> USE DEF EndStep, Becomes, Returned, CallerSame
  <1>1. DevTyped /\ CallerTyped
    BY DEF Typed
  <1>2. caller[s].told \in {"nothing", "committed", "failed", "unknown"}
    BY <1>1, CallerFields
  <1>3. Quiet(s) => Len(wire[s].queue) = 0 /\ Steady(s) /\ \A x : ~Due(s, x)
    BY <1>1, QuietQueue
  <1>4. Ordered(s) /\ Newest(s) \in Step => Steady(s)
    BY <1>1, StepsOnly
  <1>5. /\ Op(s) = "none" <=> Awaits(s) = "none"
        /\ Answer(s) # "none" => Up(s) /\ Quiet(s)
        /\ Ordered(s)
    BY DEF EditInv, ThreadInv, DeviceInv
  <1>6. /\ Op(s) # "none" /\ At(s) # "gone" => caller[s].call = Op(s)
        /\ Op(s) \in {"load", "history", "show"} => At(s) \in {"borrowed", "gone"}
        /\ Op(s) = "diff" => At(s) \in {"loaded", "gone"}
        /\ Op(s) = "commit" => At(s) \in {"changed", "gone"}
        /\ Op(s) = "confirm" => At(s) \in {"asked", "gone"}
        /\ Op(s) = "release" => At(s) # "kept"
    BY DEF EditInv, ThreadInv, Follows, Borrowed
  <1>7. ThreadInv(s)'
    BY <1>2, <1>5, <1>6 DEF EditInv, ThreadInv
  <1>8. QueueInv(s)'
    BY <1>2, <1>3, <1>4, <1>5, <1>6
       DEF EditInv, QueueInv, ReadFrom, QueueSame, Request, Step, Cleanup, Up, Answer
  <1>9. DeviceInv(s)'
    BY <1>3, <1>5 DEF EditInv, DeviceInv, ReadFrom, QueueSame, Request, Up, Answer, DevBeside, Holds
  <1>10. LockInv(s)'
    BY <1>3, <1>5, <1>6
       DEF EditInv, LockInv, CommitInv, ReadFrom, QueueSame, Request, Up, Answer, DevBeside, Holds
  <1>11. CommitInv(s)'
    BY <1>2, <1>3, <1>5, <1>6
       DEF EditInv, CommitInv, ThreadInv, ReadFrom, QueueSame, Up, Answer, DevBeside, Holds
  <1>12. Plays(s)
    BY <1>2, <1>3, <1>5, <1>6
       DEF EditInv, CommitInv, LockInv, ThreadInv, DeviceInv, Plays, ReadFrom
  <1>13. Careful(s)
    BY <1>1, DevFields DEF Careful, ReadFrom, QueueSame
  <1> QED
    BY <1>7, <1>8, <1>9, <1>10, <1>11, <1>12, <1>13 DEF Good, EditInv

\* The session is over: it is in doubt, and its transport is closed.
LEMMA TearDown ==
    ASSUME Typed, NEW s \in Session, EditInv(s),
           NEW stage \in {"gone", "spent", "doubted"},
           NEW word \in {"nothing", "committed", "failed", "unknown"},
           TearStep(s, stage, word),
           stage = "spent" => Quiet(s),
           word = caller[s].told \/ (word = "unknown" /\ Awaits(s) = "commit")
    PROVE  Good(s)
  <1> USE DEF TearStep, Becomes, Returned, CallerSame
  <1>1. DevTyped /\ CallerTyped
    BY DEF Typed
  <1>2. caller[s].told \in {"nothing", "committed", "failed", "unknown"}
    BY <1>1, CallerFields
  <1>3. Quiet(s) => Len(wire[s].queue) = 0 /\ Steady(s) /\ \A x : ~Due(s, x)
    BY <1>1, QuietQueue
  <1>4. Ordered(s) /\ Newest(s) \in Step => Steady(s)
    BY <1>1, StepsOnly
  <1>5. /\ Op(s) = "none" <=> Awaits(s) = "none"
        /\ Answer(s) # "none" => Up(s) /\ Quiet(s)
        /\ Ordered(s)
    BY DEF EditInv, ThreadInv, DeviceInv
  <1>6. /\ Op(s) # "none" /\ At(s) # "gone" => caller[s].call = Op(s)
        /\ Op(s) \in {"load", "history", "show"} => At(s) \in {"borrowed", "gone"}
        /\ Op(s) = "diff" => At(s) \in {"loaded", "gone"}
        /\ Op(s) = "commit" => At(s) \in {"changed", "gone"}
        /\ Op(s) = "confirm" => At(s) \in {"asked", "gone"}
        /\ Op(s) = "release" => At(s) # "kept"
    BY DEF EditInv, ThreadInv, Follows, Borrowed
  <1>7. ThreadInv(s)'
    BY <1>2, <1>5, <1>6 DEF EditInv, ThreadInv
  <1>8. QueueInv(s)'
    BY <1>2, <1>3, <1>4, <1>5, <1>6
       DEF EditInv, QueueInv, CutOff, QueueSame, Request, Step, Cleanup, Up, Answer
  <1>9. DeviceInv(s)'
    BY <1>3, <1>5 DEF EditInv, DeviceInv, CutOff, QueueSame, Request, Up, Answer, DevBeside, Holds
  <1>10. LockInv(s)'
    BY <1>3, <1>5, <1>6
       DEF EditInv, LockInv, CommitInv, CutOff, QueueSame, Request, Up, Answer, DevBeside, Holds
  <1>11. CommitInv(s)'
    BY <1>2, <1>3, <1>5, <1>6
       DEF EditInv, CommitInv, ThreadInv, CutOff, QueueSame, Up, Answer, DevBeside, Holds
  <1>12. Plays(s)
    BY <1>2, <1>3, <1>5, <1>6
       DEF EditInv, CommitInv, LockInv, ThreadInv, DeviceInv, Plays, CutOff
  <1>13. Careful(s)
    BY <1>1, DevFields DEF Careful, CutOff, QueueSame
  <1> QED
    BY <1>7, <1>8, <1>9, <1>10, <1>11, <1>12, <1>13 DEF Good, EditInv

\* The ssh of a show or of a shell is lost, with the engine as it was.
LEMMA TearUnasked ==
    ASSUME Typed, NEW s \in Session, EditInv(s),
           NEW stage \in {"doubted", "spent"},
           CutShort(s, stage, caller[s].told),
           Awaits(s) \in {"login", "exec"}, At(s) # "doubted"
    PROVE  Good(s)
  <1> USE DEF CutShort, Becomes, Returned, CallerSame
  <1>1. DevTyped /\ CallerTyped
    BY DEF Typed
  <1>2. caller[s].told \in {"nothing", "committed", "failed", "unknown"}
    BY <1>1, CallerFields
  <1>3. Quiet(s) => Len(wire[s].queue) = 0 /\ Steady(s) /\ \A x : ~Due(s, x)
    BY <1>1, QuietQueue
  <1>4. Ordered(s) /\ Newest(s) \in Step => Steady(s)
    BY <1>1, StepsOnly
  <1>5. /\ Op(s) = "none" <=> Awaits(s) = "none"
        /\ Answer(s) # "none" => Up(s) /\ Quiet(s)
        /\ Ordered(s)
    BY DEF EditInv, ThreadInv, DeviceInv
  <1>6. /\ Op(s) # "none" /\ At(s) # "gone" => caller[s].call = Op(s)
        /\ Op(s) \in {"load", "history", "show"} => At(s) \in {"borrowed", "gone"}
        /\ Op(s) = "diff" => At(s) \in {"loaded", "gone"}
        /\ Op(s) = "commit" => At(s) \in {"changed", "gone"}
        /\ Op(s) = "confirm" => At(s) \in {"asked", "gone"}
        /\ Op(s) = "release" => At(s) # "kept"
    BY DEF EditInv, ThreadInv, Follows, Borrowed
  <1>7. ThreadInv(s)'
    BY <1>2, <1>5, <1>6 DEF EditInv, ThreadInv
  <1>8. QueueInv(s)'
    BY <1>2, <1>3, <1>4, <1>5, <1>6
       DEF EditInv, QueueInv, CutOff, QueueSame, Request, Step, Cleanup, Up, Answer
  <1>9. DeviceInv(s)'
    BY <1>3, <1>5 DEF EditInv, DeviceInv, CutOff, QueueSame, Request, Up, Answer, DevBeside, Holds
  <1>10. LockInv(s)'
    BY <1>3, <1>5, <1>6
       DEF EditInv, LockInv, CommitInv, CutOff, QueueSame, Request, Up, Answer, DevBeside, Holds
  <1>11. CommitInv(s)'
    BY <1>2, <1>3, <1>5, <1>6
       DEF EditInv, CommitInv, ThreadInv, CutOff, QueueSame, Up, Answer, DevBeside, Holds
  <1>12. Plays(s)
    BY <1>2, <1>3, <1>5, <1>6
       DEF EditInv, CommitInv, LockInv, ThreadInv, DeviceInv, Plays, CutOff
  <1>13. Careful(s)
    BY <1>1, DevFields DEF Careful, CutOff, QueueSame
  <1> QED
    BY <1>7, <1>8, <1>9, <1>10, <1>11, <1>12, <1>13 DEF Good, EditInv

-----------------------------------------------------------------------------
(* The other steps of a session                                            *)

\* The reuse check vouches for the session.
VouchStep(s) ==
    /\ Becomes(s, Has(s), Dirty(s), Fit(s), "none", "none")
    /\ Renewed(s) /\ DevBeside(s)
    /\ At(s)' = "borrowed" /\ caller'[s].call = "none" /\ caller'[s].told = "nothing"

\* Its caller gives it up, with its transport, or without a shell's ssh that is
\* not the session's yet.
DropStep(s) ==
    /\ Op(s)' = Op(s) /\ Awaits(s)' = Awaits(s)
    /\ CutOff(s) /\ DevBeside(s)
    /\ Abandoned(s)

DropUncut(s) ==
    /\ Becomes(s, Has(s), Dirty(s), Fit(s), Op(s), Awaits(s))
    /\ ReadFrom(s) /\ DevBeside(s)
    /\ Abandoned(s)

\* The transport is lost, and the thread has yet to find out.
LoseStep(s) ==
    /\ Becomes(s, Has(s), Dirty(s), Fit(s), Op(s), Awaits(s))
    /\ CutOff(s) /\ DevBeside(s)
    /\ CallerSame(s)

DeviceSame(s) ==
    /\ QueueSame(s)
    /\ wire'[s].up = wire[s].up /\ wire'[s].served = wire[s].served
    /\ wire'[s].answer = wire[s].answer
    /\ dev'.fate[s] = dev.fate[s]

LEMMA SameDevice ==
    ASSUME DevTyped, UNCHANGED <<dev, wire>>
    PROVE  DevTyped' /\ \A s \in Session : DeviceSame(s) /\ DevBeside(s)
  BY SameQueue DEF DevTyped, DeviceSame, DevBeside, Holds

\* A call begins that asks the device of nothing yet.
StartStep(s, op, awaits) ==
    /\ Becomes(s, Has(s), Dirty(s), Fit(s), op, awaits)
    /\ DeviceSame(s) /\ DevBeside(s)
    /\ May(s, op) /\ Called(s, op)

RestStep(s) ==
    /\ Becomes(s, Has(s), Dirty(s), Fit(s), Op(s), Awaits(s))
    /\ DeviceSame(s) /\ DevBeside(s)
    /\ CallerSame(s)

Connected(s) ==
    /\ QueueSame(s)
    /\ wire'[s].up /\ wire'[s].served
    /\ wire'[s].answer = wire[s].answer
    /\ dev'.fate[s] = dev.fate[s]

ConnectStep(s) ==
    /\ Becomes(s, Has(s), Dirty(s), Fit(s), Op(s), Awaits(s))
    /\ Connected(s) /\ DevBeside(s)
    /\ CallerSame(s)

LEMMA ConnectFields ==
    ASSUME DevTyped, NEW s \in Session, Connect(s)
    PROVE  Connected(s) /\ DevBeside(s) /\ DevTyped'
  <1> DEFINE w == [wire[s] EXCEPT !.up = TRUE]
             v == [w EXCEPT !.served = TRUE]
  <1>1. wire[s] \in AWire
    BY DevFields
  <1>2. w \in AWire /\ w.queue = wire[s].queue /\ w.up /\ w.answer = wire[s].answer
    BY <1>1 DEF AWire
  <1>3. /\ v \in AWire /\ v.queue = wire[s].queue /\ v.up /\ v.served
        /\ v.answer = wire[s].answer
    BY <1>2 DEF AWire
  <1>4. wire' = [[wire EXCEPT ![s] = w] EXCEPT ![s] = v]
    <2>1. wire' = [wire EXCEPT ![s].up = TRUE, ![s].served = TRUE]
      BY DEF Connect
    <2>2. [wire EXCEPT ![s] = w][s] = w
      BY DEF DevTyped
    <2> QED
      BY <2>1, <2>2
  <1> HIDE DEF w, v
  <1>5. /\ wire'[s].queue = wire[s].queue
        /\ wire'[s].up /\ wire'[s].served
        /\ wire'[s].answer = wire[s].answer
        /\ \A q \in Session \ {s} : wire'[q] = wire[q]
        /\ wire' \in [Session -> AWire]
    BY <1>3, <1>4 DEF DevTyped
  <1>6. dev' = dev
    BY DEF Connect
  <1>7. QED
    BY <1>5, <1>6, SameQueue DEF Connected, DevBeside, Holds, DevTyped

LEMMA Vouch ==
    ASSUME Typed, NEW s \in Session, EditInv(s),
           VouchStep(s), At(s) = "kept",
           Op(s) = "none" \/ (Awaits(s) = "probe" /\ Answer(s) # "none")
    PROVE  Good(s)
  <1> USE DEF VouchStep, Becomes
  <1>1. DevTyped /\ CallerTyped
    BY DEF Typed
  <1>2. caller[s].told \in {"nothing", "committed", "failed", "unknown"}
    BY <1>1, CallerFields
  <1>3. Quiet(s) => Len(wire[s].queue) = 0 /\ Steady(s) /\ \A x : ~Due(s, x)
    BY <1>1, QuietQueue
  <1>4. Ordered(s) /\ Newest(s) \in Step => Steady(s)
    BY <1>1, StepsOnly
  <1>5. /\ Op(s) = "none" <=> Awaits(s) = "none"
        /\ Answer(s) # "none" => Up(s) /\ Quiet(s)
        /\ Ordered(s)
    BY DEF EditInv, ThreadInv, DeviceInv
  <1>6. /\ Op(s) # "none" /\ At(s) # "gone" => caller[s].call = Op(s)
        /\ Op(s) \in {"load", "history", "show"} => At(s) \in {"borrowed", "gone"}
        /\ Op(s) = "diff" => At(s) \in {"loaded", "gone"}
        /\ Op(s) = "commit" => At(s) \in {"changed", "gone"}
        /\ Op(s) = "confirm" => At(s) \in {"asked", "gone"}
        /\ Op(s) = "release" => At(s) # "kept"
    BY DEF EditInv, ThreadInv, Follows, Borrowed
  <1>a. Quiet(s) /\ Fit(s) /\ ~Has(s)
    BY <1>5 DEF EditInv, QueueInv, CommitInv, Request
  <1>7. ThreadInv(s)'
    BY <1>2, <1>5, <1>6 DEF EditInv, ThreadInv
  <1>8. QueueInv(s)'
    BY <1>2, <1>3, <1>4, <1>5, <1>6, <1>a
       DEF EditInv, QueueInv, Renewed, QueueSame, Request, Step, Cleanup, Up, Answer
  <1>9. DeviceInv(s)'
    BY <1>3, <1>5, <1>a DEF EditInv, DeviceInv, Renewed, QueueSame, Request, Up, Answer, DevBeside, Holds
  <1>10. LockInv(s)'
    BY <1>3, <1>5, <1>6, <1>a
       DEF EditInv, LockInv, CommitInv, Renewed, QueueSame, Request, Up, Answer, DevBeside, Holds
  <1>11. CommitInv(s)'
    BY <1>2, <1>3, <1>5, <1>6, <1>a
       DEF EditInv, CommitInv, ThreadInv, Renewed, QueueSame, Up, Answer, DevBeside, Holds
  <1>12. Plays(s)
    BY <1>2, <1>3, <1>5, <1>6, <1>a
       DEF EditInv, CommitInv, LockInv, ThreadInv, DeviceInv, Plays, Renewed
  <1>13. Careful(s)
    BY <1>1, DevFields DEF Careful, Renewed, QueueSame
  <1> QED
    BY <1>7, <1>8, <1>9, <1>10, <1>11, <1>12, <1>13 DEF Good, EditInv

LEMMA Drop ==
    ASSUME Typed, NEW s \in Session, EditInv(s),
           DropStep(s), Has(s)' => Has(s),
           Fit(s)' => Fit(s) /\ (Has(s)' <=> Has(s)) /\ (Dirty(s)' <=> Dirty(s))
    PROVE  Good(s)
  <1> USE DEF DropStep, Abandoned, Becomes
  <1>1. DevTyped /\ CallerTyped
    BY DEF Typed
  <1>2. caller[s].told \in {"nothing", "committed", "failed", "unknown"}
    BY <1>1, CallerFields
  <1>3. Quiet(s) => Len(wire[s].queue) = 0 /\ Steady(s) /\ \A x : ~Due(s, x)
    BY <1>1, QuietQueue
  <1>4. Ordered(s) /\ Newest(s) \in Step => Steady(s)
    BY <1>1, StepsOnly
  <1>5. /\ Op(s) = "none" <=> Awaits(s) = "none"
        /\ Answer(s) # "none" => Up(s) /\ Quiet(s)
        /\ Ordered(s)
    BY DEF EditInv, ThreadInv, DeviceInv
  <1>6. /\ Op(s) # "none" /\ At(s) # "gone" => caller[s].call = Op(s)
        /\ Op(s) \in {"load", "history", "show"} => At(s) \in {"borrowed", "gone"}
        /\ Op(s) = "diff" => At(s) \in {"loaded", "gone"}
        /\ Op(s) = "commit" => At(s) \in {"changed", "gone"}
        /\ Op(s) = "confirm" => At(s) \in {"asked", "gone"}
        /\ Op(s) = "release" => At(s) # "kept"
    BY DEF EditInv, ThreadInv, Follows, Borrowed
  <1>7. ThreadInv(s)'
    BY <1>2, <1>5, <1>6 DEF EditInv, ThreadInv
  <1>8. QueueInv(s)'
    BY <1>2, <1>3, <1>4, <1>5, <1>6
       DEF EditInv, QueueInv, CutOff, QueueSame, Request, Step, Cleanup, Up, Answer
  <1>9. DeviceInv(s)'
    BY <1>3, <1>5 DEF EditInv, DeviceInv, CutOff, QueueSame, Request, Up, Answer, DevBeside, Holds
  <1>10. LockInv(s)'
    BY <1>3, <1>5, <1>6
       DEF EditInv, LockInv, CommitInv, CutOff, QueueSame, Request, Up, Answer, DevBeside, Holds
  <1>11. CommitInv(s)'
    BY <1>2, <1>3, <1>5, <1>6
       DEF EditInv, CommitInv, ThreadInv, CutOff, QueueSame, Up, Answer, DevBeside, Holds
  <1>12. Plays(s)
    BY <1>2, <1>3, <1>5, <1>6
       DEF EditInv, CommitInv, LockInv, ThreadInv, DeviceInv, Plays, CutOff
  <1>13. Careful(s)
    BY <1>1, DevFields DEF Careful, CutOff, QueueSame
  <1> QED
    BY <1>7, <1>8, <1>9, <1>10, <1>11, <1>12, <1>13 DEF Good, EditInv

LEMMA DropShell ==
    ASSUME Typed, NEW s \in Session, EditInv(s),
           DropUncut(s), Awaits(s) = "login"
    PROVE  Good(s)
  <1> USE DEF DropUncut, Abandoned, Becomes
  <1>1. DevTyped /\ CallerTyped
    BY DEF Typed
  <1>2. caller[s].told \in {"nothing", "committed", "failed", "unknown"}
    BY <1>1, CallerFields
  <1>3. Quiet(s) => Len(wire[s].queue) = 0 /\ Steady(s) /\ \A x : ~Due(s, x)
    BY <1>1, QuietQueue
  <1>4. Ordered(s) /\ Newest(s) \in Step => Steady(s)
    BY <1>1, StepsOnly
  <1>5. /\ Op(s) = "none" <=> Awaits(s) = "none"
        /\ Answer(s) # "none" => Up(s) /\ Quiet(s)
        /\ Ordered(s)
    BY DEF EditInv, ThreadInv, DeviceInv
  <1>6. /\ Op(s) # "none" /\ At(s) # "gone" => caller[s].call = Op(s)
        /\ Op(s) \in {"load", "history", "show"} => At(s) \in {"borrowed", "gone"}
        /\ Op(s) = "diff" => At(s) \in {"loaded", "gone"}
        /\ Op(s) = "commit" => At(s) \in {"changed", "gone"}
        /\ Op(s) = "confirm" => At(s) \in {"asked", "gone"}
        /\ Op(s) = "release" => At(s) # "kept"
    BY DEF EditInv, ThreadInv, Follows, Borrowed
  <1>7. ThreadInv(s)'
    BY <1>2, <1>5, <1>6 DEF EditInv, ThreadInv
  <1>8. QueueInv(s)'
    BY <1>2, <1>3, <1>4, <1>5, <1>6
       DEF EditInv, QueueInv, ReadFrom, QueueSame, Request, Step, Cleanup, Up, Answer
  <1>9. DeviceInv(s)'
    BY <1>3, <1>5 DEF EditInv, DeviceInv, ReadFrom, QueueSame, Request, Up, Answer, DevBeside, Holds
  <1>10. LockInv(s)'
    BY <1>3, <1>5, <1>6
       DEF EditInv, LockInv, CommitInv, ReadFrom, QueueSame, Request, Up, Answer, DevBeside, Holds
  <1>11. CommitInv(s)'
    BY <1>2, <1>3, <1>5, <1>6
       DEF EditInv, CommitInv, ThreadInv, ReadFrom, QueueSame, Up, Answer, DevBeside, Holds
  <1>12. Plays(s)
    BY <1>2, <1>3, <1>5, <1>6
       DEF EditInv, CommitInv, LockInv, ThreadInv, DeviceInv, Plays, ReadFrom
  <1>13. Careful(s)
    BY <1>1, DevFields DEF Careful, ReadFrom, QueueSame
  <1> QED
    BY <1>7, <1>8, <1>9, <1>10, <1>11, <1>12, <1>13 DEF Good, EditInv

LEMMA Lose ==
    ASSUME Typed, NEW s \in Session, EditInv(s),
           LoseStep(s)
    PROVE  Good(s)
  <1> USE DEF LoseStep, CallerSame, Becomes
  <1>1. DevTyped /\ CallerTyped
    BY DEF Typed
  <1>2. caller[s].told \in {"nothing", "committed", "failed", "unknown"}
    BY <1>1, CallerFields
  <1>3. Quiet(s) => Len(wire[s].queue) = 0 /\ Steady(s) /\ \A x : ~Due(s, x)
    BY <1>1, QuietQueue
  <1>4. Ordered(s) /\ Newest(s) \in Step => Steady(s)
    BY <1>1, StepsOnly
  <1>5. /\ Op(s) = "none" <=> Awaits(s) = "none"
        /\ Answer(s) # "none" => Up(s) /\ Quiet(s)
        /\ Ordered(s)
    BY DEF EditInv, ThreadInv, DeviceInv
  <1>6. /\ Op(s) # "none" /\ At(s) # "gone" => caller[s].call = Op(s)
        /\ Op(s) \in {"load", "history", "show"} => At(s) \in {"borrowed", "gone"}
        /\ Op(s) = "diff" => At(s) \in {"loaded", "gone"}
        /\ Op(s) = "commit" => At(s) \in {"changed", "gone"}
        /\ Op(s) = "confirm" => At(s) \in {"asked", "gone"}
        /\ Op(s) = "release" => At(s) # "kept"
    BY DEF EditInv, ThreadInv, Follows, Borrowed
  <1>7. ThreadInv(s)'
    BY <1>2, <1>5, <1>6 DEF EditInv, ThreadInv
  <1>8. QueueInv(s)'
    BY <1>2, <1>3, <1>4, <1>5, <1>6
       DEF EditInv, QueueInv, CutOff, QueueSame, Request, Step, Cleanup, Up, Answer
  <1>9. DeviceInv(s)'
    BY <1>3, <1>5 DEF EditInv, DeviceInv, CutOff, QueueSame, Request, Up, Answer, DevBeside, Holds
  <1>10. LockInv(s)'
    BY <1>3, <1>5, <1>6
       DEF EditInv, LockInv, CommitInv, CutOff, QueueSame, Request, Up, Answer, DevBeside, Holds
  <1>11. CommitInv(s)'
    BY <1>2, <1>3, <1>5, <1>6
       DEF EditInv, CommitInv, ThreadInv, CutOff, QueueSame, Up, Answer, DevBeside, Holds
  <1>12. Plays(s)
    BY <1>2, <1>3, <1>5, <1>6
       DEF EditInv, CommitInv, LockInv, ThreadInv, DeviceInv, Plays, CutOff
  <1>13. Careful(s)
    BY <1>1, DevFields DEF Careful, CutOff, QueueSame
  <1> QED
    BY <1>7, <1>8, <1>9, <1>10, <1>11, <1>12, <1>13 DEF Good, EditInv

LEMMA Start ==
    ASSUME Typed, NEW s \in Session, EditInv(s),
           NEW op \in Call, NEW awaits \in {"login", "exec"},
           awaits = "login" => op \in {"load", "history"},
           awaits = "exec" => op = "show",
           Op(s) = "none", StartStep(s, op, awaits)
    PROVE  Good(s)
  <1> USE DEF StartStep, Called, Becomes
  <1>1. DevTyped /\ CallerTyped
    BY DEF Typed
  <1>2. caller[s].told \in {"nothing", "committed", "failed", "unknown"}
    BY <1>1, CallerFields
  <1>3. Quiet(s) => Len(wire[s].queue) = 0 /\ Steady(s) /\ \A x : ~Due(s, x)
    BY <1>1, QuietQueue
  <1>4. Ordered(s) /\ Newest(s) \in Step => Steady(s)
    BY <1>1, StepsOnly
  <1>5. /\ Op(s) = "none" <=> Awaits(s) = "none"
        /\ Answer(s) # "none" => Up(s) /\ Quiet(s)
        /\ Ordered(s)
    BY DEF EditInv, ThreadInv, DeviceInv
  <1>6. /\ Op(s) # "none" /\ At(s) # "gone" => caller[s].call = Op(s)
        /\ Op(s) \in {"load", "history", "show"} => At(s) \in {"borrowed", "gone"}
        /\ Op(s) = "diff" => At(s) \in {"loaded", "gone"}
        /\ Op(s) = "commit" => At(s) \in {"changed", "gone"}
        /\ Op(s) = "confirm" => At(s) \in {"asked", "gone"}
        /\ Op(s) = "release" => At(s) # "kept"
    BY DEF EditInv, ThreadInv, Follows, Borrowed
  <1>a. caller[s].call = "none" /\ At(s) = "borrowed" /\ At(s) \in Follows(op)
    BY <1>1, Beginning
  <1>7. ThreadInv(s)'
    BY <1>2, <1>5, <1>6, <1>a DEF EditInv, ThreadInv
  <1>8. QueueInv(s)'
    BY <1>2, <1>3, <1>4, <1>5, <1>6, <1>a
       DEF EditInv, QueueInv, DeviceSame, QueueSame, Request, Step, Cleanup, Up, Answer
  <1>9. DeviceInv(s)'
    BY <1>3, <1>5, <1>a DEF EditInv, DeviceInv, DeviceSame, QueueSame, Request, Up, Answer, DevBeside, Holds
  <1>10. LockInv(s)'
    BY <1>3, <1>5, <1>6, <1>a
       DEF EditInv, LockInv, CommitInv, DeviceSame, QueueSame, Request, Up, Answer, DevBeside, Holds
  <1>11. CommitInv(s)'
    BY <1>2, <1>3, <1>5, <1>6, <1>a
       DEF EditInv, CommitInv, ThreadInv, DeviceSame, QueueSame, Up, Answer, DevBeside, Holds
  <1>12. Plays(s)
    BY <1>2, <1>3, <1>5, <1>6, <1>a
       DEF EditInv, CommitInv, LockInv, ThreadInv, DeviceInv, Plays, DeviceSame
  <1>13. Careful(s)
    BY <1>1, DevFields DEF Careful, DeviceSame, QueueSame
  <1> QED
    BY <1>7, <1>8, <1>9, <1>10, <1>11, <1>12, <1>13 DEF Good, EditInv

LEMMA Rest ==
    ASSUME Typed, NEW s \in Session, EditInv(s),
           RestStep(s)
    PROVE  Good(s)
  <1> USE DEF RestStep, CallerSame, Becomes
  <1>1. DevTyped /\ CallerTyped
    BY DEF Typed
  <1>2. caller[s].told \in {"nothing", "committed", "failed", "unknown"}
    BY <1>1, CallerFields
  <1>3. Quiet(s) => Len(wire[s].queue) = 0 /\ Steady(s) /\ \A x : ~Due(s, x)
    BY <1>1, QuietQueue
  <1>4. Ordered(s) /\ Newest(s) \in Step => Steady(s)
    BY <1>1, StepsOnly
  <1>5. /\ Op(s) = "none" <=> Awaits(s) = "none"
        /\ Answer(s) # "none" => Up(s) /\ Quiet(s)
        /\ Ordered(s)
    BY DEF EditInv, ThreadInv, DeviceInv
  <1>6. /\ Op(s) # "none" /\ At(s) # "gone" => caller[s].call = Op(s)
        /\ Op(s) \in {"load", "history", "show"} => At(s) \in {"borrowed", "gone"}
        /\ Op(s) = "diff" => At(s) \in {"loaded", "gone"}
        /\ Op(s) = "commit" => At(s) \in {"changed", "gone"}
        /\ Op(s) = "confirm" => At(s) \in {"asked", "gone"}
        /\ Op(s) = "release" => At(s) # "kept"
    BY DEF EditInv, ThreadInv, Follows, Borrowed
  <1>7. ThreadInv(s)'
    BY <1>2, <1>5, <1>6 DEF EditInv, ThreadInv
  <1>8. QueueInv(s)'
    BY <1>2, <1>3, <1>4, <1>5, <1>6
       DEF EditInv, QueueInv, DeviceSame, QueueSame, Request, Step, Cleanup, Up, Answer
  <1>9. DeviceInv(s)'
    BY <1>3, <1>5 DEF EditInv, DeviceInv, DeviceSame, QueueSame, Request, Up, Answer, DevBeside, Holds
  <1>10. LockInv(s)'
    BY <1>3, <1>5, <1>6
       DEF EditInv, LockInv, CommitInv, DeviceSame, QueueSame, Request, Up, Answer, DevBeside, Holds
  <1>11. CommitInv(s)'
    BY <1>2, <1>3, <1>5, <1>6
       DEF EditInv, CommitInv, ThreadInv, DeviceSame, QueueSame, Up, Answer, DevBeside, Holds
  <1>12. Plays(s)
    BY <1>2, <1>3, <1>5, <1>6
       DEF EditInv, CommitInv, LockInv, ThreadInv, DeviceInv, Plays, DeviceSame
  <1>13. Careful(s)
    BY <1>1, DevFields DEF Careful, DeviceSame, QueueSame
  <1> QED
    BY <1>7, <1>8, <1>9, <1>10, <1>11, <1>12, <1>13 DEF Good, EditInv

LEMMA Connecting ==
    ASSUME Typed, NEW s \in Session, EditInv(s),
           ConnectStep(s), Awaits(s) = "login", Quiet(s), Answer(s) = "none",
           Fit(s), ~Has(s), ~Holds(s), dev.fate[s] = "none"
    PROVE  Good(s)
  <1> USE DEF ConnectStep, CallerSame, Becomes
  <1>1. DevTyped /\ CallerTyped
    BY DEF Typed
  <1>2. caller[s].told \in {"nothing", "committed", "failed", "unknown"}
    BY <1>1, CallerFields
  <1>3. Quiet(s) => Len(wire[s].queue) = 0 /\ Steady(s) /\ \A x : ~Due(s, x)
    BY <1>1, QuietQueue
  <1>4. Ordered(s) /\ Newest(s) \in Step => Steady(s)
    BY <1>1, StepsOnly
  <1>5. /\ Op(s) = "none" <=> Awaits(s) = "none"
        /\ Answer(s) # "none" => Up(s) /\ Quiet(s)
        /\ Ordered(s)
    BY DEF EditInv, ThreadInv, DeviceInv
  <1>6. /\ Op(s) # "none" /\ At(s) # "gone" => caller[s].call = Op(s)
        /\ Op(s) \in {"load", "history", "show"} => At(s) \in {"borrowed", "gone"}
        /\ Op(s) = "diff" => At(s) \in {"loaded", "gone"}
        /\ Op(s) = "commit" => At(s) \in {"changed", "gone"}
        /\ Op(s) = "confirm" => At(s) \in {"asked", "gone"}
        /\ Op(s) = "release" => At(s) # "kept"
    BY DEF EditInv, ThreadInv, Follows, Borrowed
  <1>7. ThreadInv(s)'
    BY <1>2, <1>5, <1>6 DEF EditInv, ThreadInv
  <1>8. QueueInv(s)'
    BY <1>2, <1>3, <1>4, <1>5, <1>6
       DEF EditInv, QueueInv, Connected, QueueSame, Request, Step, Cleanup, Up, Answer
  <1>9. DeviceInv(s)'
    BY <1>3, <1>5 DEF EditInv, DeviceInv, Connected, QueueSame, Request, Up, Answer, DevBeside, Holds
  <1>10. LockInv(s)'
    BY <1>3, <1>5, <1>6
       DEF EditInv, LockInv, CommitInv, Connected, QueueSame, Request, Up, Answer, DevBeside, Holds
  <1>11. CommitInv(s)'
    BY <1>2, <1>3, <1>5, <1>6
       DEF EditInv, CommitInv, ThreadInv, Connected, QueueSame, Up, Answer, DevBeside, Holds
  <1>12. Plays(s)
    BY <1>2, <1>3, <1>5, <1>6
       DEF EditInv, CommitInv, LockInv, ThreadInv, DeviceInv, Plays, Connected
  <1>13. Careful(s)
    BY <1>1, DevFields DEF Careful, Connected, QueueSame
  <1> QED
    BY <1>7, <1>8, <1>9, <1>10, <1>11, <1>12, <1>13 DEF Good, EditInv

-----------------------------------------------------------------------------
(* The steps of a NETCONF session                                          *)

\* What every step of s leaves as it was, and what it keeps.
Beside(s) == DevBeside(s) /\ CallerBeside(s) /\ FlagsBeside(s) /\ Typed'
NetKept(s) == Good(s) /\ NetInv(s)' /\ Beside(s)

LEMMA NetAsks ==
    ASSUME Typed, NEW s \in NetSession, NEW n \in Netconf!Net, NEW r \in Request,
           Netconf!Asks(s, n, r), UNCHANGED <<cli, mux>>
    PROVE  /\ Becomes(s, n.locked, n.dirty, ~n.doubtful, n.op, r)
           /\ SentTo(s, r) /\ DevBeside(s) /\ DevTyped'
           /\ FlagsBeside(s) /\ FlagsTyped'
  <1> DEFINE m == [n EXCEPT !.awaits = r]
  <1>1. m \in Netconf!Net /\ m.locked = n.locked /\ m.dirty = n.dirty
        /\ m.doubtful = n.doubtful /\ m.op = n.op /\ m.awaits = r
    BY DEF Netconf!Net, Netconf!Request, Request
  <1>2. Netconf!Sets(s, m) /\ Put(s, r)
    BY NetconfUses DEF Netconf!Asks
  <1> HIDE DEF m
  <1>3. FlagsTyped /\ DevTyped
    BY DEF Typed
  <1>4. Becomes(s, m.locked, m.dirty, ~m.doubtful, m.op, m.awaits) /\ FlagsBeside(s) /\ FlagsTyped'
    BY <1>1, <1>2, <1>3, NetSet
  <1>5. SentTo(s, r) /\ DevBeside(s) /\ DevTyped'
    BY <1>2, <1>3, PutFields
  <1>6. QED
    BY <1>1, <1>4, <1>5

LEMMA NetEnds ==
    ASSUME Typed, NEW s \in NetSession, NEW n \in Netconf!Net, NEW stage \in Stage,
           NEW word \in {"nothing", "committed", "failed", "unknown"},
           Netconf!EndsTelling(s, n, stage, word), UNCHANGED <<cli, mux>>
    PROVE  EndStep(s, n.locked, n.dirty, ~n.doubtful, stage, word) /\ Beside(s)
  <1> DEFINE m == Netconf!Idle(n)
  <1>1. m \in Netconf!Net /\ m.locked = n.locked /\ m.dirty = n.dirty
        /\ m.doubtful = n.doubtful /\ m.op = "none" /\ m.awaits = "none"
    BY DEF Netconf!Net, Netconf!Idle
  <1>2. Netconf!Sets(s, m) /\ Read(s) /\ ReturnsTelling(s, stage, word)
    BY NetconfUses DEF Netconf!EndsTelling
  <1> HIDE DEF m
  <1>3. FlagsTyped /\ DevTyped /\ CallerTyped
    BY DEF Typed
  <1>4. Becomes(s, m.locked, m.dirty, ~m.doubtful, m.op, m.awaits) /\ FlagsBeside(s) /\ FlagsTyped'
    BY <1>1, <1>2, <1>3, NetSet
  <1>5. ReadFrom(s) /\ DevBeside(s) /\ DevTyped'
    BY <1>2, <1>3, ReadFields
  <1>6. Returned(s, stage, word) /\ CallerBeside(s) /\ CallerTyped'
    BY <1>2, <1>3, ReturnsFields
  <1>7. QED
    BY <1>1, <1>4, <1>5, <1>6 DEF EndStep, Beside, Typed

LEMMA NetDiscards ==
    ASSUME Typed, NEW s \in NetSession, NEW n \in Netconf!Net, NEW stage \in Stage,
           NEW word \in {"nothing", "committed", "failed", "unknown"},
           Netconf!DiscardsTelling(s, n, stage, word), UNCHANGED <<cli, mux>>
    PROVE  TearStep(s, stage, word) /\ ~Has(s)' /\ Beside(s)
  <1> DEFINE m == Netconf!Idle(Netconf!Discarded(n))
  <1>1. m \in Netconf!Net /\ m.locked = FALSE /\ m.dirty = FALSE
        /\ m.doubtful = TRUE /\ m.op = "none" /\ m.awaits = "none"
    BY DEF Netconf!Net, Netconf!Idle, Netconf!Discarded
  <1>2. Netconf!Sets(s, m) /\ Cut(s) /\ ReturnsTelling(s, stage, word)
    BY NetconfUses DEF Netconf!DiscardsTelling
  <1> HIDE DEF m
  <1>3. FlagsTyped /\ DevTyped /\ CallerTyped
    BY DEF Typed
  <1>4. Becomes(s, m.locked, m.dirty, ~m.doubtful, m.op, m.awaits) /\ FlagsBeside(s) /\ FlagsTyped'
    BY <1>1, <1>2, <1>3, NetSet
  <1>5. CutOff(s) /\ DevBeside(s) /\ DevTyped'
    BY <1>2, <1>3, CutFields
  <1>6. Returned(s, stage, word) /\ CallerBeside(s) /\ CallerTyped'
    BY <1>2, <1>3, ReturnsFields
  <1>7. ~Has(s)' /\ ~Fit(s)' /\ Op(s)' = "none" /\ Awaits(s)' = "none"
    BY <1>1, <1>4 DEF Becomes
  <1>8. QED
    BY <1>4, <1>5, <1>6, <1>7 DEF TearStep, Beside, Typed

LEMMA NetVouches ==
    ASSUME Typed, NEW s \in NetSession, Netconf!Vouches(s), UNCHANGED <<cli, mux>>
    PROVE  VouchStep(s) /\ Beside(s)
  <1> DEFINE m == Netconf!Idle(net[s])
  <1>0. FlagsTyped /\ DevTyped /\ CallerTyped
    BY DEF Typed
  <1>a. net[s] \in Netconf!Net
    BY <1>0, NetFields
  <1>b. m \in Netconf!Net /\ m.locked = net[s].locked /\ m.dirty = net[s].dirty
        /\ m.doubtful = net[s].doubtful /\ m.op = "none" /\ m.awaits = "none"
    BY <1>a DEF Netconf!Net, Netconf!Idle
  <1>1. m \in Netconf!Net /\ (m.locked <=> Has(s)) /\ (m.dirty <=> Dirty(s))
        /\ (~m.doubtful <=> Fit(s)) /\ m.op = "none" /\ m.awaits = "none"
    BY <1>0, <1>b, NetFields
  <1>2. Netconf!Sets(s, m) /\ Renew(s) /\ NewBorrow(s)
    BY NetconfUses DEF Netconf!Vouches
  <1> HIDE DEF m
  <1>4. Becomes(s, m.locked, m.dirty, ~m.doubtful, m.op, m.awaits) /\ FlagsBeside(s) /\ FlagsTyped'
    BY <1>1, <1>2, <1>0, NetSet
  <1>5. Renewed(s) /\ DevBeside(s) /\ DevTyped'
    BY <1>2, <1>0, RenewFields
  <1>6. /\ At(s)' = "borrowed" /\ caller'[s].call = "none" /\ caller'[s].told = "nothing"
        /\ CallerBeside(s) /\ CallerTyped'
    BY <1>2, <1>0, BorrowFields
  <1>7. Becomes(s, Has(s), Dirty(s), Fit(s), "none", "none")
    BY <1>1, <1>4 DEF Becomes
  <1>8. QED
    BY <1>4, <1>5, <1>6, <1>7 DEF VouchStep, Beside, Typed

\* What holds before a step of a NETCONF session.
NetReady(s) == Typed /\ EditInv(s) /\ NetInv(s)

LEMMA NetEntry ==
    ASSUME Typed, NEW s \in NetSession
    PROVE  /\ s \in Session /\ s \notin CliSession /\ s \notin MuxSession
           /\ DevTyped /\ CallerTyped /\ FlagsTyped
           /\ caller[s].told \in {"nothing", "committed", "failed", "unknown"} /\ At(s) \in Stage
           /\ net[s] \in Netconf!Net
           /\ Has(s) \in BOOLEAN /\ Dirty(s) \in BOOLEAN /\ Fit(s) \in BOOLEAN
           /\ (Has(s) <=> net[s].locked) /\ (Dirty(s) <=> net[s].dirty)
           /\ (Fit(s) <=> ~net[s].doubtful)
           /\ Op(s) = net[s].op /\ Awaits(s) = net[s].awaits
  <1>1. DevTyped /\ CallerTyped /\ FlagsTyped
    BY DEF Typed
  <1>2. Has(s) \in BOOLEAN /\ Dirty(s) \in BOOLEAN /\ Fit(s) \in BOOLEAN
    BY <1>1, NetFields, NetIsNotCli DEF Has, Dirty, Fit
  <1>3. QED
    BY <1>1, <1>2, NetFields, NetIsNotCli, CallerFields

\* Every way a step may end leaves a session in doubt without lock and transport.
LEMMA NetDoubtAsk ==
    ASSUME NEW s \in NetSession, NetInv(s), NEW r, NEW has, NEW dirty, NEW op,
           AskStep(s, r, has, dirty, op), ~Fit(s) => ~has
    PROVE  NetInv(s)'
  <1>1. caller'[s].stage = At(s)
    BY DEF AskStep, Called, CallerSame, At
  <1>2. QED
    BY <1>1 DEF NetInv, AskStep, Becomes, SentTo, Up, At

LEMMA NetDoubtEnd ==
    ASSUME NEW s \in NetSession, NetInv(s), NEW has, NEW dirty, NEW fit, NEW stage, NEW word,
           EndStep(s, has, dirty, fit, stage, word), ~fit => ~has /\ ~Fit(s),
           stage = "gone" => At(s) = "gone"
    PROVE  NetInv(s)'
  BY DEF NetInv, EndStep, Becomes, Returned, CallerSame, ReadFrom, Up, At

LEMMA NetDoubtTear ==
    ASSUME NEW s \in NetSession, NEW stage, NEW word,
           TearStep(s, stage, word), ~Has(s)'
    PROVE  NetInv(s)'
  BY DEF NetInv, TearStep, CutOff, Up

LEMMA NetGoes ==
    ASSUME NEW s \in NetSession, NetReady(s), NEW n \in Netconf!Net,
           n.locked, n.op \in {"load", "diff", "commit", "confirm"},
           ~n.doubtful <=> Fit(s), n.dirty <=> Dirty(s),
           Netconf!Goes(s, n), UNCHANGED <<cli, mux>>,
           \/ Op(s) = "none" /\ May(s, n.op) /\ Called(s, n.op)
           \/ Op(s) = n.op /\ CallerSame(s),
           CallerBeside(s), CallerTyped',
           Clear(s), Awaits(s) \in {"none", "lock"},
           Up(s) => Holds(s) /\ (Dirty(s) \/ s \notin dev.cand) /\ At(s) # "gone",
           Fit(s)
    PROVE  NetKept(s)
  <1>1. Typed /\ EditInv(s) /\ NetInv(s) /\ s \in Session
    BY NetIsNotCli DEF NetReady
  <1>2. DevTyped /\ CallerTyped
    BY <1>1 DEF Typed
  <1>3. CASE n.op = "load"
    <2> DEFINE m == [n EXCEPT !.dirty = TRUE]
    <2>1. m \in Netconf!Net /\ m.locked /\ m.dirty /\ m.doubtful = n.doubtful /\ m.op = "load"
      BY <1>3 DEF Netconf!Net
    <2>2. Netconf!Asks(s, m, "load")
      BY <1>3 DEF Netconf!Goes
    <2> HIDE DEF m
    <2>3. /\ Becomes(s, m.locked, m.dirty, ~m.doubtful, m.op, "load")
          /\ SentTo(s, "load") /\ DevBeside(s) /\ DevTyped'
          /\ FlagsBeside(s) /\ FlagsTyped'
      BY <1>1, <2>1, <2>2, NetAsks DEF Request
    <2>4. AskStep(s, "load", TRUE, Dirty(s) \/ "load" = "load", "load")
      BY <1>3, <2>1, <2>3 DEF AskStep, Becomes
    <2>5. Up(s) => At(s) = "borrowed"
      BY <1>1, <1>2, <1>3, Beginning DEF EditInv, ThreadInv, Follows, Call
    <2>6. Up(s) => dev.fate[s] \in {"none", "refused"}
      BY <1>1, <2>5 DEF EditInv, CommitInv
    <2>7. Good(s)
      BY <1>1, <2>4, <2>6, AskUnderLock DEF Call
    <2>8. NetInv(s)'
      BY <1>1, <2>4, NetDoubtAsk
    <2> QED
      BY <2>3, <2>7, <2>8 DEF NetKept, Beside, Typed
  <1>4. CASE n.op = "confirm"
    <2>2. Netconf!Asks(s, n, "history")
      BY <1>4 DEF Netconf!Goes
    <2>3. /\ Becomes(s, n.locked, n.dirty, ~n.doubtful, n.op, "history")
          /\ SentTo(s, "history") /\ DevBeside(s) /\ DevTyped'
          /\ FlagsBeside(s) /\ FlagsTyped'
      BY <1>1, <2>2, NetAsks DEF Request
    <2>4. AskStep(s, "history", TRUE, Dirty(s) \/ "history" = "load", "confirm")
      BY <1>4, <2>3 DEF AskStep, Becomes
    <2>7. Good(s)
      BY <1>1, <2>4, AskUnderLock DEF Call
    <2>8. NetInv(s)'
      BY <1>1, <2>4, NetDoubtAsk
    <2> QED
      BY <2>3, <2>7, <2>8 DEF NetKept, Beside, Typed
  <1>5. CASE n.op = "diff"
    <2>2. Netconf!Asks(s, n, "diff")
      BY <1>5 DEF Netconf!Goes
    <2>3. /\ Becomes(s, n.locked, n.dirty, ~n.doubtful, n.op, "diff")
          /\ SentTo(s, "diff") /\ DevBeside(s) /\ DevTyped'
          /\ FlagsBeside(s) /\ FlagsTyped'
      BY <1>1, <2>2, NetAsks DEF Request
    <2>4. AskStep(s, "diff", TRUE, Dirty(s) \/ "diff" = "load", "diff")
      BY <1>5, <2>3 DEF AskStep, Becomes
    <2>7. Good(s)
      BY <1>1, <2>4, AskUnderLock DEF Call
    <2>8. NetInv(s)'
      BY <1>1, <2>4, NetDoubtAsk
    <2> QED
      BY <2>3, <2>7, <2>8 DEF NetKept, Beside, Typed
  <1>6. CASE n.op = "commit"
    <2>2. Netconf!Asks(s, n, "commit")
      BY <1>6 DEF Netconf!Goes
    <2>3. /\ Becomes(s, n.locked, n.dirty, ~n.doubtful, n.op, "commit")
          /\ SentTo(s, "commit") /\ DevBeside(s) /\ DevTyped'
          /\ FlagsBeside(s) /\ FlagsTyped'
      BY <1>1, <2>2, NetAsks DEF Request
    <2>4. AskStep(s, "commit", TRUE, Dirty(s), "commit")
      BY <1>6, <2>3 DEF AskStep, Becomes
    <2>7. Good(s)
      BY <1>1, <2>4, AskCommit DEF Call
    <2>8. NetInv(s)'
      BY <1>1, <2>4, NetDoubtAsk
    <2> QED
      BY <2>3, <2>7, <2>8 DEF NetKept, Beside, Typed
  <1>7. QED
    BY <1>3, <1>4, <1>5, <1>6

\* Before a call, and once an answer is there.
LEMMA NetIdleFacts ==
    ASSUME NEW s \in NetSession, NetReady(s), Op(s) = "none"
    PROVE  /\ Awaits(s) = "none"
           /\ At(s) \notin {"doubted", "gone"} => Clear(s)
           /\ Has(s) => Fit(s)
           /\ Up(s) /\ Has(s) => Holds(s)
           /\ Up(s) /\ Has(s) /\ ~Dirty(s) => s \notin dev.cand
  <1>1. EditInv(s) /\ NetInv(s)
    BY DEF NetReady
  <1>2. Awaits(s) = "none"
    BY <1>1 DEF EditInv, ThreadInv
  <1>3. At(s) \notin {"doubted", "gone"} => Clear(s)
    BY <1>1, <1>2 DEF EditInv, QueueInv, NetInv, Clear, Request
  <1>4. QED
    BY <1>1, <1>2, <1>3 DEF EditInv, LockInv, NetInv

LEMMA AnsweredFacts ==
    ASSUME NEW s \in Session, EditInv(s), Answer(s) # "none"
    PROVE  /\ Up(s) /\ Quiet(s)
           /\ Awaits(s) \in Request => Fit(s)
           /\ Op(s) # "none" => Awaits(s) # "none"
           /\ Awaits(s) = "lock" => ~Has(s)
           /\ Awaits(s) = "lock" /\ Answer(s) = "ok" => Holds(s) /\ s \notin dev.cand
           /\ Awaits(s) \in {"load", "diff", "check", "commit", "rollback", "unlock"} => Has(s)
           /\ Awaits(s) = "history" /\ Op(s) = "confirm" => Has(s)
           /\ Has(s) /\ Awaits(s) # "unlock" => Holds(s)
           /\ Has(s) /\ ~Dirty(s) => s \notin dev.cand
           /\ Awaits(s) \in {"bye", "probe"} => ~Has(s)
           /\ Awaits(s) = "lock" => Op(s) \in {"load", "diff", "commit", "confirm"}
           /\ Awaits(s) = "load" => Op(s) = "load"
           /\ Awaits(s) \in {"diff", "check"} => Op(s) = "diff"
           /\ Awaits(s) = "history" => Op(s) \in {"confirm", "history"}
           /\ Awaits(s) = "commit" => Op(s) \in {"commit", "confirm"}
           /\ Awaits(s) \in {"rollback", "unlock"} => Op(s) \in {"release", "close"}
           /\ Awaits(s) = "bye" => Op(s) = "close"
           /\ Awaits(s) = "probe" => Op(s) = "reuse"
           /\ Op(s) \in {"load", "history"} => At(s) \in {"borrowed", "gone"}
           /\ Op(s) = "reuse" => At(s) \in {"kept", "gone"}
  <1>1. Up(s) /\ Quiet(s)
    BY DEF EditInv, DeviceInv
  <1>2. Awaits(s) \in Request => Fit(s)
    BY <1>1 DEF EditInv, QueueInv
  <1>3. QED
    BY <1>1, <1>2 DEF EditInv, ThreadInv, LockInv, Follows, Request

\* Every field of a started call but the method.
LEMMA NetStarted ==
    ASSUME Typed, NEW s \in NetSession, NEW call \in Call
    PROVE  /\ Netconf!Started(s, call) \in Netconf!Net
           /\ Netconf!Started(s, call).locked <=> Has(s)
           /\ Netconf!Started(s, call).dirty <=> Dirty(s)
           /\ ~Netconf!Started(s, call).doubtful <=> Fit(s)
           /\ Netconf!Started(s, call).op = call
  <1>1. net[s] \in Netconf!Net /\ call \in Netconf!Call
    BY NetEntry DEF Netconf!Call, Call
  <1>2. [net[s] EXCEPT !.op = call] \in Netconf!Net
        /\ [net[s] EXCEPT !.op = call].locked = net[s].locked
        /\ [net[s] EXCEPT !.op = call].dirty = net[s].dirty
        /\ [net[s] EXCEPT !.op = call].doubtful = net[s].doubtful
        /\ [net[s] EXCEPT !.op = call].op = call
    BY <1>1 DEF Netconf!Net
  <1>3. QED
    BY <1>2, NetEntry DEF Netconf!Started

LEMMA NetLockingCall ==
    ASSUME NEW s \in NetSession, NetReady(s), Netconf!LockingCall(s), UNCHANGED <<cli, mux>>
    PROVE  NetKept(s)
  <1>1. PICK call \in {"load", "diff", "commit", "confirm"} :
          /\ Netconf!Begins(s, call)
          /\ Netconf!Locks(s, Netconf!Started(s, call))
          /\ Netconf!Calls(s, call)
    BY DEF Netconf!LockingCall
  <1> DEFINE n == Netconf!Started(s, call)
  <1>2. Typed /\ EditInv(s) /\ NetInv(s) /\ call \in Call
    BY DEF NetReady, Call
  <1>3. Op(s) = "none" /\ May(s, call) /\ Calls(s, call)
    BY <1>1, <1>2, NetEntry, NetconfUses DEF Netconf!Begins
  <1>4. Called(s, call) /\ CallerBeside(s) /\ CallerTyped' /\ At(s) \notin {"doubted", "gone"}
    BY <1>2, <1>3, CallsFields, Beginning, NetEntry
  <1>5. n \in Netconf!Net /\ (n.locked <=> Has(s)) /\ (n.dirty <=> Dirty(s))
        /\ (~n.doubtful <=> Fit(s)) /\ n.op = call
    BY <1>2, NetStarted
  <1> HIDE DEF n
  <1>6. CASE n.locked
    <2>1. Netconf!Goes(s, n)
      BY <1>1, <1>6 DEF Netconf!Locks, n
    <2> QED
      BY <1>2, <1>3, <1>4, <1>5, <1>6, <2>1, NetIdleFacts, NetGoes
  <1>7. CASE ~n.locked
    <2>1. Netconf!Asks(s, n, "lock")
      BY <1>1, <1>7 DEF Netconf!Locks, n
    <2>3. /\ Becomes(s, n.locked, n.dirty, ~n.doubtful, n.op, "lock")
          /\ SentTo(s, "lock") /\ DevBeside(s) /\ DevTyped'
          /\ FlagsBeside(s) /\ FlagsTyped'
      BY <1>2, <1>5, <2>1, NetAsks DEF Request
    <2>4. AskStep(s, "lock", Has(s), Dirty(s), call)
      BY <1>3, <1>4, <1>5, <2>3 DEF AskStep, Becomes
    <2>5. Awaits(s) = "none" /\ Clear(s) /\ ~Has(s)
      BY <1>3, <1>4, <1>5, <1>7, NetIdleFacts
    <2>6. Good(s)
      BY <1>2, <2>4, <2>5, NetIsNotCli, AskLock
    <2>7. NetInv(s)'
      BY <1>2, <2>4, <2>5, NetDoubtAsk
    <2> QED
      BY <1>4, <2>3, <2>6, <2>7 DEF NetKept, Beside, Typed
  <1>8. QED
    BY <1>6, <1>7

LEMMA NetPayloadRefused ==
    ASSUME NEW s \in NetSession, NetReady(s), Netconf!PayloadRefused(s), UNCHANGED <<cli, mux>>
    PROVE  NetKept(s)
  <1>1. Typed /\ EditInv(s) /\ NetInv(s)
    BY DEF NetReady
  <1>2. Op(s) = "none" /\ May(s, "load")
        /\ Netconf!EndsTelling(s, net[s], "spent", caller[s].told)
    BY <1>1, NetEntry, NetconfUses DEF Netconf!PayloadRefused, Netconf!Begins, Netconf!Ends
  <1>3. EndStep(s, net[s].locked, net[s].dirty, ~net[s].doubtful, "spent", caller[s].told) /\ Beside(s)
    BY <1>1, <1>2, NetEntry, NetEnds DEF Stage, Borrowed
  <1>4. EndStep(s, Has(s), Dirty(s), Fit(s), "spent", caller[s].told)
    BY <1>1, <1>3, NetEntry DEF EndStep, Becomes
  <1>5. Awaits(s) = "none" /\ At(s) = "borrowed"
    BY <1>1, <1>2, NetEntry, NetIdleFacts, Beginning DEF Call, NetReady
  <1>6. Good(s)
    BY <1>1, <1>4, <1>5, NetIsNotCli, EndUnasked
  <1>7. NetInv(s)'
    BY <1>1, <1>4, NetDoubtEnd DEF NetInv
  <1>8. QED
    BY <1>3, <1>6, <1>7 DEF NetKept

\* A step that leaves the flags as they are.
LEMMA NetGoesOn ==
    ASSUME NEW s \in NetSession, Typed, NEW r \in Request, Op(s) # "none",
           Netconf!Asks(s, net[s], r), UNCHANGED <<caller, cli, mux>>
    PROVE  AskStep(s, r, Has(s), Dirty(s), Op(s)) /\ Beside(s)
  <1>1. /\ Becomes(s, net[s].locked, net[s].dirty, ~net[s].doubtful, net[s].op, r)
        /\ SentTo(s, r) /\ DevBeside(s) /\ DevTyped'
        /\ FlagsBeside(s) /\ FlagsTyped'
    BY NetEntry, NetAsks
  <1>2. CallerSame(s) /\ CallerBeside(s) /\ CallerTyped'
    BY NetEntry, SameCaller
  <1>3. QED
    BY <1>1, <1>2, NetEntry DEF AskStep, Becomes, Beside, Typed

LEMMA NetStarts ==
    ASSUME NEW s \in NetSession, Typed, NEW r \in Request, NEW call \in Call, Op(s) = "none",
           May(s, call), Netconf!Asks(s, Netconf!Started(s, call), r), Calls(s, call),
           UNCHANGED <<cli, mux>>
    PROVE  AskStep(s, r, Has(s), Dirty(s), call) /\ Beside(s)
  <1> DEFINE n == Netconf!Started(s, call)
  <1>1. n \in Netconf!Net /\ (n.locked <=> Has(s)) /\ (n.dirty <=> Dirty(s))
        /\ (~n.doubtful <=> Fit(s)) /\ n.op = call
    BY NetStarted
  <1> HIDE DEF n
  <1>2. /\ Becomes(s, n.locked, n.dirty, ~n.doubtful, n.op, r)
        /\ SentTo(s, r) /\ DevBeside(s) /\ DevTyped'
        /\ FlagsBeside(s) /\ FlagsTyped'
    BY <1>1, NetAsks DEF n
  <1>3. Called(s, call) /\ CallerBeside(s) /\ CallerTyped'
    BY NetEntry, CallsFields
  <1>4. call # "none"
    BY DEF Call
  <1>5. QED
    BY <1>1, <1>2, <1>3, <1>4 DEF AskStep, Becomes, Beside, Typed

LEMMA NetEndsHere ==
    ASSUME NEW s \in NetSession, Typed, NEW stage \in Stage,
           NEW word \in {"nothing", "committed", "failed", "unknown"},
           Netconf!EndsTelling(s, net[s], stage, word), UNCHANGED <<cli, mux>>
    PROVE  EndStep(s, Has(s), Dirty(s), Fit(s), stage, word) /\ Beside(s)
  <1>1. EndStep(s, net[s].locked, net[s].dirty, ~net[s].doubtful, stage, word) /\ Beside(s)
    BY NetEntry, NetEnds
  <1>2. QED
    BY <1>1, NetEntry DEF EndStep, Becomes

LEMMA NetTears ==
    ASSUME NEW s \in NetSession, NetReady(s), NEW stage \in {"gone", "spent", "doubted"},
           NEW word \in {"nothing", "committed", "failed", "unknown"},
           Netconf!DiscardsTelling(s, net[s], stage, word), UNCHANGED <<cli, mux>>,
           stage = "spent" => Quiet(s),
           word = caller[s].told \/ (word = "unknown" /\ Awaits(s) = "commit")
    PROVE  NetKept(s)
  <1>1. Typed /\ EditInv(s) /\ NetInv(s) /\ s \in Session
    BY NetIsNotCli DEF NetReady
  <1>2. TearStep(s, stage, word) /\ ~Has(s)' /\ Beside(s)
    <2>1. stage \in Stage
      BY DEF Stage, Borrowed
    <2>2. net[s] \in Netconf!Net
      BY <1>1, NetEntry
    <2> QED
      BY <1>1, <2>1, <2>2, NetDiscards
  <1>3. Good(s)
    BY <1>1, <1>2, TearDown
  <1>4. NetInv(s)'
    BY <1>2, NetDoubtTear
  <1>5. QED
    BY <1>2, <1>3, <1>4 DEF NetKept

LEMMA NetCommitHistory ==
    ASSUME NEW s \in NetSession, NetReady(s), Netconf!CommitHistory(s), UNCHANGED <<cli, mux>>
    PROVE  NetKept(s)
  <1>1. Typed /\ EditInv(s) /\ NetInv(s) /\ s \in Session
    BY NetIsNotCli DEF NetReady
  <1>2. Op(s) = "none" /\ May(s, "history") /\ Calls(s, "history")
        /\ Netconf!Asks(s, Netconf!Started(s, "history"), "history")
    BY <1>1, NetEntry, NetconfUses DEF Netconf!CommitHistory, Netconf!Begins
  <1>3. AskStep(s, "history", Has(s), Dirty(s), "history") /\ Beside(s)
    BY <1>1, <1>2, NetStarts DEF Request, Call
  <1>4. Awaits(s) = "none" /\ Clear(s)
    BY <1>1, <1>2, NetEntry, NetIdleFacts, Beginning DEF Call
  <1>5. Good(s)
    BY <1>1, <1>3, <1>4, NetIsNotCli, AskHistory DEF Call
  <1>6. NetInv(s)'
    BY <1>1, <1>3, NetDoubtAsk DEF NetInv
  <1>7. QED
    BY <1>3, <1>5, <1>6 DEF NetKept

LEMMA NetRelease ==
    ASSUME NEW s \in NetSession, NetReady(s), Netconf!Release(s), UNCHANGED <<cli, mux>>
    PROVE  NetKept(s)
  <1>1. Typed /\ EditInv(s) /\ NetInv(s) /\ s \in Session
    BY NetIsNotCli DEF NetReady
  <1>2. PICK call \in {"release", "close"} :
          /\ Netconf!Begins(s, call)
          /\ IF net[s].doubtful
             THEN Netconf!Discards(s, net[s], "gone")
             ELSE IF net[s].locked
             THEN /\ Netconf!Asks(s, Netconf!Started(s, call),
                                  IF net[s].dirty THEN "rollback" ELSE "unlock")
                  /\ Netconf!Calls(s, call)
             ELSE IF call = "close"
             THEN Netconf!Asks(s, Netconf!Started(s, call), "bye") /\ Netconf!Calls(s, call)
             ELSE Netconf!Ends(s, net[s], "kept")
    BY DEF Netconf!Release
  <1>3. Op(s) = "none" /\ May(s, call) /\ call \in Call
    BY <1>1, <1>2, NetEntry, NetconfUses DEF Netconf!Begins, Call
  <1>4. /\ Awaits(s) = "none" /\ (Has(s) => Fit(s))
        /\ call = "release" => At(s) \in Borrowed
        /\ At(s) # "gone"
    BY <1>1, <1>3, NetEntry, NetIdleFacts, Beginning
  <1>5. CASE net[s].doubtful
    <2>1. Netconf!DiscardsTelling(s, net[s], "gone", caller[s].told)
      BY <1>2, <1>5 DEF Netconf!Discards
    <2> QED
      BY <1>1, <2>1, NetEntry, NetTears
  <1>6. CASE ~net[s].doubtful /\ net[s].locked /\ net[s].dirty
    <2>1. Netconf!Asks(s, Netconf!Started(s, call), "rollback") /\ Calls(s, call)
      BY <1>2, <1>6, NetconfUses
    <2>2. AskStep(s, "rollback", Has(s), Dirty(s), call) /\ Beside(s)
      BY <1>1, <1>3, <2>1, NetStarts DEF Request
    <2>3. Good(s)
      BY <1>1, <1>3, <1>6, <2>2, NetEntry, AskRollback
    <2>4. NetInv(s)'
      BY <1>1, <2>2, NetDoubtAsk DEF NetInv
    <2> QED
      BY <2>2, <2>3, <2>4 DEF NetKept
  <1>7. CASE ~net[s].doubtful /\ net[s].locked /\ ~net[s].dirty
    <2>1. Netconf!Asks(s, Netconf!Started(s, call), "unlock") /\ Calls(s, call)
      BY <1>2, <1>7, NetconfUses
    <2>2. AskStep(s, "unlock", Has(s), Dirty(s), call) /\ Beside(s)
      BY <1>1, <1>3, <2>1, NetStarts DEF Request
    <2>3. AskStep(s, "unlock", TRUE, Dirty(s)', call) /\ Has(s) /\ ~Dirty(s) /\ ~Dirty(s)' /\ Fit(s)
      BY <1>1, <1>7, <2>2, NetEntry DEF AskStep, Becomes
    <2>4. Good(s)
      BY <1>1, <1>3, <2>3, NetIsNotCli, AskUnlock
    <2>5. NetInv(s)'
      BY <1>1, <2>2, NetDoubtAsk DEF NetInv
    <2> QED
      BY <2>2, <2>4, <2>5 DEF NetKept
  <1>8. CASE ~net[s].doubtful /\ ~net[s].locked /\ call = "close"
    <2>1. Netconf!Asks(s, Netconf!Started(s, "close"), "bye") /\ Calls(s, "close")
      BY <1>2, <1>8, NetconfUses
    <2>2. AskStep(s, "bye", Has(s), Dirty(s), "close") /\ Beside(s)
      BY <1>1, <1>3, <1>8, <2>1, NetStarts DEF Request
    <2>3. AskStep(s, "bye", FALSE, Dirty(s)', "close") /\ (Dirty(s)' => Dirty(s)) /\ ~Has(s) /\ Fit(s)
      BY <1>1, <1>8, <2>2, NetEntry DEF AskStep, Becomes
    <2>4. Good(s)
      BY <1>1, <1>3, <1>8, <2>3, NetIsNotCli, AskBye
    <2>5. NetInv(s)'
      BY <1>1, <2>2, NetDoubtAsk DEF NetInv
    <2> QED
      BY <2>2, <2>4, <2>5 DEF NetKept
  <1>9. CASE ~net[s].doubtful /\ ~net[s].locked /\ call # "close"
    <2>1. Netconf!EndsTelling(s, net[s], "kept", caller[s].told)
      BY <1>2, <1>9 DEF Netconf!Ends
    <2>2. EndStep(s, Has(s), Dirty(s), Fit(s), "kept", caller[s].told) /\ Beside(s)
      BY <1>1, <2>1, NetEntry, NetEndsHere DEF Stage
    <2>3. At(s) \in Borrowed /\ Fit(s) /\ ~Has(s)
      BY <1>1, <1>4, <1>9, NetEntry
    <2>4. Good(s)
      BY <1>1, <1>4, <2>2, <2>3, NetIsNotCli, EndUnasked DEF Borrowed
    <2>5. NetInv(s)'
      BY <1>1, <2>2, NetDoubtEnd DEF NetInv
    <2> QED
      BY <2>2, <2>4, <2>5 DEF NetKept
  <1>10. QED
    BY <1>5, <1>6, <1>7, <1>8, <1>9

LEMMA NetReuse ==
    ASSUME NEW s \in NetSession, NetReady(s), Netconf!Reuse(s), UNCHANGED <<cli, mux>>
    PROVE  NetKept(s)
  <1>1. Typed /\ EditInv(s) /\ NetInv(s) /\ s \in Session
    BY NetIsNotCli DEF NetReady
  <1>2. Op(s) = "none" /\ May(s, "reuse") /\ "reuse" \in Call /\ "probe" \in Request
    BY <1>1, NetEntry, NetconfUses DEF Netconf!Reuse, Netconf!Begins, Call, Request
  <1>3. At(s) = "kept"
    BY <1>1, <1>2, NetEntry, Beginning
  <1>4. CASE Netconf!Discards(s, net[s], "gone")
    <2>1. Netconf!DiscardsTelling(s, net[s], "gone", caller[s].told)
      BY <1>4 DEF Netconf!Discards
    <2> QED
      BY <1>1, <2>1, NetEntry, NetTears
  <1>5. CASE Netconf!Vouches(s)
    <2>1. VouchStep(s) /\ Beside(s)
      BY <1>1, <1>5, NetVouches
    <2>2. Good(s)
      BY <1>1, <1>2, <1>3, <2>1, Vouch
    <2>3. NetInv(s)'
      BY <1>1, <2>1 DEF VouchStep, Becomes, Renewed, NetInv, Up, At
    <2> QED
      BY <2>1, <2>2, <2>3 DEF NetKept
  <1>6. CASE ~net[s].doubtful /\ Netconf!Asks(s, Netconf!Started(s, "reuse"), "probe")
             /\ Netconf!Calls(s, "reuse")
    <2>1. AskStep(s, "probe", Has(s), Dirty(s), "reuse") /\ Beside(s)
      BY <1>1, <1>2, <1>6, NetconfUses, NetStarts
    <2>2. Good(s)
      BY <1>1, <1>2, <1>6, <2>1, NetEntry, AskProbe
    <2>3. NetInv(s)'
      BY <1>1, <2>1, NetDoubtAsk DEF NetInv
    <2> QED
      BY <2>1, <2>2, <2>3 DEF NetKept
  <1>7. QED
    BY <1>4, <1>5, <1>6 DEF Netconf!Reuse

LEMMA NetLockAnswered ==
    ASSUME NEW s \in NetSession, NetReady(s), Netconf!LockAnswered(s), UNCHANGED <<cli, mux>>
    PROVE  NetKept(s)
  <1>1. Typed /\ EditInv(s) /\ NetInv(s) /\ s \in Session
    BY NetIsNotCli DEF NetReady
  <1>2. Awaits(s) = "lock" /\ Answer(s) # "none"
    BY <1>1, NetEntry DEF Netconf!LockAnswered, Netconf!Answered, Answer
  <1>3. /\ Up(s) /\ Quiet(s) /\ Fit(s) /\ ~Has(s)
        /\ Op(s) \in {"load", "diff", "commit", "confirm"}
        /\ Answer(s) = "ok" => Holds(s) /\ s \notin dev.cand
    BY <1>1, <1>2, AnsweredFacts DEF Request
  <1>4. CASE Answer(s) = "ok" /\ Netconf!Goes(s, [net[s] EXCEPT !.locked = TRUE]) /\ UNCHANGED caller
    <2> DEFINE n == [net[s] EXCEPT !.locked = TRUE]
    <2>1. net[s] \in Netconf!Net
      BY <1>1, NetEntry
    <2>2. n \in Netconf!Net /\ n.locked /\ n.dirty = net[s].dirty
          /\ n.doubtful = net[s].doubtful /\ n.op = net[s].op
      BY <2>1 DEF Netconf!Net
    <2>3. Netconf!Goes(s, n)
      BY <1>4
    <2> HIDE DEF n
    <2>4. (~n.doubtful <=> Fit(s)) /\ (n.dirty <=> Dirty(s)) /\ n.op = Op(s)
      BY <1>1, <2>2, NetEntry
    <2>5. CallerSame(s) /\ CallerBeside(s) /\ CallerTyped'
      BY <1>1, <1>4, NetEntry, SameCaller
    <2>6. Clear(s) /\ At(s) # "gone"
      BY <1>1, <1>3 DEF Clear, NetInv
    <2>7. n.op \in {"load", "diff", "commit", "confirm"} /\ Op(s) = n.op /\ Awaits(s) \in {"none", "lock"}
          /\ (Up(s) => Holds(s) /\ (Dirty(s) \/ s \notin dev.cand) /\ At(s) # "gone")
      BY <1>2, <1>3, <1>4, <2>4, <2>6
    <2> QED
      BY <1>3, <2>2, <2>3, <2>4, <2>5, <2>6, <2>7, NetGoes
  <1>5. CASE Answer(s) # "ok" /\ Netconf!Ends(s, net[s], "spent")
    <2>1. Netconf!EndsTelling(s, net[s], "spent", caller[s].told)
      BY <1>5 DEF Netconf!Ends
    <2>2. EndStep(s, Has(s), Dirty(s), Fit(s), "spent", caller[s].told) /\ Beside(s)
      BY <1>1, <2>1, NetEntry, NetEndsHere DEF Stage, Borrowed
    <2>3. Good(s)
      BY <1>1, <1>2, <1>5, <2>2, EndAnswered
    <2>4. NetInv(s)'
      BY <1>1, <2>2, NetDoubtEnd DEF NetInv
    <2> QED
      BY <2>2, <2>3, <2>4 DEF NetKept
  <1>6. CASE Netconf!Discards(s, net[s], "spent")
    <2>1. Netconf!DiscardsTelling(s, net[s], "spent", caller[s].told)
      BY <1>6 DEF Netconf!Discards
    <2> QED
      BY <1>1, <1>3, <2>1, NetEntry, NetTears
  <1>7. QED
    BY <1>4, <1>5, <1>6 DEF Netconf!LockAnswered, Netconf!Ok, Answer

\* The step ends with an answer.
LEMMA NetStepEnds ==
    ASSUME NEW s \in NetSession, NetReady(s),
           NEW stage \in {"loaded", "changed", "asked", "spent"},
           Netconf!Ends(s, net[s], stage), UNCHANGED <<cli, mux>>,
           Awaits(s) \in {"load", "diff", "check", "history"}, Answer(s) # "none",
           stage # "spent" => Op(s) \in {"load", "diff", "history"}
    PROVE  NetKept(s)
  <1>1. Typed /\ EditInv(s) /\ NetInv(s) /\ s \in Session
    BY NetIsNotCli DEF NetReady
  <1>2. Netconf!EndsTelling(s, net[s], stage, caller[s].told)
    BY DEF Netconf!Ends
  <1>3. stage \in Stage
    BY DEF Stage, Borrowed
  <1>4. EndStep(s, Has(s), Dirty(s), Fit(s), stage, caller[s].told) /\ Beside(s)
    BY <1>1, <1>2, <1>3, NetEntry, NetEndsHere
  <1>5. Good(s)
    BY <1>1, <1>4, EndAnswered
  <1>6. NetInv(s)'
    BY <1>1, <1>4, NetDoubtEnd DEF NetInv
  <1>7. QED
    BY <1>4, <1>5, <1>6 DEF NetKept

LEMMA NetLoadAnswered ==
    ASSUME NEW s \in NetSession, NetReady(s), UNCHANGED <<cli, mux>>,
           Netconf!LoadAnswered(s) \/ Netconf!CheckAnswered(s)
    PROVE  NetKept(s)
  <1>1. Typed /\ EditInv(s) /\ NetInv(s) /\ s \in Session
    BY NetIsNotCli DEF NetReady
  <1>2. CASE Netconf!LoadAnswered(s)
    <2>1. Awaits(s) = "load" /\ Answer(s) # "none" /\ Op(s) = "load"
      BY <1>1, <1>2, NetEntry, AnsweredFacts DEF Netconf!LoadAnswered, Netconf!Answered, Answer
    <2>2. PICK stage \in {"loaded", "spent"} : Netconf!Ends(s, net[s], stage)
      BY <1>2 DEF Netconf!LoadAnswered
    <2> QED
      BY <2>1, <2>2, NetStepEnds
  <1>3. CASE Netconf!CheckAnswered(s)
    <2>1. Awaits(s) = "check" /\ Answer(s) # "none" /\ Op(s) = "diff"
      BY <1>1, <1>3, NetEntry, AnsweredFacts DEF Netconf!CheckAnswered, Netconf!Answered, Answer
    <2>2. PICK stage \in {"changed", "spent"} : Netconf!Ends(s, net[s], stage)
      BY <1>3 DEF Netconf!CheckAnswered
    <2> QED
      BY <2>1, <2>2, NetStepEnds
  <1>4. QED
    BY <1>2, <1>3

LEMMA NetDiffAnswered ==
    ASSUME NEW s \in NetSession, NetReady(s), Netconf!DiffAnswered(s), UNCHANGED <<cli, mux>>
    PROVE  NetKept(s)
  <1>1. Typed /\ EditInv(s) /\ NetInv(s) /\ s \in Session
    BY NetIsNotCli DEF NetReady
  <1>2. Awaits(s) = "diff" /\ Answer(s) # "none"
    BY <1>1, NetEntry DEF Netconf!DiffAnswered, Netconf!Answered, Answer
  <1>3. /\ Up(s) /\ Quiet(s) /\ Fit(s) /\ Has(s) /\ Holds(s) /\ Op(s) = "diff"
        /\ ~Dirty(s) => s \notin dev.cand
    BY <1>1, <1>2, AnsweredFacts DEF Request
  <1>4. CASE Netconf!Asks(s, net[s], "check") /\ UNCHANGED caller
    <2>1. AskStep(s, "check", Has(s), Dirty(s), Op(s)) /\ Beside(s)
      BY <1>1, <1>3, <1>4, NetGoesOn DEF Request
    <2>2. AskStep(s, "check", TRUE, Dirty(s) \/ "check" = "load", "diff")
      BY <1>3, <2>1 DEF AskStep, Becomes
    <2>3. Good(s)
      BY <1>1, <1>2, <1>3, <2>2, AskUnderLock DEF Call, Clear
    <2>4. NetInv(s)'
      BY <1>1, <2>1, NetDoubtAsk DEF NetInv
    <2> QED
      BY <2>1, <2>3, <2>4 DEF NetKept
  <1>5. CASE Netconf!Ends(s, net[s], "spent")
    BY <1>1, <1>2, <1>5, NetStepEnds
  <1>6. QED
    BY <1>4, <1>5 DEF Netconf!DiffAnswered

LEMMA NetHistoryAnswered ==
    ASSUME NEW s \in NetSession, NetReady(s), Netconf!HistoryAnswered(s), UNCHANGED <<cli, mux>>
    PROVE  NetKept(s)
  <1>1. Typed /\ EditInv(s) /\ NetInv(s) /\ s \in Session
    BY NetIsNotCli DEF NetReady
  <1>2. Awaits(s) = "history" /\ Answer(s) # "none"
    BY <1>1, NetEntry DEF Netconf!HistoryAnswered, Netconf!Answered, Answer
  <1>3. /\ Up(s) /\ Quiet(s) /\ Fit(s) /\ Op(s) \in {"confirm", "history"}
        /\ Op(s) = "confirm" => Has(s) /\ Holds(s) /\ (~Dirty(s) => s \notin dev.cand)
    BY <1>1, <1>2, AnsweredFacts DEF Request
  <1>4. CASE Answer(s) = "ok" /\ Op(s) = "confirm" /\ Netconf!Asks(s, net[s], "commit") /\ UNCHANGED caller
    <2>1. AskStep(s, "commit", Has(s), Dirty(s), Op(s)) /\ Beside(s)
      BY <1>1, <1>3, <1>4, NetGoesOn DEF Request
    <2>2. AskStep(s, "commit", TRUE, Dirty(s), "confirm")
      BY <1>3, <1>4, <2>1 DEF AskStep, Becomes
    <2>3. Clear(s) /\ At(s) # "gone"
      BY <1>1, <1>3 DEF Clear, NetInv
    <2>4. Good(s)
      BY <1>1, <1>2, <1>3, <1>4, <2>2, <2>3, AskCommit DEF Call
    <2>5. NetInv(s)'
      BY <1>1, <2>1, NetDoubtAsk DEF NetInv
    <2> QED
      BY <2>1, <2>4, <2>5 DEF NetKept
  <1>5. CASE ~(Answer(s) = "ok" /\ Op(s) = "confirm")
    <2>1. PICK stage \in {"asked", "spent"} :
            Netconf!Ends(s, net[s], stage) /\ (stage # "spent" => Answer(s) = "ok")
      BY <1>1, <1>5, NetEntry DEF Netconf!HistoryAnswered, Netconf!Ok, Answer
    <2> QED
      BY <1>2, <1>3, <1>5, <2>1, NetStepEnds
  <1>6. QED
    BY <1>1, <1>4, <1>5, NetEntry DEF Netconf!HistoryAnswered, Netconf!Ok, Answer

LEMMA NetCommitAnswered ==
    ASSUME NEW s \in NetSession, NetReady(s), Netconf!CommitAnswered(s), UNCHANGED <<cli, mux>>
    PROVE  NetKept(s)
  <1>1. Typed /\ EditInv(s) /\ NetInv(s) /\ s \in Session
    BY NetIsNotCli DEF NetReady
  <1>2. Awaits(s) = "commit" /\ Answer(s) # "none" /\ Fit(s)
    BY <1>1, NetEntry, AnsweredFacts DEF Netconf!CommitAnswered, Netconf!Answered, Answer, Request
  <1>3. CASE Answer(s) = "ok"
             /\ Netconf!EndsTelling(s, [net[s] EXCEPT !.dirty = FALSE], "spent", "committed")
    <2> DEFINE n == [net[s] EXCEPT !.dirty = FALSE]
    <2>1. net[s] \in Netconf!Net
      BY <1>1, NetEntry
    <2>2. n \in Netconf!Net /\ n.locked = net[s].locked /\ n.dirty = FALSE
          /\ n.doubtful = net[s].doubtful
      BY <2>1 DEF Netconf!Net
    <2>3. Netconf!EndsTelling(s, n, "spent", "committed")
      BY <1>3
    <2> HIDE DEF n
    <2>4. EndStep(s, n.locked, n.dirty, ~n.doubtful, "spent", "committed") /\ Beside(s)
      BY <1>1, <2>2, <2>3, NetEnds DEF Stage, Borrowed
    <2>5. EndStep(s, Has(s), Dirty(s) /\ Answer(s) # "ok", Fit(s), "spent", "committed")
      BY <1>1, <1>3, <2>2, <2>4, NetEntry DEF EndStep, Becomes
    <2>6. Good(s)
      BY <1>1, <1>2, <1>3, <2>5, EndCommit
    <2>7. NetInv(s)'
      BY <1>1, <1>2, <2>5, NetDoubtEnd
    <2> QED
      BY <2>4, <2>6, <2>7 DEF NetKept
  <1>4. CASE Answer(s) # "ok" /\ Netconf!EndsTelling(s, net[s], "spent", "failed")
    <2>1. EndStep(s, Has(s), Dirty(s), Fit(s), "spent", "failed") /\ Beside(s)
      BY <1>1, <1>4, NetEndsHere DEF Stage, Borrowed
    <2>2. EndStep(s, Has(s), Dirty(s) /\ Answer(s) # "ok", Fit(s), "spent", "failed")
      BY <1>4, <2>1 DEF EndStep, Becomes
    <2>3. Good(s)
      BY <1>1, <1>2, <1>4, <2>2, EndCommit
    <2>4. NetInv(s)'
      BY <1>1, <2>1, NetDoubtEnd DEF NetInv
    <2> QED
      BY <2>1, <2>3, <2>4 DEF NetKept
  <1>5. QED
    BY <1>3, <1>4 DEF Netconf!CommitAnswered, Netconf!Ok, Answer

LEMMA NetRollbackAnswered ==
    ASSUME NEW s \in NetSession, NetReady(s), Netconf!RollbackAnswered(s), UNCHANGED <<cli, mux>>
    PROVE  NetKept(s)
  <1>1. Typed /\ EditInv(s) /\ NetInv(s) /\ s \in Session
    BY NetIsNotCli DEF NetReady
  <1>2. Awaits(s) = "rollback" /\ Answer(s) # "none"
    BY <1>1, NetEntry DEF Netconf!RollbackAnswered, Netconf!Answered, Answer
  <1>3. Fit(s) /\ Has(s) /\ Op(s) \in {"release", "close"}
    BY <1>1, <1>2, AnsweredFacts DEF Request
  <1>4. CASE Answer(s) = "ok" /\ Netconf!Asks(s, net[s], "unlock") /\ UNCHANGED caller
    <2>1. AskStep(s, "unlock", Has(s), Dirty(s), Op(s)) /\ Beside(s)
      BY <1>1, <1>3, <1>4, NetGoesOn DEF Request
    <2>2. AskStep(s, "unlock", TRUE, Dirty(s)', Op(s)) /\ (Dirty(s)' => Dirty(s))
      BY <1>3, <2>1 DEF AskStep, Becomes
    <2>3. Good(s)
      <3>1. Op(s) \in Call
        BY <1>3 DEF Call
      <3> QED
        BY <1>1, <1>2, <1>3, <1>4, <2>2, <3>1, AskUnlock
    <2>4. NetInv(s)'
      BY <1>1, <2>1, NetDoubtAsk DEF NetInv
    <2> QED
      BY <2>1, <2>3, <2>4 DEF NetKept
  <1>5. CASE Netconf!Discards(s, net[s], "gone")
    <2>1. Netconf!DiscardsTelling(s, net[s], "gone", caller[s].told)
      BY <1>5 DEF Netconf!Discards
    <2> QED
      BY <1>1, <2>1, NetEntry, NetTears
  <1>6. QED
    BY <1>4, <1>5 DEF Netconf!RollbackAnswered, Netconf!Ok, Answer

\* What release() leaves of the flags.
LEMMA NetCleaned ==
    ASSUME NEW s \in NetSession, Typed
    PROVE  /\ Netconf!Cleaned(net[s]) \in Netconf!Net
           /\ ~Netconf!Cleaned(net[s]).locked /\ ~Netconf!Cleaned(net[s]).dirty
           /\ Netconf!Cleaned(net[s]).doubtful = net[s].doubtful
           /\ Netconf!Cleaned(net[s]).op = net[s].op
  <1>1. net[s] \in Netconf!Net
    BY NetEntry
  <1>2. QED
    BY <1>1 DEF Netconf!Cleaned, Netconf!Net

LEMMA NetUnlockAnswered ==
    ASSUME NEW s \in NetSession, NetReady(s), Netconf!UnlockAnswered(s), UNCHANGED <<cli, mux>>
    PROVE  NetKept(s)
  <1>1. Typed /\ EditInv(s) /\ NetInv(s) /\ s \in Session
    BY NetIsNotCli DEF NetReady
  <1>2. Awaits(s) = "unlock" /\ Answer(s) # "none"
    BY <1>1, NetEntry DEF Netconf!UnlockAnswered, Netconf!Answered, Answer
  <1>3. Fit(s) /\ Has(s) /\ Op(s) \in {"release", "close"}
    BY <1>1, <1>2, AnsweredFacts DEF Request
  <1> DEFINE n == Netconf!Cleaned(net[s])
  <1>4. n \in Netconf!Net /\ ~n.locked /\ ~n.dirty /\ n.doubtful = net[s].doubtful /\ n.op = Op(s)
    BY <1>1, NetCleaned, NetEntry
  <1>5. CASE Netconf!Discards(s, net[s], "gone")
    <2>1. Netconf!DiscardsTelling(s, net[s], "gone", caller[s].told)
      BY <1>5 DEF Netconf!Discards
    <2> QED
      BY <1>1, <2>1, NetEntry, NetTears
  <1>6. CASE Answer(s) = "ok" /\ Op(s) = "close" /\ Netconf!Asks(s, n, "bye") /\ UNCHANGED caller
    <2> HIDE DEF n
    <2>1. /\ Becomes(s, n.locked, n.dirty, ~n.doubtful, n.op, "bye")
          /\ SentTo(s, "bye") /\ DevBeside(s) /\ DevTyped'
          /\ FlagsBeside(s) /\ FlagsTyped'
      BY <1>1, <1>4, <1>6, NetAsks DEF Request
    <2>2. CallerSame(s) /\ CallerBeside(s) /\ CallerTyped'
      BY <1>1, <1>6, NetEntry, SameCaller
    <2>3. AskStep(s, "bye", FALSE, Dirty(s)', "close") /\ (Dirty(s)' => Dirty(s))
      BY <1>1, <1>4, <1>6, <2>1, <2>2, NetEntry DEF AskStep, Becomes
    <2>4. Good(s)
      BY <1>1, <1>2, <1>3, <1>6, <2>3, NetIsNotCli, AskBye DEF Call
    <2>5. NetInv(s)'
      BY <1>1, <2>3, NetDoubtAsk DEF NetInv
    <2> QED
      BY <2>1, <2>2, <2>4, <2>5 DEF NetKept, Beside, Typed
  <1>7. CASE Answer(s) = "ok" /\ Op(s) # "close" /\ Netconf!Ends(s, n, "kept")
    <2> HIDE DEF n
    <2>1. Netconf!EndsTelling(s, n, "kept", caller[s].told)
      BY <1>7 DEF Netconf!Ends
    <2>2. EndStep(s, n.locked, n.dirty, ~n.doubtful, "kept", caller[s].told) /\ Beside(s)
      BY <1>1, <1>4, <2>1, NetEntry, NetEnds DEF Stage
    <2>3. EndStep(s, FALSE, Dirty(s)', Fit(s), "kept", caller[s].told) /\ (Dirty(s)' => Dirty(s))
      BY <1>1, <1>4, <2>2, NetEntry DEF EndStep, Becomes
    <2>4. Good(s)
      BY <1>1, <1>2, <1>3, <1>7, <2>3, EndCleaned
    <2>5. NetInv(s)'
      BY <1>1, <1>3, <2>3 DEF NetInv, EndStep, Becomes, Returned, CallerSame, ReadFrom, Up, At
    <2> QED
      BY <2>2, <2>4, <2>5 DEF NetKept
  <1>8. QED
    BY <1>1, <1>5, <1>6, <1>7, NetEntry DEF Netconf!UnlockAnswered, Netconf!Ok, Answer

LEMMA NetByeAnswered ==
    ASSUME NEW s \in NetSession, NetReady(s), Netconf!ByeAnswered(s), UNCHANGED <<cli, mux>>
    PROVE  NetKept(s)
  <1>1. Typed
    BY DEF NetReady
  <1>2. Netconf!DiscardsTelling(s, net[s], "gone", caller[s].told)
    BY DEF Netconf!ByeAnswered, Netconf!Discards
  <1>3. QED
    BY <1>1, <1>2, NetEntry, NetTears

LEMMA NetProbeAnswered ==
    ASSUME NEW s \in NetSession, NetReady(s), Netconf!ProbeAnswered(s), UNCHANGED <<cli, mux>>
    PROVE  NetKept(s)
  <1>1. Typed /\ EditInv(s) /\ NetInv(s) /\ s \in Session
    BY NetIsNotCli DEF NetReady
  <1>2. Awaits(s) = "probe" /\ Answer(s) # "none"
    BY <1>1, NetEntry DEF Netconf!ProbeAnswered, Netconf!Answered, Answer
  <1>3. Up(s) /\ At(s) = "kept"
    BY <1>1, <1>2, AnsweredFacts DEF NetInv, EditInv, ThreadInv, Follows
  <1>4. Netconf!Vouches(s)
    BY <1>3 DEF Netconf!ProbeAnswered, At
  <1>5. VouchStep(s) /\ Beside(s)
    BY <1>1, <1>4, NetVouches
  <1>6. Good(s)
    BY <1>1, <1>2, <1>3, <1>5, Vouch
  <1>7. NetInv(s)'
    BY <1>1, <1>5 DEF VouchStep, Becomes, Renewed, NetInv, Up, At
  <1>8. QED
    BY <1>5, <1>6, <1>7 DEF NetKept

LEMMA NetUnanswered ==
    ASSUME NEW s \in NetSession, NetReady(s), UNCHANGED <<cli, mux>>,
           \/ Netconf!LockUnanswered(s) \/ Netconf!CleanupUnanswered(s)
           \/ Netconf!StepUnanswered(s) \/ Netconf!CommitUnanswered(s)
    PROVE  NetKept(s)
  <1>1. Typed /\ EditInv(s) /\ NetInv(s) /\ s \in Session
    BY NetIsNotCli DEF NetReady
  <1>2. CASE Netconf!LockUnanswered(s)
    <2>1. Netconf!DiscardsTelling(s, net[s], "doubted", caller[s].told)
      BY <1>2 DEF Netconf!LockUnanswered, Netconf!Discards
    <2> QED
      BY <1>1, <2>1, NetEntry, NetTears
  <1>3. CASE Netconf!CleanupUnanswered(s)
    <2>1. Netconf!DiscardsTelling(s, net[s], "gone", caller[s].told)
      BY <1>3 DEF Netconf!CleanupUnanswered, Netconf!Discards
    <2> QED
      BY <1>1, <2>1, NetEntry, NetTears
  <1>4. CASE Netconf!StepUnanswered(s)
    <2>1. Netconf!EndsTelling(s, net[s], "doubted", caller[s].told)
          /\ Awaits(s) \in {"load", "diff", "check", "history"}
      BY <1>1, <1>4, NetEntry DEF Netconf!StepUnanswered, Netconf!Ends
    <2>2. EndStep(s, Has(s), Dirty(s), Fit(s), "doubted", caller[s].told) /\ Beside(s)
      BY <1>1, <2>1, NetEntry, NetEndsHere DEF Stage
    <2>3. EndStep(s, Has(s), Dirty(s), Fit(s)', "doubted", caller[s].told) /\ (Fit(s)' => Fit(s))
      BY <2>2 DEF EndStep, Becomes
    <2>4. Good(s)
      BY <1>1, <2>1, <2>3, NetEntry, EndLost
    <2>5. NetInv(s)'
      BY <1>1, <2>2, NetDoubtEnd DEF NetInv
    <2> QED
      BY <2>2, <2>4, <2>5 DEF NetKept
  <1>5. CASE Netconf!CommitUnanswered(s)
    <2>1. Netconf!DiscardsTelling(s, net[s], "doubted", "unknown") /\ Awaits(s) = "commit"
      BY <1>1, <1>5, NetEntry DEF Netconf!CommitUnanswered
    <2> QED
      BY <1>1, <2>1, NetTears
  <1>6. QED
    BY <1>2, <1>3, <1>4, <1>5

LEMMA NetDiscard ==
    ASSUME NEW s \in NetSession, NetReady(s), Netconf!Discard(s), UNCHANGED <<cli, mux>>
    PROVE  NetKept(s)
  <1>1. Typed /\ EditInv(s) /\ NetInv(s) /\ s \in Session
    BY NetIsNotCli DEF NetReady
  <1> DEFINE n == Netconf!Discarded(net[s])
  <1>2. net[s] \in Netconf!Net
    BY <1>1, NetEntry
  <1>3. n \in Netconf!Net /\ ~n.locked /\ ~n.dirty /\ n.doubtful /\ n.op = net[s].op
        /\ n.awaits = net[s].awaits
    BY <1>2 DEF Netconf!Discarded, Netconf!Net
  <1>4. Netconf!Sets(s, n) /\ Cut(s) /\ Abandons(s)
    BY NetconfUses DEF Netconf!Discard
  <1> HIDE DEF n
  <1>5. Becomes(s, n.locked, n.dirty, ~n.doubtful, n.op, n.awaits) /\ FlagsBeside(s) /\ FlagsTyped'
    BY <1>1, <1>3, <1>4, NetEntry, NetSet
  <1>6. CutOff(s) /\ DevBeside(s) /\ DevTyped'
    BY <1>1, <1>4, NetEntry, CutFields
  <1>7. Abandoned(s) /\ CallerBeside(s) /\ CallerTyped'
    BY <1>1, <1>4, NetEntry, AbandonFields
  <1>8. DropStep(s) /\ ~Has(s)' /\ ~Fit(s)'
    BY <1>1, <1>3, <1>5, <1>6, <1>7, NetEntry DEF DropStep, Becomes
  <1>9. Good(s)
    BY <1>1, <1>8, Drop
  <1>10. NetInv(s)'
    BY <1>6, <1>8 DEF NetInv, CutOff, Up
  <1>11. QED
    BY <1>5, <1>6, <1>7, <1>9, <1>10 DEF NetKept, Beside, Typed

\* Every step of a NETCONF session keeps what the session has to keep.
LEMMA NetStep ==
    ASSUME NEW s \in NetSession, NetReady(s), UNCHANGED <<cli, mux>>,
           Netconf!NetThread(s) \/ Netconf!NetCall(s) \/ Netconf!Discard(s)
    PROVE  NetKept(s)
  <1>1. CASE Netconf!NetThread(s)
    BY <1>1, NetLockAnswered, NetLoadAnswered, NetDiffAnswered, NetHistoryAnswered,
       NetCommitAnswered, NetRollbackAnswered, NetUnlockAnswered, NetByeAnswered,
       NetProbeAnswered, NetUnanswered DEF Netconf!NetThread
  <1>2. CASE Netconf!NetCall(s)
    BY <1>2, NetLockingCall, NetPayloadRefused, NetCommitHistory, NetRelease, NetReuse
       DEF Netconf!NetCall
  <1>3. QED
    BY <1>1, <1>2, NetDiscard

-----------------------------------------------------------------------------
(* The steps of a session at a prompt                                      *)

\* Of the ssh processes, only those of s may change with its engine.
MuxBeside(s) == MuxTyped' /\ \A q \in MuxSession \ {s} : mux'[q] = mux[q]

CliReady(s) == Typed /\ EditInv(s) /\ CliInv(s)
CliKept(s) == Good(s) /\ CliInv(s)' /\ Beside(s)

\* What a step of the engine's thread does not do: it opens no shell, brings no
\* transport back, and ends a borrow only with the transport.
Moves(s) ==
    /\ Awaits(s)' \in Request \cup {"none"}
    /\ Up(s)' => Up(s)
    /\ At(s) = "gone" => At(s)' = "gone"
    /\ At(s)' = "gone" => At(s) = "gone" \/ ~Up(s)'
    /\ dev'.fate[s] = "sent" => dev.fate[s] = "sent" \/ Up(s)'
CliMoved(s) == CliKept(s) /\ Moves(s)

LEMMA CliEntry ==
    ASSUME Typed, NEW s \in CliSession
    PROVE  /\ s \in Session /\ s \notin NetSession
           /\ DevTyped /\ CallerTyped /\ FlagsTyped
           /\ caller[s].told \in {"nothing", "committed", "failed", "unknown"} /\ At(s) \in Stage
           /\ cli[s] \in Cli!Engine
           /\ (Has(s) <=> cli[s].configured) /\ (Dirty(s) <=> cli[s].dirty)
           /\ (Fit(s) <=> cli[s].ready)
           /\ Op(s) = cli[s].op /\ Awaits(s) = cli[s].awaits
  <1>1. DevTyped /\ CallerTyped /\ FlagsTyped
    BY DEF Typed
  <1>2. QED
    BY <1>1, CliFields, CliIsNotNet, CallerFields

LEMMA CliAsks ==
    ASSUME Typed, NEW s \in CliSession, NEW e \in Cli!Engine, NEW r \in Request,
           Cli!Types(s, e, r), UNCHANGED net, MuxBeside(s)
    PROVE  /\ Becomes(s, e.configured, e.dirty, e.ready, e.op, r)
           /\ SentTo(s, r) /\ DevBeside(s) /\ DevTyped'
           /\ FlagsBeside(s) /\ FlagsTyped'
  <1> DEFINE m == [e EXCEPT !.awaits = r]
  <1>1. m \in Cli!Engine /\ m.configured = e.configured /\ m.dirty = e.dirty
        /\ m.ready = e.ready /\ m.op = e.op /\ m.awaits = r
    BY DEF Cli!Engine, Cli!Request, Request
  <1>2. Cli!Sets(s, m) /\ Put(s, r)
    BY CliUses DEF Cli!Types
  <1> HIDE DEF m
  <1>3. FlagsTyped /\ DevTyped
    BY DEF Typed
  <1>4. Becomes(s, m.configured, m.dirty, m.ready, m.op, m.awaits) /\ FlagsBeside(s) /\ FlagsTyped'
    BY <1>1, <1>2, <1>3, CliSet DEF MuxBeside
  <1>5. SentTo(s, r) /\ DevBeside(s) /\ DevTyped'
    BY <1>2, <1>3, CliEntry, PutFields
  <1>6. QED
    BY <1>1, <1>4, <1>5

LEMMA CliIdle ==
    ASSUME NEW e \in Cli!Engine
    PROVE  /\ Cli!Idle(e) \in Cli!Engine
           /\ Cli!Idle(e).configured = e.configured /\ Cli!Idle(e).dirty = e.dirty
           /\ Cli!Idle(e).ready = e.ready /\ Cli!Idle(e).op = "none" /\ Cli!Idle(e).awaits = "none"
  <1>1. 0 \in 0..Lines
    OBVIOUS
  <1>2. QED
    BY <1>1 DEF Cli!Engine, Cli!Idle

LEMMA CliEnds ==
    ASSUME Typed, NEW s \in CliSession, NEW e \in Cli!Engine, NEW stage \in Stage,
           NEW word \in {"nothing", "committed", "failed", "unknown"},
           Cli!EndsTelling(s, e, stage, word), UNCHANGED net, MuxBeside(s)
    PROVE  EndStep(s, e.configured, e.dirty, e.ready, stage, word) /\ Beside(s)
  <1> DEFINE m == Cli!Idle(e)
  <1>1. m \in Cli!Engine /\ m.configured = e.configured /\ m.dirty = e.dirty
        /\ m.ready = e.ready /\ m.op = "none" /\ m.awaits = "none"
    BY CliIdle
  <1>2. Cli!Sets(s, m) /\ Read(s) /\ ReturnsTelling(s, stage, word)
    BY CliUses DEF Cli!EndsTelling
  <1> HIDE DEF m
  <1>3. FlagsTyped /\ DevTyped /\ CallerTyped /\ s \in Session
    BY CliEntry
  <1>4. Becomes(s, m.configured, m.dirty, m.ready, m.op, m.awaits) /\ FlagsBeside(s) /\ FlagsTyped'
    BY <1>1, <1>2, <1>3, CliSet DEF MuxBeside
  <1>5. ReadFrom(s) /\ DevBeside(s) /\ DevTyped'
    BY <1>2, <1>3, ReadFields
  <1>6. Returned(s, stage, word) /\ CallerBeside(s) /\ CallerTyped'
    BY <1>2, <1>3, ReturnsFields
  <1>7. QED
    BY <1>1, <1>4, <1>5, <1>6 DEF EndStep, Beside, Typed

\* The end of a method that closes the channel with the flags as they are, or
\* with the engine out of step.
LEMMA CliCuts ==
    ASSUME Typed, NEW s \in CliSession, NEW e \in Cli!Engine, NEW stage \in Stage,
           Cli!Sets(s, Cli!Idle(e)), Cut(s), ReturnsTelling(s, stage, caller[s].told),
           UNCHANGED net, MuxBeside(s)
    PROVE  /\ Becomes(s, e.configured, e.dirty, e.ready, "none", "none")
           /\ CutOff(s) /\ Returned(s, stage, caller[s].told) /\ Beside(s)
  <1>1. Cli!Idle(e) \in Cli!Engine /\ Cli!Idle(e).configured = e.configured
        /\ Cli!Idle(e).dirty = e.dirty /\ Cli!Idle(e).ready = e.ready
        /\ Cli!Idle(e).op = "none" /\ Cli!Idle(e).awaits = "none"
    BY CliIdle
  <1>2. FlagsTyped /\ DevTyped /\ CallerTyped /\ s \in Session
        /\ caller[s].told \in {"nothing", "committed", "failed", "unknown"}
    BY CliEntry
  <1>3. Becomes(s, e.configured, e.dirty, e.ready, "none", "none") /\ FlagsBeside(s) /\ FlagsTyped'
    BY <1>1, <1>2, CliSet DEF MuxBeside, Becomes
  <1>4. CutOff(s) /\ DevBeside(s) /\ DevTyped'
    BY <1>2, CutFields
  <1>5. Returned(s, stage, caller[s].told) /\ CallerBeside(s) /\ CallerTyped'
    BY <1>2, ReturnsFields
  <1>6. QED
    BY <1>3, <1>4, <1>5 DEF Beside, Typed

LEMMA CliCloses ==
    ASSUME Typed, NEW s \in CliSession, NEW e \in Cli!Engine,
           Cli!Closes(s, e), UNCHANGED net, MuxBeside(s)
    PROVE  TearStep(s, "gone", caller[s].told) /\ (Has(s)' <=> e.configured) /\ Beside(s)
  <1> DEFINE m == Cli!Lost(e)
  <1>1. m \in Cli!Engine /\ ~m.ready /\ m.configured = e.configured
    BY DEF Cli!Lost, Cli!Engine
  <1>2. Cli!Sets(s, Cli!Idle(m)) /\ Cut(s) /\ ReturnsTelling(s, "gone", caller[s].told)
    BY CliUses DEF Cli!Closes
  <1> HIDE DEF m
  <1>3. /\ Becomes(s, m.configured, m.dirty, m.ready, "none", "none")
        /\ CutOff(s) /\ Returned(s, "gone", caller[s].told) /\ Beside(s)
    BY <1>1, <1>2, CliCuts DEF Stage
  <1>4. QED
    BY <1>1, <1>3 DEF TearStep, Becomes, Beside

LEMMA CliVouches ==
    ASSUME Typed, NEW s \in CliSession, Cli!Vouches(s), UNCHANGED net, MuxBeside(s)
    PROVE  VouchStep(s) /\ Beside(s)
  <1> DEFINE m == Cli!Idle(cli[s])
  <1>0. FlagsTyped /\ DevTyped /\ CallerTyped /\ s \in Session /\ cli[s] \in Cli!Engine
    BY CliEntry
  <1>1. m \in Cli!Engine /\ (m.configured <=> Has(s)) /\ (m.dirty <=> Dirty(s))
        /\ (m.ready <=> Fit(s)) /\ m.op = "none" /\ m.awaits = "none"
    BY <1>0, CliIdle, CliEntry
  <1>2. Cli!Sets(s, m) /\ Renew(s) /\ NewBorrow(s)
    BY CliUses DEF Cli!Vouches
  <1> HIDE DEF m
  <1>4. Becomes(s, m.configured, m.dirty, m.ready, m.op, m.awaits) /\ FlagsBeside(s) /\ FlagsTyped'
    BY <1>1, <1>2, <1>0, CliSet DEF MuxBeside
  <1>5. Renewed(s) /\ DevBeside(s) /\ DevTyped'
    BY <1>2, <1>0, RenewFields
  <1>6. /\ At(s)' = "borrowed" /\ caller'[s].call = "none" /\ caller'[s].told = "nothing"
        /\ CallerBeside(s) /\ CallerTyped'
    BY <1>2, <1>0, BorrowFields
  <1>7. Becomes(s, Has(s), Dirty(s), Fit(s), "none", "none")
    BY <1>1, <1>4 DEF Becomes
  <1>8. QED
    BY <1>4, <1>5, <1>6, <1>7 DEF VouchStep, Beside, Typed

\* An engine types only when nothing is on the way, and a call that was given up
\* never comes to a commit.
LEMMA CliStepAsk ==
    ASSUME NEW s \in CliSession, CliReady(s), NEW r \in Request, NEW has, NEW dirty, NEW op,
           AskStep(s, r, has, dirty, op), Clear(s),
           At(s) = "gone" /\ Up(s) => r # "commit",
           Op(s) = "none" => At(s) # "gone",
           r = "load" => Dirty(s)'
    PROVE  CliInv(s)' /\ Moves(s)
  <1>1. DevTyped /\ s \in Session /\ CliInv(s)
    BY CliIsNotNet DEF CliReady, Typed
  <1>2. Quiet(s) => Len(wire[s].queue) = 0
    BY <1>1, QuietQueue
  <1>3. caller'[s].stage = At(s)
    BY DEF AskStep, Called, CallerSame, At
  <1>4. r \notin {"login", "exec"}
    BY DEF Request
  <1>5. Moves(s)
    BY <1>3 DEF Moves, AskStep, Becomes, SentTo, Up, At
  <1>6. QED
    BY <1>1, <1>2, <1>3, <1>4, <1>5 DEF CliInv, AskStep, Becomes, SentTo, QueueLonger, QueueSame, Clear, Up, At, CallerSame

LEMMA CliStepEnd ==
    ASSUME NEW s \in CliSession, CliInv(s), NEW has, NEW dirty, NEW fit, NEW stage, NEW word,
           EndStep(s, has, dirty, fit, stage, word), Up(s) /\ Fit(s)' => Quiet(s),
           stage # "gone"
    PROVE  CliInv(s)' /\ Moves(s)
  BY DEF CliInv, Moves, EndStep, Becomes, Returned, CallerSame, ReadFrom, QueueSame, Up, At

LEMMA CliStepTear ==
    ASSUME NEW s \in CliSession, CliInv(s), NEW stage, NEW word, TearStep(s, stage, word)
    PROVE  CliInv(s)' /\ Moves(s)
  BY DEF CliInv, Moves, TearStep, Returned, CallerSame, CutOff, QueueSame, Up, At

LEMMA CliIdleFacts ==
    ASSUME NEW s \in CliSession, CliReady(s), Op(s) = "none"
    PROVE  /\ Awaits(s) = "none"
           /\ Fit(s) => Clear(s)
           /\ Up(s) /\ Has(s) => Holds(s)
           /\ Up(s) /\ Has(s) /\ ~Dirty(s) => s \notin dev.cand
  <1>1. EditInv(s) /\ CliInv(s)
    BY DEF CliReady
  <1>2. Awaits(s) = "none"
    BY <1>1 DEF EditInv, ThreadInv
  <1>3. Fit(s) => Clear(s)
    BY <1>1, <1>2 DEF CliInv, Clear, Request
  <1>4. QED
    BY <1>1, <1>2, <1>3 DEF EditInv, LockInv

LEMMA CliStarted ==
    ASSUME Typed, NEW s \in CliSession, NEW call \in Call
    PROVE  /\ Cli!Started(s, call) \in Cli!Engine
           /\ Cli!Started(s, call).configured = cli[s].configured
           /\ Cli!Started(s, call).dirty = cli[s].dirty
           /\ Cli!Started(s, call).ready = cli[s].ready
           /\ Cli!Started(s, call).op = call
  <1>1. cli[s] \in Cli!Engine /\ call \in Cli!Call
    BY CliEntry DEF Cli!Call, Call
  <1>2. QED
    BY <1>1 DEF Cli!Started, Cli!Engine

LEMMA CliGoesOn ==
    ASSUME NEW s \in CliSession, Typed, NEW e \in Cli!Engine, NEW r \in Request,
           e.op # "none", e.ready <=> Fit(s),
           Cli!Types(s, e, r), UNCHANGED net, MuxBeside(s),
           \/ Op(s) = "none" /\ May(s, e.op) /\ Called(s, e.op)
           \/ Op(s) = e.op /\ CallerSame(s),
           CallerBeside(s), CallerTyped'
    PROVE  AskStep(s, r, e.configured, e.dirty, e.op) /\ Beside(s)
  <1>1. /\ Becomes(s, e.configured, e.dirty, e.ready, e.op, r)
        /\ SentTo(s, r) /\ DevBeside(s) /\ DevTyped'
        /\ FlagsBeside(s) /\ FlagsTyped'
    BY CliAsks
  <1>2. QED
    BY <1>1 DEF AskStep, Becomes, Beside, Typed

LEMMA CliGoes ==
    ASSUME NEW s \in CliSession, CliReady(s), NEW e \in Cli!Engine,
           e.configured, e.op \in {"load", "diff", "commit", "confirm"},
           e.ready <=> Fit(s), e.dirty <=> Dirty(s),
           Cli!Goes(s, e), UNCHANGED net, MuxBeside(s),
           \/ Op(s) = "none" /\ May(s, e.op) /\ Called(s, e.op)
           \/ Op(s) = e.op /\ CallerSame(s),
           CallerBeside(s), CallerTyped',
           Clear(s), Awaits(s) \in {"none", "lock"},
           Up(s) => Holds(s) /\ (Dirty(s) \/ s \notin dev.cand),
           Up(s) /\ At(s) = "gone" => e.op = "load"
    PROVE  CliMoved(s)
  <1>1. Typed /\ EditInv(s) /\ CliInv(s) /\ s \in Session
    BY CliIsNotNet DEF CliReady
  <1>2. DevTyped /\ CallerTyped
    BY <1>1 DEF Typed
  <1>3. Op(s) = "none" => At(s) # "gone"
    BY <1>1, <1>2, Beginning DEF Call
  <1>4. CASE e.op = "load"
    <2> DEFINE m == [e EXCEPT !.dirty = TRUE, !.left = Lines - 1]
    <2>0. Lines - 1 \in 0..Lines
      OBVIOUS
    <2>1. m \in Cli!Engine /\ m.configured /\ m.dirty /\ m.ready = e.ready /\ m.op = "load"
      BY <1>4, <2>0 DEF Cli!Engine
    <2>2. Cli!Types(s, m, "load")
      BY <1>4 DEF Cli!Goes
    <2> HIDE DEF m
    <2>3. AskStep(s, "load", m.configured, m.dirty, m.op) /\ Beside(s)
      BY <1>1, <1>4, <2>1, <2>2, CliGoesOn DEF Request
    <2>4. AskStep(s, "load", TRUE, Dirty(s) \/ "load" = "load", "load")
      BY <2>1, <2>3 DEF AskStep, Becomes
    <2>5. Up(s) => dev.fate[s] \in {"none", "refused"}
      <3>1. At(s) \in {"borrowed", "gone"}
        BY <1>1, <1>2, <1>4, Beginning DEF EditInv, ThreadInv, Follows, Call
      <3> QED
        BY <1>1, <3>1 DEF EditInv, CommitInv, CliInv
    <2>6. Good(s)
      BY <1>1, <2>4, <2>5, AskUnderLock DEF Call
    <2>7. CliInv(s)' /\ Moves(s)
      <3>1. Dirty(s)'
        BY <2>4 DEF AskStep, Becomes
      <3> QED
        BY <1>1, <1>3, <2>4, <3>1, CliStepAsk DEF Request
    <2> QED
      BY <2>3, <2>6, <2>7 DEF CliMoved, CliKept
  <1>5. CASE e.op = "confirm"
    <2>2. Cli!Types(s, e, "history")
      BY <1>5 DEF Cli!Goes
    <2>3. AskStep(s, "history", e.configured, e.dirty, e.op) /\ Beside(s)
      BY <1>1, <1>5, <2>2, CliGoesOn DEF Request
    <2>4. AskStep(s, "history", TRUE, Dirty(s) \/ "history" = "load", "confirm")
      BY <1>5, <2>3 DEF AskStep, Becomes
    <2>6. Good(s)
      BY <1>1, <2>4, AskUnderLock DEF Call
    <2>7. CliInv(s)' /\ Moves(s)
      BY <1>1, <1>3, <2>4, CliStepAsk DEF Request
    <2> QED
      BY <2>3, <2>6, <2>7 DEF CliMoved, CliKept
  <1>6. CASE e.op = "diff"
    <2>2. Cli!Types(s, e, "diff")
      BY <1>6 DEF Cli!Goes
    <2>3. AskStep(s, "diff", e.configured, e.dirty, e.op) /\ Beside(s)
      BY <1>1, <1>6, <2>2, CliGoesOn DEF Request
    <2>4. AskStep(s, "diff", TRUE, Dirty(s) \/ "diff" = "load", "diff")
      BY <1>6, <2>3 DEF AskStep, Becomes
    <2>6. Good(s)
      BY <1>1, <2>4, AskUnderLock DEF Call
    <2>7. CliInv(s)' /\ Moves(s)
      BY <1>1, <1>3, <2>4, CliStepAsk DEF Request
    <2> QED
      BY <2>3, <2>6, <2>7 DEF CliMoved, CliKept
  <1>7. CASE e.op = "commit"
    <2> DEFINE m == [e EXCEPT !.sent = TRUE]
    <2>1. m \in Cli!Engine /\ m.configured /\ m.dirty = e.dirty /\ m.ready = e.ready /\ m.op = "commit"
      BY <1>7 DEF Cli!Engine
    <2>2. Cli!Types(s, m, "commit")
      BY <1>7 DEF Cli!Goes
    <2> HIDE DEF m
    <2>3. AskStep(s, "commit", m.configured, m.dirty, m.op) /\ Beside(s)
      BY <1>1, <1>7, <2>1, <2>2, CliGoesOn DEF Request
    <2>4. AskStep(s, "commit", TRUE, Dirty(s), "commit")
      BY <2>1, <2>3 DEF AskStep, Becomes
    <2>6. Good(s)
      BY <1>1, <1>7, <2>4, AskCommit DEF Call
    <2>7. CliInv(s)' /\ Moves(s)
      BY <1>1, <1>3, <1>7, <2>4, CliStepAsk DEF Request
    <2> QED
      BY <2>3, <2>6, <2>7 DEF CliMoved, CliKept
  <1>8. QED
    BY <1>4, <1>5, <1>6, <1>7

\* A method that has to be in configuration mode, in a call that begins or, once
\* its shell is there, goes on.
LEMMA CliEnters ==
    ASSUME NEW s \in CliSession, CliReady(s), NEW e \in Cli!Engine,
           e.op \in {"load", "diff", "commit", "confirm"},
           e.configured <=> Has(s), e.ready <=> Fit(s), e.dirty <=> Dirty(s),
           Cli!Enters(s, e), UNCHANGED net, MuxBeside(s),
           \/ Op(s) = "none" /\ May(s, e.op) /\ Called(s, e.op)
           \/ Op(s) = e.op /\ CallerSame(s) /\ Awaits(s) = "login" /\ ~Has(s),
           CallerBeside(s), CallerTyped', Clear(s)
    PROVE  CliMoved(s)
  <1>1. Typed /\ EditInv(s) /\ CliInv(s) /\ s \in Session
    BY CliIsNotNet DEF CliReady
  <1>2. Op(s) = "none" => Awaits(s) = "none" /\ At(s) # "gone"
    BY <1>1, CliIdleFacts, CliEntry, Beginning DEF Call
  <1>3. CASE e.configured
    <2>1. Cli!Goes(s, e)
      BY <1>3 DEF Cli!Enters
    <2>2. Op(s) = "none" /\ Awaits(s) = "none" /\ At(s) # "gone"
      BY <1>2, <1>3
    <2>3. Up(s) => Holds(s) /\ (Dirty(s) \/ s \notin dev.cand)
      BY <1>3, <2>2, CliIdleFacts
    <2> QED
      BY <1>3, <2>1, <2>2, <2>3, CliGoes
  <1>4. CASE ~e.configured
    <2>1. Cli!Types(s, e, "lock")
      BY <1>4 DEF Cli!Enters
    <2>2. AskStep(s, "lock", e.configured, e.dirty, e.op) /\ Beside(s)
      BY <1>1, <2>1, CliGoesOn DEF Request
    <2>3. AskStep(s, "lock", Has(s), Dirty(s), e.op)
      BY <2>2 DEF AskStep, Becomes
    <2>4. Good(s)
      BY <1>1, <1>2, <1>4, <2>3, AskLock DEF Call
    <2>5. CliInv(s)' /\ Moves(s)
      BY <1>1, <1>2, <2>3, CliStepAsk DEF Request
    <2> QED
      BY <2>2, <2>4, <2>5 DEF CliMoved, CliKept
  <1>5. QED
    BY <1>3, <1>4

\* An end that leaves the flags as they are.
LEMMA CliEndsHere ==
    ASSUME NEW s \in CliSession, Typed, NEW stage \in Stage,
           NEW word \in {"nothing", "committed", "failed", "unknown"},
           Cli!EndsTelling(s, cli[s], stage, word), UNCHANGED net, MuxBeside(s)
    PROVE  EndStep(s, Has(s), Dirty(s), Fit(s), stage, word) /\ Beside(s)
  <1>1. EndStep(s, cli[s].configured, cli[s].dirty, cli[s].ready, stage, word) /\ Beside(s)
    BY CliEntry, CliEnds
  <1>2. QED
    BY <1>1, CliEntry DEF EndStep, Becomes

LEMMA CliEndsUnasked ==
    ASSUME NEW s \in CliSession, CliReady(s), NEW stage \in {"spent", "doubted", "kept"},
           Cli!Ends(s, cli[s], stage), UNCHANGED net, MuxBeside(s),
           Awaits(s) \in {"none", "login", "exec"},
           At(s) = "doubted" => stage = "doubted",
           stage = "kept" => Awaits(s) = "none" /\ Fit(s) /\ ~Has(s) /\ At(s) # "gone"
    PROVE  CliMoved(s)
  <1>1. Typed /\ EditInv(s) /\ CliInv(s) /\ s \in Session
    BY CliIsNotNet DEF CliReady
  <1>2. Cli!EndsTelling(s, cli[s], stage, caller[s].told)
    BY DEF Cli!Ends
  <1>3. stage \in Stage
    BY DEF Stage, Borrowed
  <1>4. EndStep(s, Has(s), Dirty(s), Fit(s), stage, caller[s].told) /\ Beside(s)
    BY <1>1, <1>2, <1>3, CliEntry, CliEndsHere
  <1>5. Good(s)
    BY <1>1, <1>4, EndUnasked
  <1>6. Up(s) /\ Fit(s)' => Quiet(s)
    BY <1>1, <1>4 DEF CliInv, EndStep, Becomes, Request
  <1>7. CliInv(s)' /\ Moves(s)
    BY <1>1, <1>4, <1>6, CliStepEnd
  <1>8. QED
    BY <1>4, <1>5, <1>7 DEF CliMoved, CliKept

LEMMA CliTears ==
    ASSUME NEW s \in CliSession, CliReady(s), NEW e \in Cli!Engine,
           Cli!Closes(s, e), UNCHANGED net, MuxBeside(s)
    PROVE  CliMoved(s)
  <1>1. Typed /\ EditInv(s) /\ CliInv(s) /\ s \in Session
    BY CliIsNotNet DEF CliReady
  <1>2. TearStep(s, "gone", caller[s].told) /\ Beside(s)
    BY <1>1, CliCloses
  <1>3. Good(s)
    BY <1>1, <1>2, CliEntry, TearDown
  <1>4. CliInv(s)' /\ Moves(s)
    BY <1>1, <1>2, CliStepTear
  <1>5. QED
    BY <1>2, <1>3, <1>4 DEF CliMoved, CliKept

-----------------------------------------------------------------------------
(* The methods of the engine                                               *)

LEMMA CliStarts ==
    ASSUME NEW s \in CliSession, Typed, NEW r \in Request, NEW call \in Call,
           Op(s) = "none", May(s, call), Calls(s, call),
           Cli!Types(s, Cli!Started(s, call), r), UNCHANGED net, MuxBeside(s)
    PROVE  AskStep(s, r, Has(s), Dirty(s), call) /\ Beside(s)
  <1> DEFINE e == Cli!Started(s, call)
  <1>1. e \in Cli!Engine /\ (e.configured <=> Has(s)) /\ (e.dirty <=> Dirty(s))
        /\ (e.ready <=> Fit(s)) /\ e.op = call
    BY CliStarted, CliEntry
  <1>2. Cli!Types(s, e, r)
    OBVIOUS
  <1> HIDE DEF e
  <1>3. Called(s, call) /\ CallerBeside(s) /\ CallerTyped'
    BY CliEntry, CallsFields
  <1>4. call # "none"
    BY DEF Call
  <1>5. AskStep(s, r, e.configured, e.dirty, e.op) /\ Beside(s)
    BY <1>1, <1>2, <1>3, <1>4, CliGoesOn
  <1>6. QED
    BY <1>1, <1>5 DEF AskStep, Becomes

LEMMA CliEntering ==
    ASSUME NEW s \in CliSession, CliReady(s), Cli!Entering(s), UNCHANGED net, MuxBeside(s)
    PROVE  CliMoved(s)
  <1>1. Typed /\ EditInv(s) /\ CliInv(s) /\ s \in Session
    BY CliIsNotNet DEF CliReady
  <1>2. PICK call \in {"load", "diff", "commit", "confirm"} :
          /\ Cli!Begins(s, call)
          /\ \/ cli[s].ready /\ Cli!Enters(s, Cli!Started(s, call)) /\ Cli!Calls(s, call)
             \/ ~cli[s].ready /\ Cli!Ends(s, cli[s], "doubted")
    BY DEF Cli!Entering
  <1>3. Op(s) = "none" /\ May(s, call) /\ call \in Call
    BY <1>1, <1>2, CliEntry, CliUses DEF Cli!Begins, Call
  <1>4. CASE cli[s].ready /\ Cli!Enters(s, Cli!Started(s, call)) /\ Cli!Calls(s, call)
    <2> DEFINE e == Cli!Started(s, call)
    <2>1. e \in Cli!Engine /\ (e.configured <=> Has(s)) /\ (e.dirty <=> Dirty(s))
          /\ (e.ready <=> Fit(s)) /\ e.op = call
      BY <1>1, <1>3, CliStarted, CliEntry
    <2>2. Cli!Enters(s, e) /\ Calls(s, call)
      BY <1>4, CliUses
    <2> HIDE DEF e
    <2>3. Called(s, call) /\ CallerBeside(s) /\ CallerTyped'
      BY <1>1, <1>3, <2>2, CliEntry, CallsFields
    <2>4. Clear(s)
      BY <1>1, <1>3, <1>4, CliEntry, CliIdleFacts
    <2> QED
      BY <1>2, <1>3, <2>1, <2>2, <2>3, <2>4, CliEnters
  <1>5. CASE ~cli[s].ready /\ Cli!Ends(s, cli[s], "doubted")
    BY <1>3, <1>5, CliIdleFacts, CliEndsUnasked
  <1>6. QED
    BY <1>2, <1>4, <1>5

LEMMA CliPayloadRefused ==
    ASSUME NEW s \in CliSession, CliReady(s), Cli!PayloadRefused(s), UNCHANGED net, MuxBeside(s)
    PROVE  CliMoved(s)
  <1>1. Typed
    BY DEF CliReady
  <1>2. Op(s) = "none" /\ May(s, "load") /\ Cli!Ends(s, cli[s], "spent")
    BY <1>1, CliEntry, CliUses DEF Cli!PayloadRefused, Cli!Begins
  <1>3. At(s) = "borrowed"
    BY <1>1, <1>2, CliEntry, Beginning DEF Call
  <1>4. QED
    BY <1>2, <1>3, CliIdleFacts, CliEndsUnasked

LEMMA CliCommitHistory ==
    ASSUME NEW s \in CliSession, CliReady(s), Cli!CommitHistory(s), UNCHANGED net, MuxBeside(s)
    PROVE  CliMoved(s)
  <1>1. Typed /\ EditInv(s) /\ CliInv(s) /\ s \in Session
    BY CliIsNotNet DEF CliReady
  <1>2. Op(s) = "none" /\ May(s, "history")
    BY <1>1, CliEntry, CliUses DEF Cli!CommitHistory, Cli!Begins
  <1>3. At(s) = "borrowed" /\ Awaits(s) = "none"
    BY <1>1, <1>2, CliEntry, Beginning, CliIdleFacts DEF Call
  <1>4. CASE cli[s].ready /\ Cli!Types(s, Cli!Started(s, "history"), "history")
               /\ Cli!Calls(s, "history")
    <2>1. AskStep(s, "history", Has(s), Dirty(s), "history") /\ Beside(s)
      BY <1>1, <1>2, <1>4, CliUses, CliStarts DEF Request, Call
    <2>2. Clear(s)
      BY <1>1, <1>2, <1>4, CliEntry, CliIdleFacts
    <2>3. Good(s)
      BY <1>1, <1>3, <2>1, <2>2, AskHistory DEF Call
    <2>4. CliInv(s)' /\ Moves(s)
      BY <1>3, <2>1, <2>2, CliStepAsk DEF Request
    <2> QED
      BY <2>1, <2>3, <2>4 DEF CliMoved, CliKept
  <1>5. CASE ~cli[s].ready /\ Cli!Ends(s, cli[s], "doubted")
    BY <1>3, <1>5, CliEndsUnasked
  <1>6. QED
    BY <1>4, <1>5 DEF Cli!CommitHistory

\* Configuration mode is left, in a call that begins or after a rollback.
LEMMA CliExits ==
    ASSUME NEW s \in CliSession, CliReady(s), NEW e \in Cli!Engine,
           e.op \in {"release", "close"}, e.configured, e.ready, Has(s), Fit(s),
           Cli!Exits(s, e), UNCHANGED net, MuxBeside(s),
           \/ Op(s) = "none" /\ May(s, e.op) /\ Called(s, e.op) /\ ~Dirty(s)
           \/ Op(s) = e.op /\ CallerSame(s) /\ Awaits(s) = "rollback" /\ Answer(s) = "ok",
           CallerBeside(s), CallerTyped'
    PROVE  CliMoved(s)
  <1>1. Typed /\ EditInv(s) /\ CliInv(s) /\ s \in Session
    BY CliIsNotNet DEF CliReady
  <1> DEFINE m == [e EXCEPT !.dirty = FALSE]
  <1>2. m \in Cli!Engine /\ m.configured /\ ~m.dirty /\ m.ready /\ m.op = e.op
    BY DEF Cli!Engine
  <1>3. Cli!Types(s, m, "unlock")
    BY DEF Cli!Exits
  <1> HIDE DEF m
  <1>4. AskStep(s, "unlock", m.configured, m.dirty, m.op) /\ Beside(s)
    BY <1>1, <1>2, <1>3, CliGoesOn DEF Request
  <1>5. AskStep(s, "unlock", TRUE, Dirty(s)', e.op) /\ ~Dirty(s)'
    BY <1>2, <1>4 DEF AskStep, Becomes
  <1>6. Clear(s) /\ (Op(s) = "none" => At(s) # "gone")
    <2>1. CASE Op(s) = "none" /\ May(s, e.op)
      BY <1>1, <2>1, CliEntry, CliIdleFacts, Beginning DEF Call
    <2>2. CASE Op(s) = e.op /\ Answer(s) = "ok"
      BY <1>1, <2>2, AnsweredFacts DEF Clear
    <2> QED
      BY <2>1, <2>2
  <1>7. Good(s)
    <2>1. e.op \in Call /\ (Up(s) => Quiet(s)) /\ (Dirty(s)' => Dirty(s))
      BY <1>5, <1>6 DEF Call, Clear
    <2>2. \/ Op(s) = "none" /\ ~Dirty(s) /\ (s \in CliSession /\ Up(s) => Quiet(s))
          \/ Awaits(s) = "rollback" /\ Answer(s) = "ok"
      BY <2>1
    <2> QED
      BY <1>1, <1>5, <2>1, <2>2, AskUnlock
  <1>8. CliInv(s)' /\ Moves(s)
    BY <1>5, <1>6, CliStepAsk DEF Request
  <1>9. QED
    BY <1>4, <1>7, <1>8 DEF CliMoved, CliKept

LEMMA CliRelease ==
    ASSUME NEW s \in CliSession, CliReady(s), Cli!Release(s), UNCHANGED net, MuxBeside(s)
    PROVE  CliMoved(s)
  <1>1. Typed /\ EditInv(s) /\ CliInv(s) /\ s \in Session /\ cli[s] \in Cli!Engine
    BY CliIsNotNet, CliEntry DEF CliReady
  <1>2. PICK call \in {"release", "close"} :
          /\ Cli!Begins(s, call)
          /\ IF ~cli[s].ready \/ cli[s].sent THEN Cli!Closes(s, cli[s])
             ELSE IF cli[s].configured
             THEN /\ IF cli[s].dirty THEN Cli!Types(s, Cli!Started(s, call), "rollback")
                     ELSE Cli!Exits(s, Cli!Started(s, call))
                  /\ Cli!Calls(s, call)
             ELSE IF call = "close" THEN Cli!Closes(s, cli[s])
             ELSE Cli!Ends(s, cli[s], "kept")
    BY DEF Cli!Release
  <1>3. Op(s) = "none" /\ May(s, call) /\ call \in Call
    BY <1>1, <1>2, CliEntry, CliUses DEF Cli!Begins, Call
  <1>4. /\ Awaits(s) = "none" /\ At(s) # "gone"
        /\ call = "release" => At(s) \in Borrowed
    BY <1>1, <1>3, CliEntry, CliIdleFacts, Beginning
  <1>5. CASE Cli!Closes(s, cli[s])
    BY <1>1, <1>5, CliTears
  <1>6. CASE cli[s].ready /\ cli[s].configured /\ Cli!Calls(s, call)
               /\ IF cli[s].dirty THEN Cli!Types(s, Cli!Started(s, call), "rollback")
                  ELSE Cli!Exits(s, Cli!Started(s, call))
    <2>1. Calls(s, call) /\ Has(s) /\ Fit(s) /\ Clear(s)
      BY <1>1, <1>3, <1>6, CliEntry, CliUses, CliIdleFacts
    <2>2. CASE cli[s].dirty
      <3>1. AskStep(s, "rollback", Has(s), Dirty(s), call) /\ Beside(s)
        BY <1>1, <1>3, <1>6, <2>1, <2>2, CliStarts DEF Request
      <3>2. Dirty(s)
        BY <1>1, <2>2, CliEntry
      <3>3. Good(s)
        BY <1>1, <1>2, <1>3, <2>1, <3>1, <3>2, AskRollback DEF Clear
      <3>4. CliInv(s)' /\ Moves(s)
        BY <1>4, <2>1, <3>1, CliStepAsk DEF Request
      <3> QED
        BY <3>1, <3>3, <3>4 DEF CliMoved, CliKept
    <2>3. CASE ~cli[s].dirty
      <3> DEFINE e == Cli!Started(s, call)
      <3>1. e \in Cli!Engine /\ e.configured /\ e.ready /\ e.op = call
        BY <1>1, <1>3, <1>6, CliStarted
      <3>2. Cli!Exits(s, e)
        BY <1>6, <2>3
      <3> HIDE DEF e
      <3>3. Called(s, call) /\ CallerBeside(s) /\ CallerTyped' /\ ~Dirty(s)
        BY <1>1, <1>3, <2>1, <2>3, CliEntry, CallsFields
      <3> QED
        BY <1>2, <1>3, <2>1, <3>1, <3>2, <3>3, CliExits
    <2> QED
      BY <2>2, <2>3
  <1>7. CASE cli[s].ready /\ ~cli[s].configured /\ call = "release" /\ Cli!Ends(s, cli[s], "kept")
    <2>1. Fit(s) /\ ~Has(s) /\ At(s) # "doubted"
      BY <1>1, <1>4, <1>7, CliEntry DEF Borrowed
    <2> QED
      BY <1>4, <1>7, <2>1, CliEndsUnasked
  <1>8. QED
    BY <1>2, <1>5, <1>6, <1>7

LEMMA CliVouched ==
    ASSUME NEW s \in CliSession, CliReady(s), Cli!Vouches(s), UNCHANGED net, MuxBeside(s),
           At(s) = "kept", Op(s) = "none" \/ (Awaits(s) = "probe" /\ Answer(s) # "none")
    PROVE  CliMoved(s)
  <1>1. Typed /\ EditInv(s) /\ CliInv(s) /\ s \in Session
    BY CliIsNotNet DEF CliReady
  <1>2. VouchStep(s) /\ Beside(s)
    BY <1>1, CliVouches
  <1>3. Good(s)
    BY <1>1, <1>2, Vouch
  <1>4. Up(s) /\ Fit(s) => Quiet(s)
    <2>1. CASE Op(s) = "none"
      BY <2>1, CliIdleFacts DEF Clear
    <2>2. CASE Answer(s) # "none"
      BY <1>1, <2>2, AnsweredFacts
    <2> QED
      BY <2>1, <2>2
  <1>5. CliInv(s)' /\ Moves(s)
    BY <1>1, <1>2, <1>4 DEF VouchStep, Becomes, Renewed, QueueSame, CliInv, Moves, Up, At
  <1>6. QED
    BY <1>2, <1>3, <1>5 DEF CliMoved, CliKept

LEMMA CliProbes ==
    ASSUME NEW s \in CliSession, CliReady(s), UNCHANGED net, MuxBeside(s),
           Cli!Begins(s, "reuse"), cli[s].ready,
           Cli!Types(s, Cli!Started(s, "reuse"), "probe"), Cli!Calls(s, "reuse")
    PROVE  CliMoved(s)
  <1>1. Typed /\ EditInv(s) /\ CliInv(s) /\ s \in Session
    BY CliIsNotNet DEF CliReady
  <1>2. Op(s) = "none" /\ May(s, "reuse") /\ Calls(s, "reuse")
    <2>1. Cli!May(s, "reuse") /\ cli[s].op = "none"
      BY DEF Cli!Begins
    <2>2. May(s, "reuse") /\ Calls(s, "reuse")
      BY <2>1, CliUses
    <2> QED
      BY <1>1, <2>1, <2>2, CliEntry
  <1>3. At(s) = "kept" /\ Fit(s) /\ Clear(s)
    BY <1>1, <1>2, CliEntry, Beginning, CliIdleFacts DEF Call
  <1>4. AskStep(s, "probe", Has(s), Dirty(s), "reuse") /\ Beside(s)
    BY <1>1, <1>2, CliStarts DEF Request, Call
  <1>5. Good(s)
    BY <1>1, <1>2, <1>3, <1>4, AskProbe DEF Call
  <1>6. CliInv(s)' /\ Moves(s)
    BY <1>3, <1>4, CliStepAsk DEF Request
  <1>7. QED
    BY <1>4, <1>5, <1>6 DEF CliMoved, CliKept

LEMMA CliReuse ==
    ASSUME NEW s \in CliSession, CliReady(s), Cli!Reuse(s), UNCHANGED net, MuxBeside(s)
    PROVE  CliMoved(s)
  <1>1. Typed /\ cli[s] \in Cli!Engine
    BY CliEntry DEF CliReady
  <1>2. Op(s) = "none" /\ At(s) = "kept" /\ Cli!Begins(s, "reuse")
    <2>1. Cli!Begins(s, "reuse")
      BY DEF Cli!Reuse
    <2>2. Cli!May(s, "reuse") /\ cli[s].op = "none"
      BY <2>1 DEF Cli!Begins
    <2>3. May(s, "reuse")
      BY <2>2, CliUses
    <2>4. CallerTyped /\ s \in Session /\ "reuse" \in Call
      BY <1>1, CliIsNotNet DEF Typed, Call
    <2>5. At(s) = "kept"
      BY <2>3, <2>4, Beginning
    <2>6. Op(s) = "none"
      BY <1>1, <2>2, CliFields DEF Typed
    <2> QED
      BY <2>1, <2>5, <2>6
  <1>3. CASE Cli!Closes(s, cli[s])
    BY <1>1, <1>3, CliTears
  <1>4. CASE Cli!Vouches(s)
    BY <1>2, <1>4, CliVouched
  <1>5. CASE cli[s].ready /\ Cli!Types(s, Cli!Started(s, "reuse"), "probe") /\ Cli!Calls(s, "reuse")
    BY <1>2, <1>5, CliProbes
  <1>6. QED
    BY <1>3, <1>4, <1>5 DEF Cli!Reuse

-----------------------------------------------------------------------------
(* The replies to the engine, and those that do not come                   *)

LEMMA CliAnswered ==
    ASSUME NEW s \in CliSession, CliReady(s), NEW r, Cli!Answered(s, r)
    PROVE  /\ Awaits(s) = r /\ Answer(s) # "none" /\ Up(s) /\ Quiet(s)
           /\ r \in Request => Fit(s) /\ Clear(s)
           /\ Cli!Ok(s) <=> Answer(s) = "ok"
  <1>1. Typed /\ EditInv(s) /\ CliInv(s) /\ s \in Session
    BY CliIsNotNet DEF CliReady
  <1>2. Awaits(s) = r /\ Answer(s) # "none"
    BY <1>1, CliEntry DEF Cli!Answered, Answer
  <1>3. Up(s) /\ Quiet(s) /\ (Awaits(s) \in Request => Fit(s))
    BY <1>1, <1>2, AnsweredFacts
  <1>4. QED
    BY <1>2, <1>3 DEF Clear, Cli!Ok, Answer

LEMMA CliEndsAnswered ==
    ASSUME NEW s \in CliSession, CliReady(s), NEW stage \in {"loaded", "changed", "asked", "spent"},
           Cli!Ends(s, cli[s], stage), UNCHANGED net, MuxBeside(s),
           Awaits(s) \in {"lock", "load", "diff", "check", "history"}, Answer(s) # "none",
           Awaits(s) = "lock" => Answer(s) # "ok",
           stage # "spent" => Op(s) \in {"load", "diff", "history"}
    PROVE  CliMoved(s)
  <1>1. Typed /\ EditInv(s) /\ CliInv(s) /\ s \in Session
    BY CliIsNotNet DEF CliReady
  <1>2. Cli!EndsTelling(s, cli[s], stage, caller[s].told)
    BY DEF Cli!Ends
  <1>3. stage \in Stage
    BY DEF Stage, Borrowed
  <1>4. EndStep(s, Has(s), Dirty(s), Fit(s), stage, caller[s].told) /\ Beside(s)
    BY <1>1, <1>2, <1>3, CliEntry, CliEndsHere
  <1>5. Good(s)
    BY <1>1, <1>4, EndAnswered
  <1>6. Quiet(s)
    BY <1>1, AnsweredFacts
  <1>7. CliInv(s)' /\ Moves(s)
    BY <1>1, <1>4, <1>6, CliStepEnd
  <1>8. QED
    BY <1>4, <1>5, <1>7 DEF CliMoved, CliKept

LEMMA CliEnterAnswered ==
    ASSUME NEW s \in CliSession, CliReady(s), Cli!EnterAnswered(s), UNCHANGED net, MuxBeside(s)
    PROVE  CliMoved(s)
  <1>1. Typed /\ EditInv(s) /\ CliInv(s) /\ s \in Session
    BY CliIsNotNet DEF CliReady
  <1>2. Awaits(s) = "lock" /\ Answer(s) # "none" /\ Up(s) /\ Fit(s) /\ Clear(s)
        /\ (Cli!Ok(s) <=> Answer(s) = "ok")
    BY CliAnswered DEF Cli!EnterAnswered, Request
  <1>3. CASE ~Cli!Ok(s)
    <2>1. Cli!Ends(s, cli[s], "spent")
      BY <1>3 DEF Cli!EnterAnswered
    <2> QED
      BY <1>2, <1>3, <2>1, CliEndsAnswered
  <1>4. CASE Cli!Ok(s)
    <2> DEFINE e == [cli[s] EXCEPT !.configured = TRUE]
    <2>1. cli[s] \in Cli!Engine /\ (Dirty(s) <=> cli[s].dirty) /\ (Fit(s) <=> cli[s].ready)
          /\ Op(s) = cli[s].op
      BY <1>1, CliEntry
    <2>2. e \in Cli!Engine /\ e.configured /\ (e.dirty <=> Dirty(s)) /\ (e.ready <=> Fit(s))
          /\ e.op = Op(s)
      BY <2>1 DEF Cli!Engine
    <2>3. Cli!Goes(s, e) /\ UNCHANGED caller
      BY <1>4 DEF Cli!EnterAnswered
    <2> HIDE DEF e
    <2>4. Op(s) \in {"load", "diff", "commit", "confirm"} /\ Holds(s) /\ s \notin dev.cand
      BY <1>1, <1>2, <1>4, AnsweredFacts
    <2>5. At(s) = "gone" => Op(s) = "load"
      BY <1>1, <1>2, <2>4 DEF CliInv
    <2>6. CallerSame(s) /\ CallerBeside(s) /\ CallerTyped'
      BY <1>1, <2>3, CliEntry, SameCaller
    <2> QED
      BY <1>2, <2>2, <2>3, <2>4, <2>5, <2>6, CliGoes
  <1>5. QED
    BY <1>3, <1>4

LEMMA CliLineAnswered ==
    ASSUME NEW s \in CliSession, CliReady(s), Cli!LineAnswered(s), UNCHANGED net, MuxBeside(s)
    PROVE  CliMoved(s)
  <1>1. Typed /\ EditInv(s) /\ CliInv(s) /\ s \in Session
    BY CliIsNotNet DEF CliReady
  <1>2. Awaits(s) = "load" /\ Answer(s) # "none" /\ Up(s) /\ Fit(s) /\ Clear(s)
    BY CliAnswered DEF Cli!LineAnswered, Request
  <1>3. Op(s) = "load" /\ Has(s) /\ Holds(s) /\ Dirty(s) /\ At(s) \in {"borrowed", "gone"}
    BY <1>1, <1>2, AnsweredFacts DEF CliInv
  <1>4. CASE Cli!Ok(s) /\ cli[s].left > 0
    <2> DEFINE e == [cli[s] EXCEPT !.left = @ - 1]
    <2>1. cli[s] \in Cli!Engine /\ cli[s].left \in 0..Lines /\ cli[s].configured /\ cli[s].dirty
          /\ (Fit(s) <=> cli[s].ready) /\ cli[s].op = "load"
      BY <1>1, <1>3, CliEntry, CliFields
    <2>2. cli[s].left - 1 \in 0..Lines
      BY <1>4, <2>1
    <2>3. e \in Cli!Engine /\ e.configured /\ e.dirty /\ (e.ready <=> Fit(s)) /\ e.op = "load"
      BY <2>1, <2>2 DEF Cli!Engine
    <2>4. Cli!Types(s, e, "load") /\ UNCHANGED caller
      BY <1>4 DEF Cli!LineAnswered
    <2> HIDE DEF e
    <2>5. CallerSame(s) /\ CallerBeside(s) /\ CallerTyped'
      BY <1>1, <2>4, CliEntry, SameCaller
    <2>6. AskStep(s, "load", e.configured, e.dirty, e.op) /\ Beside(s)
      BY <1>1, <1>3, <2>3, <2>4, <2>5, CliGoesOn DEF Request
    <2>7. AskStep(s, "load", TRUE, Dirty(s) \/ "load" = "load", "load") /\ Dirty(s)'
      BY <2>3, <2>6 DEF AskStep, Becomes
    <2>8. dev.fate[s] \in {"none", "refused"}
      BY <1>1, <1>2, <1>3 DEF EditInv, CommitInv, CliInv
    <2>9. Good(s)
      BY <1>1, <1>2, <1>3, <2>7, <2>8, AskUnderLock DEF Call
    <2>10. CliInv(s)' /\ Moves(s)
      BY <1>2, <1>3, <2>7, CliStepAsk DEF Request
    <2> QED
      BY <2>6, <2>9, <2>10 DEF CliMoved, CliKept
  <1>5. CASE ~(Cli!Ok(s) /\ cli[s].left > 0)
    <2>1. PICK stage \in {"loaded", "spent"} : Cli!Ends(s, cli[s], stage)
      BY <1>5 DEF Cli!LineAnswered
    <2> QED
      BY <1>2, <1>3, <2>1, CliEndsAnswered
  <1>6. QED
    BY <1>4, <1>5

LEMMA CliDiffAnswered ==
    ASSUME NEW s \in CliSession, CliReady(s), Cli!DiffAnswered(s), UNCHANGED net, MuxBeside(s)
    PROVE  CliMoved(s)
  <1>1. Typed /\ EditInv(s) /\ CliInv(s) /\ s \in Session
    BY CliIsNotNet DEF CliReady
  <1>2. Awaits(s) = "diff" /\ Answer(s) # "none"
    BY CliAnswered DEF Cli!DiffAnswered
  <1>3. Op(s) = "diff"
    BY <1>1, <1>2, AnsweredFacts
  <1>4. PICK stage \in {"changed", "spent"} : Cli!Ends(s, cli[s], stage)
    BY DEF Cli!DiffAnswered
  <1>5. QED
    BY <1>2, <1>3, <1>4, CliEndsAnswered

LEMMA CliHistoryAnswered ==
    ASSUME NEW s \in CliSession, CliReady(s), Cli!HistoryAnswered(s), UNCHANGED net, MuxBeside(s)
    PROVE  CliMoved(s)
  <1>1. Typed /\ EditInv(s) /\ CliInv(s) /\ s \in Session
    BY CliIsNotNet DEF CliReady
  <1>2. Awaits(s) = "history" /\ Answer(s) # "none" /\ Up(s) /\ Fit(s) /\ Clear(s)
    BY CliAnswered DEF Cli!HistoryAnswered, Request
  <1>3. Op(s) \in {"confirm", "history"} /\ (Op(s) = "confirm" => Has(s))
        /\ (Has(s) => Holds(s)) /\ (Has(s) /\ ~Dirty(s) => s \notin dev.cand)
    BY <1>1, <1>2, AnsweredFacts
  <1>4. CASE Cli!Ok(s) /\ cli[s].op = "confirm"
    <2> DEFINE e == [cli[s] EXCEPT !.sent = TRUE]
    <2>0. cli[s] \in Cli!Engine /\ (Has(s) <=> cli[s].configured) /\ (Dirty(s) <=> cli[s].dirty)
          /\ (Fit(s) <=> cli[s].ready) /\ Op(s) = "confirm"
      BY <1>1, <1>4, CliEntry
    <2>1. e \in Cli!Engine /\ (e.configured <=> Has(s)) /\ (e.dirty <=> Dirty(s))
          /\ (e.ready <=> Fit(s)) /\ e.op = "confirm"
      BY <1>4, <2>0 DEF Cli!Engine
    <2>2. Cli!Types(s, e, "commit") /\ UNCHANGED caller
      BY <1>4 DEF Cli!HistoryAnswered
    <2> HIDE DEF e
    <2>3. CallerSame(s) /\ CallerBeside(s) /\ CallerTyped'
      BY <1>1, <2>2, CliEntry, SameCaller
    <2>4. AskStep(s, "commit", e.configured, e.dirty, e.op) /\ Beside(s)
      BY <1>1, <2>0, <2>1, <2>2, <2>3, CliGoesOn DEF Request
    <2>5. AskStep(s, "commit", TRUE, Dirty(s), "confirm")
      BY <1>3, <2>0, <2>1, <2>4 DEF AskStep, Becomes
    <2>6. At(s) # "gone"
      BY <1>1, <1>2, <2>0 DEF CliInv
    <2>7. Good(s)
      BY <1>1, <1>2, <1>3, <2>0, <2>5, <2>6, AskCommit DEF Call
    <2>8. CliInv(s)' /\ Moves(s)
      BY <1>2, <2>5, <2>6, CliStepAsk DEF Request
    <2> QED
      BY <2>4, <2>7, <2>8 DEF CliMoved, CliKept
  <1>5. CASE ~(Cli!Ok(s) /\ cli[s].op = "confirm")
    <2>1. PICK stage \in {"asked", "spent"} :
            Cli!Ends(s, cli[s], stage) /\ (stage = "asked" => Op(s) = "history")
      BY <1>1, <1>3, <1>5, CliEntry DEF Cli!HistoryAnswered
    <2> QED
      BY <1>2, <2>1, CliEndsAnswered
  <1>6. QED
    BY <1>4, <1>5

LEMMA CliCommitAnswered ==
    ASSUME NEW s \in CliSession, CliReady(s), Cli!CommitAnswered(s), UNCHANGED net, MuxBeside(s)
    PROVE  CliMoved(s)
  <1>1. Typed /\ EditInv(s) /\ CliInv(s) /\ s \in Session /\ cli[s] \in Cli!Engine
        /\ (Has(s) <=> cli[s].configured) /\ (Dirty(s) <=> cli[s].dirty)
        /\ (Fit(s) <=> cli[s].ready)
    BY CliEntry DEF CliReady
  <1>2. Awaits(s) = "commit" /\ Answer(s) # "none" /\ Quiet(s)
        /\ (Cli!Ok(s) <=> Answer(s) = "ok")
    BY CliAnswered DEF Cli!CommitAnswered
  <1>3. "spent" \in Stage
    BY DEF Stage, Borrowed
  <1>4. PICK word \in {"committed", "failed"} :
          /\ word = "committed" <=> Answer(s) = "ok"
          /\ EndStep(s, Has(s), Dirty(s) /\ Answer(s) # "ok", Fit(s), "spent", word)
          /\ Beside(s)
    <2>1. CASE Cli!Ok(s)
      <3> DEFINE e == [cli[s] EXCEPT !.dirty = FALSE, !.sent = FALSE]
      <3>1. e \in Cli!Engine /\ e.configured = cli[s].configured /\ ~e.dirty
            /\ e.ready = cli[s].ready
        BY <1>1 DEF Cli!Engine
      <3>2. Cli!EndsTelling(s, e, "spent", "committed")
        BY <2>1 DEF Cli!CommitAnswered
      <3> HIDE DEF e
      <3>3. EndStep(s, e.configured, e.dirty, e.ready, "spent", "committed") /\ Beside(s)
        BY <1>1, <1>3, <3>1, <3>2, CliEnds
      <3>4. EndStep(s, Has(s), Dirty(s) /\ Answer(s) # "ok", Fit(s), "spent", "committed")
        BY <1>1, <1>2, <2>1, <3>1, <3>3 DEF EndStep, Becomes
      <3> QED
        BY <1>2, <2>1, <3>3, <3>4
    <2>2. CASE ~Cli!Ok(s)
      <3> DEFINE e == [cli[s] EXCEPT !.sent = FALSE]
      <3>1. e \in Cli!Engine /\ e.configured = cli[s].configured /\ e.dirty = cli[s].dirty
            /\ e.ready = cli[s].ready
        BY <1>1 DEF Cli!Engine
      <3>2. Cli!EndsTelling(s, e, "spent", "failed")
        BY <2>2 DEF Cli!CommitAnswered
      <3> HIDE DEF e
      <3>3. EndStep(s, e.configured, e.dirty, e.ready, "spent", "failed") /\ Beside(s)
        BY <1>1, <1>3, <3>1, <3>2, CliEnds
      <3>4. EndStep(s, Has(s), Dirty(s) /\ Answer(s) # "ok", Fit(s), "spent", "failed")
        BY <1>1, <1>2, <2>2, <3>1, <3>3 DEF EndStep, Becomes
      <3> QED
        BY <1>2, <2>2, <3>3, <3>4
    <2> QED
      BY <2>1, <2>2
  <1>5. Good(s)
    BY <1>1, <1>2, <1>4, EndCommit
  <1>6. CliInv(s)' /\ Moves(s)
    BY <1>1, <1>2, <1>4, CliStepEnd
  <1>7. QED
    BY <1>4, <1>5, <1>6 DEF CliMoved, CliKept

LEMMA CliRollbackAnswered ==
    ASSUME NEW s \in CliSession, CliReady(s), Cli!RollbackAnswered(s), UNCHANGED net, MuxBeside(s)
    PROVE  CliMoved(s)
  <1>1. Typed /\ EditInv(s) /\ CliInv(s) /\ s \in Session /\ cli[s] \in Cli!Engine
        /\ (Has(s) <=> cli[s].configured) /\ (Fit(s) <=> cli[s].ready) /\ Op(s) = cli[s].op
    BY CliEntry DEF CliReady
  <1>2. Awaits(s) = "rollback" /\ Answer(s) # "none" /\ Fit(s)
        /\ (Cli!Ok(s) <=> Answer(s) = "ok")
    BY CliAnswered DEF Cli!RollbackAnswered, Request
  <1>3. Op(s) \in {"release", "close"} /\ Has(s)
    BY <1>1, <1>2, AnsweredFacts
  <1>4. CASE Cli!Ok(s)
    <2>1. Cli!Exits(s, cli[s]) /\ UNCHANGED caller
      BY <1>4 DEF Cli!RollbackAnswered
    <2>2. CallerSame(s) /\ CallerBeside(s) /\ CallerTyped'
      BY <1>1, <2>1, CliEntry, SameCaller
    <2> QED
      BY <1>1, <1>2, <1>3, <1>4, <2>1, <2>2, CliExits
  <1>5. CASE ~Cli!Ok(s)
    BY <1>1, <1>5, CliTears DEF Cli!RollbackAnswered
  <1>6. QED
    BY <1>4, <1>5

LEMMA CliExitAnswered ==
    ASSUME NEW s \in CliSession, CliReady(s), Cli!ExitAnswered(s), UNCHANGED net, MuxBeside(s)
    PROVE  CliMoved(s)
  <1> DEFINE out == [cli[s] EXCEPT !.configured = FALSE]
  <1>1. Typed /\ EditInv(s) /\ CliInv(s) /\ s \in Session /\ cli[s] \in Cli!Engine
        /\ (Dirty(s) <=> cli[s].dirty) /\ (Fit(s) <=> cli[s].ready) /\ Op(s) = cli[s].op
    BY CliEntry DEF CliReady
  <1>2. Awaits(s) = "unlock" /\ Answer(s) # "none" /\ Quiet(s)
        /\ (Cli!Ok(s) <=> Answer(s) = "ok")
    BY CliAnswered DEF Cli!ExitAnswered
  <1>3. out \in Cli!Engine /\ ~out.configured /\ out.dirty = cli[s].dirty
        /\ out.ready = cli[s].ready
    BY <1>1 DEF Cli!Engine
  <1>4. IF Cli!Ok(s) /\ cli[s].op = "release" THEN Cli!Ends(s, out, "kept") ELSE Cli!Closes(s, out)
    BY DEF Cli!ExitAnswered
  <1> HIDE DEF out
  <1>5. CASE Cli!Ok(s) /\ cli[s].op = "release"
    <2>1. Cli!EndsTelling(s, out, "kept", caller[s].told) /\ "kept" \in Stage
      BY <1>4, <1>5 DEF Cli!Ends, Stage
    <2>2. EndStep(s, out.configured, out.dirty, out.ready, "kept", caller[s].told) /\ Beside(s)
      BY <1>1, <1>3, <2>1, CliEntry, CliEnds
    <2>3. EndStep(s, FALSE, Dirty(s)', Fit(s), "kept", caller[s].told) /\ (Dirty(s)' => Dirty(s))
      BY <1>1, <1>3, <2>2 DEF EndStep, Becomes
    <2>4. Good(s)
      BY <1>1, <1>2, <1>5, <2>3, EndCleaned
    <2>5. CliInv(s)' /\ Moves(s)
      BY <1>1, <1>2, <2>2, CliStepEnd
    <2> QED
      BY <2>2, <2>4, <2>5 DEF CliMoved, CliKept
  <1>6. CASE ~(Cli!Ok(s) /\ cli[s].op = "release")
    BY <1>3, <1>4, <1>6, CliTears
  <1>7. QED
    BY <1>5, <1>6

LEMMA CliProbeAnswered ==
    ASSUME NEW s \in CliSession, CliReady(s), Cli!ProbeAnswered(s), UNCHANGED net, MuxBeside(s)
    PROVE  CliMoved(s)
  <1>1. Typed /\ EditInv(s) /\ CliInv(s) /\ s \in Session /\ cli[s] \in Cli!Engine
    BY CliEntry DEF CliReady
  <1>2. Awaits(s) = "probe" /\ Answer(s) # "none"
    BY CliAnswered DEF Cli!ProbeAnswered
  <1>3. Op(s) = "reuse" /\ At(s) \in {"kept", "gone"}
    BY <1>1, <1>2, AnsweredFacts
  <1>4. CASE At(s) = "kept" /\ Cli!Vouches(s)
    BY <1>2, <1>4, CliVouched
  <1>5. CASE Cli!Closes(s, cli[s])
    BY <1>1, <1>5, CliTears
  <1>6. QED
    BY <1>3, <1>4, <1>5 DEF Cli!ProbeAnswered, At

LEMMA CliUnanswered ==
    ASSUME NEW s \in CliSession, CliReady(s), UNCHANGED net, MuxBeside(s),
           Cli!StepUnanswered(s) \/ Cli!CommitUnanswered(s) \/ Cli!CleanupUnanswered(s)
    PROVE  CliMoved(s)
  <1> DEFINE e == Cli!Lost(cli[s])
  <1>1. Typed /\ EditInv(s) /\ CliInv(s) /\ s \in Session /\ cli[s] \in Cli!Engine
        /\ (Has(s) <=> cli[s].configured) /\ (Dirty(s) <=> cli[s].dirty)
        /\ Awaits(s) = cli[s].awaits
    BY CliEntry DEF CliReady
  <1>2. e \in Cli!Engine /\ e.configured = cli[s].configured /\ e.dirty = cli[s].dirty /\ ~e.ready
    BY <1>1 DEF Cli!Lost, Cli!Engine
  <1>3. caller[s].told \in {"nothing", "committed", "failed", "unknown"} /\ "doubted" \in Stage
    BY <1>1, CliEntry DEF Stage
  <1>4. ASSUME NEW word \in {"nothing", "committed", "failed", "unknown"},
               Cli!EndsTelling(s, e, "doubted", word),
               Awaits(s) \in {"lock", "load", "diff", "check", "history", "commit"},
               word = IF Awaits(s) = "commit" THEN "unknown" ELSE caller[s].told
        PROVE  CliMoved(s)
    <2> HIDE DEF e
    <2>1. EndStep(s, e.configured, e.dirty, e.ready, "doubted", word) /\ Beside(s)
      BY <1>1, <1>2, <1>3, <1>4, CliEnds
    <2>2. EndStep(s, Has(s), Dirty(s), Fit(s)', "doubted", word) /\ ~Fit(s)'
      BY <1>1, <1>2, <2>1 DEF EndStep, Becomes
    <2>3. Good(s)
      BY <1>1, <1>4, <2>2, EndLost
    <2>4. CliInv(s)' /\ Moves(s)
      BY <1>1, <2>1, <2>2, CliStepEnd
    <2> QED
      BY <2>1, <2>3, <2>4 DEF CliMoved, CliKept
  <1>5. CASE Cli!StepUnanswered(s)
    <2>1. Cli!EndsTelling(s, e, "doubted", caller[s].told)
          /\ Awaits(s) \in {"lock", "load", "diff", "history"}
      BY <1>1, <1>5 DEF Cli!StepUnanswered, Cli!Ends, Cli!Lost
    <2> QED
      BY <1>3, <1>4, <2>1
  <1>6. CASE Cli!CommitUnanswered(s)
    <2>1. Cli!EndsTelling(s, e, "doubted", "unknown") /\ Awaits(s) = "commit"
      BY <1>1, <1>6 DEF Cli!CommitUnanswered, Cli!Lost
    <2> QED
      BY <1>4, <2>1
  <1>7. CASE Cli!CleanupUnanswered(s)
    BY <1>1, <1>7, CliTears DEF Cli!CleanupUnanswered
  <1>8. QED
    BY <1>5, <1>6, <1>7

\* A step that leaves the engine alone.
LEMMA CliRests ==
    ASSUME NEW s \in CliSession, Typed, UNCHANGED <<net, cli>>, MuxBeside(s)
    PROVE  /\ Becomes(s, Has(s), Dirty(s), Fit(s), Op(s), Awaits(s))
           /\ FlagsBeside(s) /\ FlagsTyped'
  BY DEF Becomes, Has, Dirty, Fit, Op, Awaits, FlagsBeside, Typed, FlagsTyped, NetTyped, CliTyped,
     MuxBeside

\* discard() from the manager's thread, with the transport.
LEMMA CliDrops ==
    ASSUME NEW s \in CliSession, CliReady(s), Abandons(s), Cut(s), UNCHANGED <<net, cli>>,
           MuxBeside(s)
    PROVE  CliKept(s) /\ ~Up(s)' /\ QueueSame(s) /\ (Has(s)' <=> Has(s))
  <1>1. Typed /\ EditInv(s) /\ CliInv(s) /\ s \in Session /\ DevTyped /\ CallerTyped
    BY CliEntry DEF CliReady
  <1>2. /\ Becomes(s, Has(s), Dirty(s), Fit(s), Op(s), Awaits(s))
        /\ FlagsBeside(s) /\ FlagsTyped'
    BY <1>1, CliRests
  <1>3. CutOff(s) /\ DevBeside(s) /\ DevTyped'
    BY <1>1, CutFields
  <1>4. Abandoned(s) /\ CallerBeside(s) /\ CallerTyped'
    BY <1>1, AbandonFields
  <1>5. DropStep(s) /\ (Has(s)' <=> Has(s)) /\ (Fit(s)' <=> Fit(s)) /\ (Dirty(s)' <=> Dirty(s))
    BY <1>2, <1>3, <1>4 DEF DropStep, Becomes
  <1>6. Good(s)
    BY <1>1, <1>5, Drop
  <1>7. CliInv(s)'
    BY <1>1, <1>2, <1>3 DEF CliInv, CutOff, QueueSame, Becomes, Up
  <1>8. QED
    BY <1>2, <1>3, <1>4, <1>5, <1>6, <1>7 DEF CliKept, Beside, Typed, CutOff, Up

\* Every step of an engine keeps what its session has to keep.
LEMMA CliThreadStep ==
    ASSUME NEW s \in CliSession, CliReady(s), UNCHANGED net, MuxBeside(s), Cli!CliThread(s)
    PROVE  CliMoved(s)
  BY CliEnterAnswered, CliLineAnswered, CliDiffAnswered, CliHistoryAnswered, CliCommitAnswered,
     CliRollbackAnswered, CliExitAnswered, CliProbeAnswered, CliUnanswered DEF Cli!CliThread

LEMMA CliStep ==
    ASSUME NEW s \in CliSession, CliReady(s), UNCHANGED net, MuxBeside(s),
           Cli!CliThread(s) \/ Cli!CliCall(s) \/ Cli!Discard(s)
    PROVE  CliKept(s)
  <1>1. CASE Cli!CliThread(s)
    BY <1>1, CliThreadStep DEF CliMoved
  <1>2. CASE Cli!CliCall(s)
    BY <1>2, CliEntering, CliPayloadRefused, CliCommitHistory, CliRelease, CliReuse
       DEF Cli!CliCall, CliMoved
  <1>3. CASE Cli!Discard(s)
    <2>1. Abandons(s) /\ Cut(s) /\ UNCHANGED cli
      BY <1>3, CliUses DEF Cli!Discard
    <2> QED
      BY <2>1, CliDrops
  <1>4. QED
    BY <1>1, <1>2, <1>3

-----------------------------------------------------------------------------
(* The ssh processes of an OpenSSH session                                 *)

MuxReady(s) == CliReady(s) /\ MuxInv(s)
MuxKept(s) == CliKept(s) /\ MuxInv(s)'

LEMMA MuxEntry ==
    ASSUME NEW s \in MuxSession, MuxReady(s)
    PROVE  /\ s \in CliSession /\ s \in Session /\ CliReady(s)
           /\ Typed /\ EditInv(s) /\ CliInv(s) /\ MuxInv(s)
           /\ DevTyped /\ CallerTyped /\ FlagsTyped /\ MuxTyped
           /\ cli[s] \in Cli!Engine
           /\ mux[s] \in Cli!Mux
           /\ mux[s].ready \in BOOLEAN /\ mux[s].master \in BOOLEAN
           /\ mux[s].shell \in {"none", "starting", "opening", "on", "late"}
           /\ caller[s].told \in {"nothing", "committed", "failed", "unknown"}
  <1>1. s \in CliSession /\ CliReady(s) /\ MuxInv(s)
    BY DEF MuxReady
  <1>2. Typed /\ EditInv(s) /\ CliInv(s)
    BY <1>1 DEF CliReady
  <1>3. MuxTyped
    BY <1>2 DEF Typed, FlagsTyped
  <1>4. mux[s] \in Cli!Mux
    BY <1>3 DEF MuxTyped
  <1>5. QED
    BY <1>1, <1>2, <1>3, <1>4, CliEntry DEF Cli!Mux

LEMMA MuxPut ==
    ASSUME MuxTyped, NEW s \in MuxSession, NEW m \in Cli!Mux, mux' = [mux EXCEPT ![s] = m]
    PROVE  MuxBeside(s) /\ mux'[s] = m
  BY DEF MuxTyped, MuxBeside

LEMMA MuxSame ==
    ASSUME MuxTyped, NEW s \in MuxSession, UNCHANGED mux
    PROVE  MuxBeside(s) /\ mux'[s] = mux[s]
  BY DEF MuxTyped, MuxBeside

\* Two fields of a session's processes change.
LEMMA MuxTorn ==
    ASSUME MuxTyped, NEW s \in MuxSession, Cli!Torn(s)
    PROVE  MuxBeside(s) /\ ~mux'[s].ready /\ mux'[s].shell = mux[s].shell
  <1> DEFINE m == [mux[s] EXCEPT !.ready = FALSE]
             n == [m EXCEPT !.master = FALSE]
  <1>1. mux[s] \in Cli!Mux
    BY DEF MuxTyped
  <1>2. m \in Cli!Mux /\ ~m.ready /\ m.shell = mux[s].shell
    BY <1>1 DEF Cli!Mux
  <1>3. n \in Cli!Mux /\ ~n.ready /\ n.shell = mux[s].shell
    BY <1>2 DEF Cli!Mux
  <1>4. mux' = [[mux EXCEPT ![s] = m] EXCEPT ![s] = n]
    <2>1. mux' = [mux EXCEPT ![s].ready = FALSE, ![s].master = FALSE]
      BY DEF Cli!Torn
    <2>2. [mux EXCEPT ![s] = m][s] = m
      BY DEF MuxTyped
    <2> QED
      BY <2>1, <2>2
  <1> HIDE DEF m, n
  <1>5. mux' = [mux EXCEPT ![s] = n]
    BY <1>4
  <1>6. QED
    BY <1>3, <1>5, MuxPut

\* The shell is in a new state, and the session as it was.
LEMMA MuxShell ==
    ASSUME MuxTyped, NEW s \in MuxSession,
           NEW shell \in {"none", "starting", "opening", "on", "late"},
           mux' = [mux EXCEPT ![s].shell = shell]
    PROVE  MuxBeside(s) /\ mux'[s].ready = mux[s].ready /\ mux'[s].shell = shell
  <1> DEFINE m == [mux[s] EXCEPT !.shell = shell]
  <1>1. mux[s] \in Cli!Mux
    BY DEF MuxTyped
  <1>2. m \in Cli!Mux /\ m.ready = mux[s].ready /\ m.shell = shell
    BY <1>1 DEF Cli!Mux
  <1>3. mux' = [mux EXCEPT ![s] = m]
    OBVIOUS
  <1> HIDE DEF m
  <1>4. QED
    BY <1>2, <1>3, MuxPut

\* What holds of a session without its shell, and of one that has it.
LEMMA NoShell ==
    ASSUME NEW s \in MuxSession, MuxReady(s), mux[s].shell \in {"none", "starting", "opening"}
    PROVE  /\ Quiet(s) /\ Answer(s) = "none" /\ ~Holds(s) /\ ~Has(s) /\ dev.fate[s] = "none"
           /\ mux[s].shell # "opening" => ~Up(s)
           /\ mux[s].shell # "none" =>
                 /\ Awaits(s) = "login" /\ Fit(s) /\ Clear(s)
                 /\ Op(s) \in {"load", "history"} /\ At(s) \in {"borrowed", "gone"}
                 /\ At(s) # "gone" => mux[s].ready
           /\ mux[s].shell = "none" => Awaits(s) # "login"
           /\ mux[s].shell = "none" /\ At(s) # "gone" => Fit(s)
  <1>1. EditInv(s) /\ MuxInv(s)
    BY MuxEntry
  <1>2. QED
    BY <1>1 DEF MuxInv, EditInv, ThreadInv, Follows, Clear

\* Before a call of its caller.
LEMMA MuxIdle ==
    ASSUME NEW s \in MuxSession, MuxReady(s), NEW call \in Call, Cli!Begins(s, call)
    PROVE  /\ Op(s) = "none" /\ Awaits(s) = "none" /\ May(s, call) /\ At(s) # "gone"
           /\ mux[s].shell \in {"none", "on"}
           /\ Fit(s) => Clear(s)
  <1>1. Typed /\ s \in CliSession /\ CliReady(s) /\ EditInv(s) /\ MuxInv(s) /\ CallerTyped
        /\ s \in Session /\ mux[s].shell \in {"none", "starting", "opening", "on", "late"}
    BY MuxEntry
  <1>2. Op(s) = "none" /\ May(s, call)
    BY <1>1, CliEntry, CliUses DEF Cli!Begins
  <1>3. At(s) # "gone" /\ Awaits(s) = "none" /\ (Fit(s) => Clear(s))
    BY <1>1, <1>2, Beginning, CliIdleFacts
  <1>4. QED
    BY <1>1, <1>2, <1>3 DEF MuxInv

\* A call begins that waits for one of the ssh processes.
LEMMA MuxStarts ==
    ASSUME NEW s \in MuxSession, MuxReady(s), NEW call \in Call, NEW awaits \in {"login", "exec"},
           awaits = "login" => call \in {"load", "history"},
           awaits = "exec" => call = "show",
           Cli!Begins(s, call),
           Cli!Sets(s, [Cli!Started(s, call) EXCEPT !.awaits = awaits]),
           Calls(s, call), UNCHANGED <<dev, wire, net>>, MuxBeside(s)
    PROVE  CliKept(s) /\ StartStep(s, call, awaits)
  <1>1. Typed /\ s \in CliSession /\ s \in Session /\ EditInv(s) /\ CliInv(s)
        /\ DevTyped /\ CallerTyped /\ FlagsTyped
    BY MuxEntry
  <1>2. Op(s) = "none" /\ May(s, call) /\ At(s) # "gone" /\ (Fit(s) => Clear(s))
    BY MuxIdle
  <1> DEFINE e == Cli!Started(s, call)
             m == [e EXCEPT !.awaits = awaits]
  <1>3. e \in Cli!Engine /\ (e.configured <=> Has(s)) /\ (e.dirty <=> Dirty(s))
        /\ (e.ready <=> Fit(s)) /\ e.op = call
    BY <1>1, CliStarted, CliEntry
  <1> HIDE DEF e
  <1>4. m \in Cli!Engine /\ (m.configured <=> Has(s)) /\ (m.dirty <=> Dirty(s))
        /\ (m.ready <=> Fit(s)) /\ m.op = call /\ m.awaits = awaits
    BY <1>3 DEF Cli!Engine
  <1>5. Cli!Sets(s, m)
    BY DEF e
  <1> HIDE DEF m
  <1>6. Becomes(s, m.configured, m.dirty, m.ready, m.op, m.awaits) /\ FlagsBeside(s) /\ FlagsTyped'
    BY <1>1, <1>4, <1>5, CliSet DEF MuxBeside
  <1>7. DeviceSame(s) /\ DevBeside(s) /\ DevTyped'
    BY <1>1, SameDevice
  <1>8. Called(s, call) /\ CallerBeside(s) /\ CallerTyped'
    BY <1>1, CallsFields
  <1>9. StartStep(s, call, awaits)
    BY <1>2, <1>4, <1>6, <1>7, <1>8 DEF StartStep, Becomes
  <1>10. Good(s)
    BY <1>1, <1>2, <1>9, Start
  <1>11. CliInv(s)'
    BY <1>1, <1>2, <1>9 DEF CliInv, StartStep, Becomes, Called, DeviceSame, QueueSame, Clear, Up, At
  <1>12. QED
    BY <1>6, <1>7, <1>8, <1>9, <1>10, <1>11 DEF CliKept, Beside, Typed

LEMMA MuxShellOpens ==
    ASSUME NEW s \in MuxSession, MuxReady(s), Cli!ShellOpens(s), UNCHANGED net
    PROVE  MuxKept(s)
  <1>1. MuxTyped /\ s \in Session
    BY MuxEntry
  <1>2. PICK call \in {"load", "history"} :
          /\ Cli!Begins(s, call)
          /\ mux[s].ready /\ mux[s].shell = "none"
          /\ mux' = [mux EXCEPT ![s].shell = "starting"]
          /\ Cli!Sets(s, [Cli!Started(s, call) EXCEPT !.awaits = "login"])
          /\ Cli!Calls(s, call)
          /\ UNCHANGED <<dev, wire>>
    BY DEF Cli!ShellOpens, Cli!deviceVars
  <1>3. MuxBeside(s) /\ mux'[s].ready = mux[s].ready /\ mux'[s].shell = "starting"
    BY <1>1, <1>2, MuxShell
  <1>4. call \in Call /\ Calls(s, call)
    BY <1>2, CliUses DEF Call
  <1>5. Op(s) = "none" /\ At(s) # "gone"
    BY <1>2, <1>4, MuxIdle
  <1>6. /\ Quiet(s) /\ Answer(s) = "none" /\ ~Holds(s) /\ ~Has(s) /\ dev.fate[s] = "none"
        /\ ~Up(s) /\ Fit(s)
    BY <1>2, <1>5, NoShell
  <1>7. CliKept(s) /\ StartStep(s, call, "login")
    BY <1>2, <1>3, <1>4, <1>6, MuxStarts
  <1>8. MuxInv(s)'
    BY <1>2, <1>3, <1>5, <1>6, <1>7
       DEF MuxInv, StartStep, Becomes, Called, DeviceSame, QueueSame, DevBeside, Up, Answer, Request
  <1>9. QED
    BY <1>7, <1>8 DEF MuxKept

LEMMA MuxShow ==
    ASSUME NEW s \in MuxSession, MuxReady(s), Cli!Show(s), UNCHANGED net
    PROVE  MuxKept(s)
  <1>1. MuxTyped /\ s \in Session /\ MuxInv(s) /\ CliInv(s) /\ EditInv(s)
    BY MuxEntry
  <1>2. /\ Cli!Begins(s, "show") /\ mux[s].ready
        /\ Cli!Sets(s, [Cli!Started(s, "show") EXCEPT !.awaits = "exec"])
        /\ Cli!Calls(s, "show") /\ UNCHANGED <<dev, wire, mux>>
    BY DEF Cli!Show, Cli!deviceVars
  <1>3. MuxBeside(s) /\ mux'[s] = mux[s]
    BY <1>1, <1>2, MuxSame
  <1>4. "show" \in Call /\ Calls(s, "show")
    BY <1>2, CliUses DEF Call
  <1>5. Op(s) = "none" /\ Awaits(s) = "none" /\ At(s) # "gone" /\ mux[s].shell \in {"none", "on"}
    BY <1>2, <1>4, MuxIdle
  <1>6. CliKept(s) /\ StartStep(s, "show", "exec")
    BY <1>2, <1>3, <1>4, MuxStarts
  <1>7. MuxInv(s)'
    BY <1>1, <1>2, <1>3, <1>5, <1>6
       DEF MuxInv, StartStep, Becomes, Called, DeviceSame, QueueSame, DevBeside, Up, Answer, Request
  <1>8. QED
    BY <1>6, <1>7 DEF MuxKept

LEMMA MuxShellStarts ==
    ASSUME NEW s \in MuxSession, MuxReady(s), Cli!ShellStarts(s), UNCHANGED net
    PROVE  MuxKept(s)
  <1>1. Typed /\ s \in CliSession /\ s \in Session /\ EditInv(s) /\ CliInv(s) /\ MuxInv(s)
        /\ DevTyped /\ CallerTyped /\ MuxTyped /\ mux[s] \in Cli!Mux
    BY MuxEntry
  <1>2. mux[s].shell = "starting" /\ UNCHANGED <<dev, wire, caller, cli>>
    BY DEF Cli!ShellStarts, Cli!deviceVars
  <1>3. MuxBeside(s) /\ mux'[s].ready = mux[s].ready /\ mux'[s].shell = "opening"
    <2> DEFINE m == [mux[s] EXCEPT !.shell = "opening"]
               n == [m EXCEPT !.direct = ~mux[s].master]
    <2>1. m \in Cli!Mux /\ m.ready = mux[s].ready /\ m.shell = "opening"
      BY <1>1 DEF Cli!Mux
    <2>2. n \in Cli!Mux /\ n.ready = mux[s].ready /\ n.shell = "opening"
      BY <1>1, <2>1 DEF Cli!Mux
    <2>3. mux' = [[mux EXCEPT ![s] = m] EXCEPT ![s] = n]
      <3>1. mux' = [mux EXCEPT ![s].shell = "opening", ![s].direct = ~mux[s].master]
        BY DEF Cli!ShellStarts
      <3>2. [mux EXCEPT ![s] = m][s] = m
        BY <1>1 DEF MuxTyped
      <3> QED
        BY <3>1, <3>2
    <2> HIDE DEF m, n
    <2>4. mux' = [mux EXCEPT ![s] = n]
      BY <2>3
    <2> QED
      BY <1>1, <2>2, <2>4, MuxPut
  <1>4. /\ Becomes(s, Has(s), Dirty(s), Fit(s), Op(s), Awaits(s))
        /\ FlagsBeside(s) /\ FlagsTyped'
    BY <1>1, <1>2, <1>3, CliRests
  <1>5. DeviceSame(s) /\ DevBeside(s) /\ DevTyped'
    BY <1>1, <1>2, SameDevice
  <1>6. CallerSame(s) /\ CallerBeside(s) /\ CallerTyped'
    BY <1>1, <1>2, SameCaller
  <1>7. RestStep(s)
    BY <1>4, <1>5, <1>6 DEF RestStep
  <1>8. Good(s)
    BY <1>1, <1>7, Rest
  <1>9. CliInv(s)'
    BY <1>1, <1>4, <1>5, <1>6 DEF CliInv, Becomes, CallerSame, DeviceSame, QueueSame, Up, At
  <1>10. MuxInv(s)'
    BY <1>1, <1>2, <1>3, <1>4, <1>5, <1>6, NoShell
       DEF MuxReady, MuxInv, Becomes, CallerSame, DeviceSame, QueueSame, DevBeside, Up, Answer, At, Request
  <1>11. QED
    BY <1>4, <1>5, <1>6, <1>8, <1>9, <1>10 DEF MuxKept, CliKept, Beside, Typed

LEMMA MuxShellUnstarted ==
    ASSUME NEW s \in MuxSession, MuxReady(s), Cli!ShellUnstarted(s), UNCHANGED net
    PROVE  MuxKept(s)
  <1>1. Typed /\ s \in CliSession /\ CliReady(s) /\ s \in Session /\ MuxInv(s) /\ MuxTyped
        /\ caller[s].told \in {"nothing", "committed", "failed", "unknown"}
    BY MuxEntry
  <1>2. /\ mux[s].shell = "starting" /\ Cli!Ends(s, cli[s], "spent")
        /\ mux' = [mux EXCEPT ![s].shell = "none"]
    BY DEF Cli!ShellUnstarted
  <1>3. MuxBeside(s) /\ mux'[s].ready = mux[s].ready /\ mux'[s].shell = "none"
    BY <1>1, <1>2, MuxShell
  <1>4. /\ Quiet(s) /\ Answer(s) = "none" /\ ~Holds(s) /\ ~Has(s) /\ dev.fate[s] = "none"
        /\ ~Up(s) /\ Fit(s) /\ Awaits(s) = "login" /\ At(s) # "doubted"
    BY <1>2, NoShell
  <1>5. CliMoved(s)
    BY <1>1, <1>2, <1>3, <1>4, CliEndsUnasked
  <1>6. EndStep(s, Has(s), Dirty(s), Fit(s), "spent", caller[s].told)
    BY <1>1, <1>2, <1>3, CliEndsHere DEF Cli!Ends, Stage, Borrowed
  <1>7. MuxInv(s)'
    BY <1>1, <1>2, <1>3, <1>4, <1>6
       DEF MuxInv, EndStep, Becomes, Returned, CallerSame, ReadFrom, QueueSame, DevBeside, Up, Answer, At, Request
  <1>8. QED
    BY <1>5, <1>7 DEF MuxKept, CliMoved

LEMMA MuxShellConnects ==
    ASSUME NEW s \in MuxSession, MuxReady(s), Cli!ShellConnects(s), UNCHANGED net
    PROVE  MuxKept(s)
  <1>1. Typed /\ s \in CliSession /\ s \in Session /\ EditInv(s) /\ CliInv(s) /\ MuxInv(s)
        /\ DevTyped /\ CallerTyped /\ MuxTyped
    BY MuxEntry
  <1>2. mux[s].shell = "opening" /\ Connect(s) /\ UNCHANGED <<mux, cli, caller>>
    BY CliUses DEF Cli!ShellConnects
  <1>3. MuxBeside(s) /\ mux'[s] = mux[s]
    BY <1>1, <1>2, MuxSame
  <1>4. /\ Quiet(s) /\ Answer(s) = "none" /\ ~Holds(s) /\ ~Has(s) /\ dev.fate[s] = "none"
        /\ Fit(s) /\ Awaits(s) = "login" /\ Op(s) \in {"load", "history"}
    BY <1>2, NoShell
  <1>5. /\ Becomes(s, Has(s), Dirty(s), Fit(s), Op(s), Awaits(s))
        /\ FlagsBeside(s) /\ FlagsTyped'
    BY <1>1, <1>2, <1>3, CliRests
  <1>6. Connected(s) /\ DevBeside(s) /\ DevTyped'
    BY <1>1, <1>2, ConnectFields
  <1>7. CallerSame(s) /\ CallerBeside(s) /\ CallerTyped'
    BY <1>1, <1>2, SameCaller
  <1>8. ConnectStep(s)
    BY <1>5, <1>6, <1>7 DEF ConnectStep
  <1>9. Good(s)
    BY <1>1, <1>4, <1>8, Connecting
  <1>10. CliInv(s)'
    BY <1>1, <1>4, <1>5, <1>6, <1>7 DEF CliInv, Becomes, CallerSame, Connected, QueueSame, Up, At
  <1>11. MuxInv(s)'
    BY <1>1, <1>2, <1>3, <1>4, <1>5, <1>6, <1>7
       DEF MuxInv, Becomes, CallerSame, Connected, QueueSame, DevBeside, Up, Answer, At, Request
  <1>12. QED
    BY <1>5, <1>6, <1>7, <1>9, <1>10, <1>11 DEF MuxKept, CliKept, Beside, Typed

\* Once the shell is on, the engine's steps keep what the processes have to keep.
LEMMA MuxOn ==
    ASSUME NEW s \in MuxSession, CliMoved(s),
           mux'[s].shell \in {"on", "late"},
           mux'[s].shell = "late" => At(s) = "gone" /\ dev.fate[s] = "none",
           At(s)' = "gone" => ~mux'[s].ready,
           At(s) = "gone" /\ Up(s) => mux'[s].shell = "late"
    PROVE  MuxKept(s)
  <1>1. Good(s) /\ CliInv(s)' /\ Moves(s)
    BY DEF CliMoved, CliKept
  <1>2. dev'.fate[s] \in {dev.fate[s], "sent", "none"}
    BY <1>1 DEF Good, Plays
  <1>3. mux'[s].shell = "late" => At(s)' = "gone" /\ dev'.fate[s] = "none"
    <2> SUFFICES ASSUME mux'[s].shell = "late"
                 PROVE  At(s)' = "gone" /\ dev'.fate[s] = "none"
      OBVIOUS
    <2>1. At(s)' = "gone"
      BY <1>1 DEF Moves
    <2>2. dev'.fate[s] = "sent" => Up(s)'
      BY <1>1 DEF Moves
    <2>3. Up(s)' => dev'.fate[s] = "none"
      BY <1>1, <2>1 DEF CliInv
    <2> QED
      BY <1>2, <2>1, <2>2, <2>3
  <1>4. At(s)' = "gone" /\ Up(s)' => mux'[s].shell = "late"
    BY <1>1 DEF Moves
  <1>5. Awaits(s)' # "login"
    BY <1>1 DEF Moves, Request
  <1>6. QED
    BY <1>3, <1>4, <1>5 DEF MuxKept, CliMoved, MuxInv

LEMMA MuxShellReady ==
    ASSUME NEW s \in MuxSession, MuxReady(s), Cli!ShellReady(s), UNCHANGED net
    PROVE  MuxKept(s)
  <1>1. Typed /\ s \in CliSession /\ CliReady(s) /\ s \in Session /\ EditInv(s) /\ CliInv(s)
        /\ MuxInv(s) /\ MuxTyped /\ CallerTyped /\ cli[s] \in Cli!Engine
        /\ (Has(s) <=> cli[s].configured) /\ (Dirty(s) <=> cli[s].dirty)
        /\ (Fit(s) <=> cli[s].ready) /\ Op(s) = cli[s].op
        /\ caller[s].told \in {"nothing", "committed", "failed", "unknown"}
    BY MuxEntry, CliEntry
  <1>2. PICK shell \in {"on", "late"} :
          /\ mux' = [mux EXCEPT ![s].shell = shell]
          /\ shell = "on" <=> mux[s].ready
    BY DEF Cli!ShellReady
  <1>3. mux[s].shell = "opening" /\ wire[s].up
    BY DEF Cli!ShellReady
  <1>4. MuxBeside(s) /\ mux'[s].ready = mux[s].ready /\ mux'[s].shell = shell
    BY <1>1, <1>2, MuxShell
  <1>5. /\ Quiet(s) /\ ~Has(s) /\ dev.fate[s] = "none" /\ Clear(s)
        /\ Fit(s) /\ Awaits(s) = "login" /\ Op(s) \in {"load", "history"} /\ At(s) # "doubted"
        /\ At(s) # "gone" => mux[s].ready
        /\ At(s) = "gone" => ~mux[s].ready
    BY <1>1, <1>3, NoShell DEF MuxInv
  <1>6. CliMoved(s) /\ (At(s)' = "gone" => At(s) = "gone")
    <2>1. CASE cli[s].op = "load" /\ Cli!Enters(s, cli[s]) /\ UNCHANGED caller
      <3>1. CallerSame(s) /\ CallerBeside(s) /\ CallerTyped'
        BY <1>1, <2>1, SameCaller
      <3>2. CliMoved(s)
        BY <1>1, <1>4, <1>5, <2>1, <3>1, CliEnters
      <3> QED
        BY <3>1, <3>2 DEF CallerSame
    <2>2. CASE cli[s].op = "history" /\ Cli!Types(s, cli[s], "history") /\ UNCHANGED caller
      <3>1. CallerSame(s) /\ CallerBeside(s) /\ CallerTyped'
        BY <1>1, <2>2, SameCaller
      <3>2. AskStep(s, "history", cli[s].configured, cli[s].dirty, cli[s].op) /\ Beside(s)
        BY <1>1, <1>4, <2>2, <3>1, CliGoesOn DEF Request
      <3>3. AskStep(s, "history", Has(s), Dirty(s), "history")
        BY <1>1, <2>2, <3>2 DEF AskStep, Becomes
      <3>4. Good(s)
        BY <1>1, <1>5, <3>3, AskHistory DEF Call
      <3>5. CliInv(s)' /\ Moves(s)
        BY <1>1, <1>5, <3>3, CliStepAsk DEF Request
      <3> QED
        BY <3>1, <3>2, <3>4, <3>5 DEF CliMoved, CliKept, CallerSame
    <2>3. CASE cli[s].op = "load" /\ Cli!Ends(s, cli[s], "spent")
      <3>1. CliMoved(s)
        BY <1>1, <1>4, <1>5, <2>3, CliEndsUnasked
      <3>2. EndStep(s, Has(s), Dirty(s), Fit(s), "spent", caller[s].told)
        BY <1>1, <1>4, <2>3, CliEndsHere DEF Cli!Ends, Stage, Borrowed
      <3> QED
        BY <3>1, <3>2 DEF EndStep, Returned
    <2> QED
      BY <2>1, <2>2, <2>3 DEF Cli!ShellReady
  <1>7. QED
    BY <1>2, <1>4, <1>5, <1>6, MuxOn

\* An ssh process ends, and the shell's transport with it.
LEMMA MuxCuts ==
    ASSUME NEW s \in MuxSession, MuxReady(s), NEW stage \in {"doubted", "spent"},
           Cli!Sets(s, Cli!Idle(cli[s])), Cut(s), ReturnsTelling(s, stage, caller[s].told),
           UNCHANGED net, MuxBeside(s), Awaits(s) \in {"login", "exec"}
    PROVE  CliKept(s) /\ CutShort(s, stage, caller[s].told)
  <1>1. Typed /\ s \in CliSession /\ s \in Session /\ EditInv(s) /\ CliInv(s)
        /\ cli[s] \in Cli!Engine
        /\ (Has(s) <=> cli[s].configured) /\ (Dirty(s) <=> cli[s].dirty)
        /\ (Fit(s) <=> cli[s].ready)
    BY MuxEntry, CliEntry
  <1>2. stage \in Stage
    BY DEF Stage, Borrowed
  <1>3. /\ Becomes(s, cli[s].configured, cli[s].dirty, cli[s].ready, "none", "none")
        /\ CutOff(s) /\ Returned(s, stage, caller[s].told) /\ Beside(s)
    BY <1>1, <1>2, CliCuts
  <1>4. CutShort(s, stage, caller[s].told)
    BY <1>1, <1>3 DEF CutShort, Becomes, Beside
  <1>5. At(s) # "doubted"
    BY <1>1 DEF EditInv, ThreadInv, Follows
  <1>6. Good(s)
    BY <1>1, <1>4, <1>5, TearUnasked
  <1>7. CliInv(s)'
    BY <1>1, <1>4 DEF CliInv, CutShort, Becomes, CutOff, QueueSame, Up
  <1>8. QED
    BY <1>3, <1>4, <1>6, <1>7 DEF CliKept

LEMMA MuxShellFails ==
    ASSUME NEW s \in MuxSession, MuxReady(s), Cli!ShellFails(s), UNCHANGED net
    PROVE  MuxKept(s)
  <1> DEFINE m == [ready |-> FALSE, master |-> FALSE, direct |-> FALSE, shell |-> "none"]
  <1>1. MuxTyped /\ s \in Session /\ MuxInv(s)
    BY MuxEntry
  <1>2. PICK stage \in {"doubted", "spent"} :
          /\ mux[s].shell = "opening" /\ mux' = [mux EXCEPT ![s] = m]
          /\ Cli!Sets(s, Cli!Idle(cli[s])) /\ Cut(s)
          /\ ReturnsTelling(s, stage, caller[s].told)
    BY CliUses DEF Cli!ShellFails
  <1>3. m \in Cli!Mux /\ ~m.ready /\ m.shell = "none"
    BY DEF Cli!Mux
  <1> HIDE DEF m
  <1>4. MuxBeside(s) /\ ~mux'[s].ready /\ mux'[s].shell = "none"
    BY <1>1, <1>2, <1>3, MuxPut
  <1>5. /\ Quiet(s) /\ Answer(s) = "none" /\ ~Holds(s) /\ ~Has(s) /\ dev.fate[s] = "none"
        /\ Fit(s) /\ Awaits(s) = "login"
    BY <1>2, NoShell
  <1>6. CliKept(s) /\ CutShort(s, stage, caller[s].told)
    BY <1>2, <1>4, <1>5, MuxCuts
  <1>7. MuxInv(s)'
    BY <1>1, <1>2, <1>4, <1>5, <1>6
       DEF MuxInv, CutShort, Becomes, CutOff, QueueSame, DevBeside, Up, Answer, Request
  <1>8. QED
    BY <1>6, <1>7 DEF MuxKept

LEMMA MuxShowEnds ==
    ASSUME NEW s \in MuxSession, MuxReady(s), Cli!ShowEnds(s), UNCHANGED net
    PROVE  MuxKept(s)
  <1>1. Typed /\ s \in CliSession /\ CliReady(s) /\ s \in Session /\ EditInv(s) /\ MuxInv(s)
        /\ MuxTyped /\ Awaits(s) = cli[s].awaits
        /\ caller[s].told \in {"nothing", "committed", "failed", "unknown"}
    BY MuxEntry, CliEntry
  <1>2. Awaits(s) = "exec" /\ Cli!Ends(s, cli[s], "spent") /\ UNCHANGED mux
    BY <1>1 DEF Cli!ShowEnds
  <1>3. MuxBeside(s) /\ mux'[s] = mux[s]
    BY <1>1, <1>2, MuxSame
  <1>4. At(s) # "doubted"
    BY <1>1, <1>2 DEF EditInv, ThreadInv, Follows
  <1>5. CliMoved(s)
    BY <1>1, <1>2, <1>3, <1>4, CliEndsUnasked
  <1>6. EndStep(s, Has(s), Dirty(s), Fit(s), "spent", caller[s].told)
    BY <1>1, <1>2, <1>3, CliEndsHere DEF Cli!Ends, Stage, Borrowed
  <1>7. MuxInv(s)'
    BY <1>1, <1>2, <1>3, <1>6
       DEF MuxInv, EndStep, Becomes, Returned, CallerSame, ReadFrom, QueueSame, DevBeside, Up, Answer, At, Request
  <1>8. QED
    BY <1>5, <1>7 DEF MuxKept, CliMoved

LEMMA MuxShowLost ==
    ASSUME NEW s \in MuxSession, MuxReady(s), Cli!ShowLost(s), UNCHANGED net
    PROVE  MuxKept(s)
  <1>1. Typed /\ s \in CliSession /\ s \in Session /\ MuxInv(s)
        /\ MuxTyped /\ Awaits(s) = cli[s].awaits
    BY MuxEntry, CliEntry
  <1>2. Awaits(s) = "exec" /\ Cli!Torn(s) /\ Cli!Sets(s, Cli!Idle(cli[s]))
        /\ ReturnsTelling(s, "doubted", caller[s].told)
    BY <1>1, CliUses DEF Cli!ShowLost
  <1>3. MuxBeside(s) /\ ~mux'[s].ready /\ mux'[s].shell = mux[s].shell
    BY <1>1, <1>2, MuxTorn
  <1>4. mux[s].shell \notin {"starting", "opening"}
    BY <1>1, <1>2 DEF MuxInv
  <1>5. Cut(s)
    BY <1>4, CliUses DEF Cli!ShowLost, Cli!CutReached
  <1>6. CliKept(s) /\ CutShort(s, "doubted", caller[s].told)
    BY <1>2, <1>3, <1>5, MuxCuts
  <1>7. MuxInv(s)'
    BY <1>1, <1>2, <1>3, <1>4, <1>6
       DEF MuxInv, CutShort, Becomes, Returned, CallerSame, CutOff, QueueSame, DevBeside, Up, Answer, At, Request
  <1>8. QED
    BY <1>6, <1>7 DEF MuxKept

\* The session is closed between two calls.
LEMMA MuxCloses ==
    ASSUME NEW s \in MuxSession, MuxReady(s), Cli!Closes(s, cli[s]), Cli!Torn(s), UNCHANGED net,
           Awaits(s) = "none", At(s) # "gone"
    PROVE  MuxKept(s)
  <1>1. Typed /\ s \in CliSession /\ CliReady(s) /\ s \in Session /\ MuxInv(s)
        /\ MuxTyped /\ cli[s] \in Cli!Engine /\ (Has(s) <=> cli[s].configured)
    BY MuxEntry, CliEntry
  <1>2. MuxBeside(s) /\ ~mux'[s].ready /\ mux'[s].shell = mux[s].shell
    BY <1>1, MuxTorn
  <1>3. CliMoved(s)
    BY <1>1, <1>2, CliTears
  <1>4. TearStep(s, "gone", caller[s].told) /\ (Has(s)' <=> Has(s))
    BY <1>1, <1>2, CliCloses
  <1>5. MuxInv(s)'
    BY <1>1, <1>2, <1>4
       DEF MuxInv, TearStep, Returned, CutOff, QueueSame, DevBeside, Up, Answer, At, Request
  <1>6. QED
    BY <1>3, <1>5 DEF MuxKept, CliMoved

LEMMA MuxRelease ==
    ASSUME NEW s \in MuxSession, MuxReady(s), Cli!MuxRelease(s), UNCHANGED net
    PROVE  MuxKept(s)
  <1>1. Typed /\ s \in CliSession /\ CliReady(s) /\ s \in Session /\ MuxInv(s)
        /\ MuxTyped /\ CallerTyped
        /\ caller[s].told \in {"nothing", "committed", "failed", "unknown"}
    BY MuxEntry
  <1>2. PICK call \in {"release", "close"} :
          /\ ~mux[s].ready \/ mux[s].shell = "none"
          /\ Cli!Begins(s, call)
          /\ IF mux[s].ready /\ call = "release"
             THEN Cli!Ends(s, cli[s], "kept") /\ UNCHANGED mux
             ELSE Cli!Closes(s, cli[s]) /\ Cli!Torn(s)
    BY DEF Cli!MuxRelease
  <1>3. call \in Call
    BY <1>2 DEF Call
  <1>4. Op(s) = "none" /\ Awaits(s) = "none" /\ May(s, call) /\ At(s) # "gone"
    BY <1>2, <1>3, MuxIdle
  <1>5. CASE mux[s].ready /\ call = "release"
    <2>1. Cli!Ends(s, cli[s], "kept") /\ UNCHANGED mux /\ mux[s].shell = "none"
      BY <1>2, <1>5
    <2>2. MuxBeside(s) /\ mux'[s] = mux[s]
      BY <1>1, <2>1, MuxSame
    <2>3. Fit(s) /\ ~Has(s)
      BY <1>4, <2>1, NoShell
    <2>4. At(s) # "doubted"
      BY <1>1, <1>3, <1>4, <1>5, Beginning DEF Borrowed
    <2>5. CliMoved(s)
      BY <1>1, <1>4, <2>1, <2>2, <2>3, <2>4, CliEndsUnasked
    <2>6. EndStep(s, Has(s), Dirty(s), Fit(s), "kept", caller[s].told)
      BY <1>1, <2>1, <2>2, CliEndsHere DEF Cli!Ends, Stage, Borrowed
    <2>7. MuxInv(s)'
      BY <1>1, <1>4, <2>1, <2>2, <2>6
         DEF MuxInv, EndStep, Becomes, Returned, CallerSame, ReadFrom, QueueSame, DevBeside, Up, Answer, At, Request
    <2> QED
      BY <2>5, <2>7 DEF MuxKept, CliMoved
  <1>6. CASE ~(mux[s].ready /\ call = "release")
    BY <1>2, <1>4, <1>6, MuxCloses
  <1>7. QED
    BY <1>5, <1>6

LEMMA MuxReuse ==
    ASSUME NEW s \in MuxSession, MuxReady(s), Cli!MuxReuse(s), UNCHANGED net
    PROVE  MuxKept(s)
  <1>1. Typed /\ s \in CliSession /\ CliReady(s) /\ s \in Session /\ MuxInv(s)
        /\ MuxTyped /\ CallerTyped
    BY MuxEntry
  <1>2. Cli!Begins(s, "reuse") /\ "reuse" \in Call
    BY DEF Cli!MuxReuse, Call
  <1>3. Op(s) = "none" /\ Awaits(s) = "none" /\ May(s, "reuse") /\ At(s) # "gone"
    BY <1>2, MuxIdle
  <1>4. At(s) = "kept"
    BY <1>1, <1>2, <1>3, Beginning
  <1>5. CASE Cli!Closes(s, cli[s]) /\ Cli!Torn(s)
    BY <1>3, <1>5, MuxCloses
  <1>6. CASE mux[s].shell \in {"none", "on"} /\ Cli!Vouches(s) /\ UNCHANGED mux
    <2>1. MuxBeside(s) /\ mux'[s] = mux[s]
      BY <1>1, <1>6, MuxSame
    <2>2. CliMoved(s)
      BY <1>1, <1>3, <1>4, <1>6, <2>1, CliVouched
    <2>3. VouchStep(s)
      BY <1>1, <1>6, <2>1, CliVouches
    <2>4. MuxInv(s)'
      BY <1>1, <1>3, <1>4, <1>6, <2>1, <2>3
         DEF MuxInv, VouchStep, Becomes, Renewed, QueueSame, DevBeside, Up, Answer, At, Request
    <2> QED
      BY <2>2, <2>4 DEF MuxKept, CliMoved
  <1>7. CASE /\ mux[s].ready /\ mux[s].shell = "on" /\ cli[s].ready /\ UNCHANGED mux
             /\ Cli!Types(s, Cli!Started(s, "reuse"), "probe") /\ Cli!Calls(s, "reuse")
    <2>1. MuxBeside(s) /\ mux'[s] = mux[s]
      BY <1>1, <1>7, MuxSame
    <2>2. CliMoved(s)
      BY <1>1, <1>2, <1>7, <2>1, CliProbes
    <2>3. At(s)' = At(s)
      BY <1>1, <1>7, CliUses, CallsFields DEF Called, Call
    <2> QED
      BY <1>3, <1>7, <2>1, <2>2, <2>3, MuxOn
  <1>8. QED
    BY <1>5, <1>6, <1>7 DEF Cli!MuxReuse

\* discard(), with the shell's transport or without it.
LEMMA MuxDiscard ==
    ASSUME NEW s \in MuxSession, MuxReady(s), Cli!MuxDiscard(s), UNCHANGED net
    PROVE  MuxKept(s)
  <1>1. Typed /\ s \in CliSession /\ CliReady(s) /\ s \in Session /\ EditInv(s) /\ CliInv(s)
        /\ MuxInv(s) /\ MuxTyped /\ DevTyped /\ CallerTyped
    BY MuxEntry
  <1>2. Abandons(s) /\ Cli!Torn(s) /\ UNCHANGED cli
    BY CliUses DEF Cli!MuxDiscard
  <1>3. MuxBeside(s) /\ ~mux'[s].ready /\ mux'[s].shell = mux[s].shell
    BY <1>1, <1>2, MuxTorn
  <1>4. /\ Becomes(s, Has(s), Dirty(s), Fit(s), Op(s), Awaits(s))
        /\ FlagsBeside(s) /\ FlagsTyped'
    BY <1>1, <1>2, <1>3, CliRests
  <1>5. Abandoned(s) /\ CallerBeside(s) /\ CallerTyped'
    BY <1>1, <1>2, AbandonFields
  <1>6. CASE Cut(s)
    <2>1. CliKept(s)
      BY <1>1, <1>2, <1>3, <1>6, CliDrops
    <2>2. CutOff(s) /\ DevBeside(s)
      BY <1>1, <1>6, CutFields
    <2>3. MuxInv(s)'
      BY <1>1, <1>3, <1>4, <1>5, <2>2
         DEF MuxInv, Becomes, Abandoned, CutOff, QueueSame, DevBeside, Up, Answer, At, Request
    <2> QED
      BY <2>1, <2>3 DEF MuxKept
  <1>7. CASE mux[s].shell \in {"starting", "opening"} /\ Read(s)
    <2>1. ReadFrom(s) /\ DevBeside(s) /\ DevTyped'
      BY <1>1, <1>7, ReadFields
    <2>2. /\ Quiet(s) /\ Answer(s) = "none" /\ ~Holds(s) /\ ~Has(s) /\ dev.fate[s] = "none"
          /\ mux[s].shell # "opening" => ~Up(s)
          /\ Fit(s) /\ Awaits(s) = "login" /\ Op(s) \in {"load", "history"}
      BY <1>7, NoShell
    <2>3. DropUncut(s)
      BY <1>4, <1>5, <2>1 DEF DropUncut
    <2>4. Good(s)
      BY <1>1, <2>2, <2>3, DropShell
    <2>5. CliInv(s)'
      BY <1>1, <1>4, <2>1, <2>2 DEF CliInv, Becomes, ReadFrom, QueueSame, Up
    <2>6. MuxInv(s)'
      BY <1>1, <1>3, <1>4, <1>5, <1>7, <2>1, <2>2
         DEF MuxInv, Becomes, Abandoned, ReadFrom, QueueSame, DevBeside, Up, Answer, At, Request
    <2> QED
      BY <1>4, <1>5, <2>1, <2>4, <2>5, <2>6 DEF MuxKept, CliKept, Beside, Typed
  <1>8. QED
    BY <1>6, <1>7, CliUses DEF Cli!MuxDiscard, Cli!CutReached

LEMMA MuxMasterDies ==
    ASSUME NEW s \in MuxSession, MuxReady(s), Cli!MasterDies(s), UNCHANGED net
    PROVE  MuxKept(s)
  <1>1. Typed /\ s \in CliSession /\ CliReady(s) /\ s \in Session /\ EditInv(s) /\ CliInv(s)
        /\ MuxInv(s) /\ MuxTyped /\ DevTyped /\ CallerTyped /\ mux[s] \in Cli!Mux
    BY MuxEntry
  <1>2. UNCHANGED <<caller, cli>>
    BY DEF Cli!MasterDies
  <1>3. MuxBeside(s) /\ mux'[s].ready = mux[s].ready /\ mux'[s].shell = mux[s].shell
    <2> DEFINE m == [mux[s] EXCEPT !.master = FALSE]
    <2>1. m \in Cli!Mux /\ m.ready = mux[s].ready /\ m.shell = mux[s].shell
      BY <1>1 DEF Cli!Mux
    <2>2. mux' = [mux EXCEPT ![s] = m]
      BY DEF Cli!MasterDies
    <2> HIDE DEF m
    <2> QED
      BY <1>1, <2>1, <2>2, MuxPut
  <1>4. /\ Becomes(s, Has(s), Dirty(s), Fit(s), Op(s), Awaits(s))
        /\ FlagsBeside(s) /\ FlagsTyped'
    BY <1>1, <1>2, <1>3, CliRests
  <1>5. CallerSame(s) /\ CallerBeside(s) /\ CallerTyped'
    BY <1>1, <1>2, SameCaller
  <1>6. CASE UNCHANGED <<dev, wire>>
    <2>1. DeviceSame(s) /\ DevBeside(s) /\ DevTyped'
      BY <1>1, <1>6, SameDevice
    <2>2. Good(s)
      BY <1>1, <1>4, <1>5, <2>1, Rest DEF RestStep
    <2>3. CliInv(s)'
      BY <1>1, <1>4, <1>5, <2>1 DEF CliInv, Becomes, CallerSame, DeviceSame, QueueSame, Up, At
    <2>4. MuxInv(s)'
      BY <1>1, <1>3, <1>4, <1>5, <2>1
         DEF MuxInv, Becomes, CallerSame, DeviceSame, QueueSame, DevBeside, Up, Answer, At, Request
    <2> QED
      BY <1>4, <1>5, <2>1, <2>2, <2>3, <2>4 DEF MuxKept, CliKept, Beside, Typed
  <1>7. CASE Cut(s)
    <2>1. CutOff(s) /\ DevBeside(s) /\ DevTyped'
      BY <1>1, <1>7, CutFields
    <2>2. Good(s)
      BY <1>1, <1>4, <1>5, <2>1, Lose DEF LoseStep
    <2>3. CliInv(s)'
      BY <1>1, <1>4, <1>5, <2>1 DEF CliInv, Becomes, CallerSame, CutOff, QueueSame, Up, At
    <2>4. MuxInv(s)'
      BY <1>1, <1>3, <1>4, <1>5, <2>1
         DEF MuxInv, Becomes, CallerSame, CutOff, QueueSame, DevBeside, Up, Answer, At, Request
    <2> QED
      BY <1>4, <1>5, <2>1, <2>2, <2>3, <2>4 DEF MuxKept, CliKept, Beside, Typed
  <1>8. QED
    BY <1>6, <1>7, CliUses DEF Cli!MasterDies, Cli!deviceVars

LEMMA MuxOnShell ==
    ASSUME NEW s \in MuxSession, MuxReady(s), Cli!OnShell(s), UNCHANGED net
    PROVE  MuxKept(s)
  <1>1. Typed /\ s \in CliSession /\ CliReady(s) /\ s \in Session /\ MuxInv(s) /\ MuxTyped
    BY MuxEntry
  <1>2. /\ mux[s].shell \in {"on", "late"}
        /\ IF caller'[s].stage = "gone" THEN Cli!Torn(s) ELSE UNCHANGED mux
    BY DEF Cli!OnShell
  <1>3. MuxBeside(s) /\ mux'[s].shell = mux[s].shell
        /\ (caller'[s].stage = "gone" => ~mux'[s].ready)
    BY <1>1, <1>2, MuxTorn, MuxSame
  <1>4. CliMoved(s)
    BY <1>1, <1>3, CliThreadStep, CliEntering, CliPayloadRefused, CliCommitHistory, CliRelease
       DEF Cli!OnShell
  <1>5. /\ mux[s].shell = "late" => At(s) = "gone" /\ dev.fate[s] = "none"
        /\ At(s) = "gone" /\ Up(s) => mux[s].shell = "late"
    BY <1>1, <1>2 DEF MuxInv
  <1>6. QED
    BY <1>2, <1>3, <1>4, <1>5, MuxOn DEF At

\* Every step of an OpenSSH session keeps what the session has to keep.
LEMMA MuxStep ==
    ASSUME NEW s \in MuxSession, MuxReady(s), UNCHANGED net,
           \/ Cli!ShellOpens(s) \/ Cli!ShellStarts(s) \/ Cli!ShellUnstarted(s)
           \/ Cli!ShellConnects(s) \/ Cli!ShellReady(s) \/ Cli!ShellFails(s)
           \/ Cli!Show(s) \/ Cli!ShowEnds(s) \/ Cli!ShowLost(s)
           \/ Cli!MuxRelease(s) \/ Cli!MuxReuse(s) \/ Cli!MuxDiscard(s)
           \/ Cli!MasterDies(s) \/ Cli!OnShell(s)
    PROVE  MuxKept(s)
  BY MuxShellOpens, MuxShellStarts, MuxShellUnstarted, MuxShellConnects, MuxShellReady,
     MuxShellFails, MuxShow, MuxShowEnds, MuxShowLost, MuxRelease, MuxReuse, MuxDiscard,
     MuxMasterDies, MuxOnShell

-----------------------------------------------------------------------------
(* Sessions that a step leaves alone                                       *)

\* Nothing about q changes but, at most, others' lines in the candidate.
Alike(q) ==
    /\ Becomes(q, Has(q), Dirty(q), Fit(q), Op(q), Awaits(q))
    /\ DeviceSame(q) /\ CallerSame(q)
    /\ Holds(q)' <=> Holds(q)
    /\ q \in dev'.cand <=> q \in dev.cand
    /\ q \in MuxSession => mux'[q] = mux[q]

LEMMA AlikeKept ==
    ASSUME NEW q \in Session, SessionInv(q), Alike(q)
    PROVE  SessionInv(q)'
  <1> USE DEF Alike, Becomes, DeviceSame, QueueSame, CallerSame
  <1>1. EditInv(q)
    BY DEF SessionInv
  <1>2. {"load", "commit", "rollback", "unlock", "lock"} \subseteq Request
    BY DEF Request
  <1>3. DeviceInv(q)'
    BY <1>1, <1>2 DEF EditInv, DeviceInv, Up, Answer
  <1>4. ThreadInv(q)'
    BY <1>1 DEF EditInv, ThreadInv
  <1>5. QueueInv(q)'
    BY <1>1, <1>2 DEF EditInv, QueueInv, Up, Answer
  <1>6. LockInv(q)'
    BY <1>1, <1>2 DEF EditInv, LockInv, Up, Answer
  <1>7. CommitInv(q)'
    BY <1>1 DEF EditInv, CommitInv, Up, Answer
  <1>8. NetInv(q) => NetInv(q)'
    BY DEF NetInv, Up
  <1>9. CliInv(q) => CliInv(q)'
    BY DEF CliInv, Up
  <1>10. q \in MuxSession /\ MuxInv(q) => MuxInv(q)'
    BY DEF MuxInv, Up, Answer
  <1>11. QED
    BY <1>3, <1>4, <1>5, <1>6, <1>7, <1>8, <1>9, <1>10 DEF SessionInv, EditInv

LEMMA BesideAlike ==
    ASSUME NEW s \in Session, NEW q \in Session, q # s, Beside(s)
    PROVE  Alike(q)
  <1>1. wire'[q] = wire[q] /\ dev'.fate[q] = dev.fate[q] /\ dev'.holder = dev.holder
        /\ dev'.cand = dev.cand /\ caller'[q] = caller[q]
    BY DEF Beside, DevBeside, CallerBeside
  <1>2. /\ q \in NetSession => net'[q] = net[q]
        /\ q \in CliSession => cli'[q] = cli[q]
        /\ q \in MuxSession => mux'[q] = mux[q]
    BY DEF Beside, FlagsBeside
  <1>3. QueueSame(q)
    BY <1>1, SameQueue
  <1>4. Becomes(q, Has(q), Dirty(q), Fit(q), Op(q), Awaits(q))
    BY <1>2 DEF Becomes, Has, Dirty, Fit, Op, Awaits
  <1>5. QED
    BY <1>1, <1>2, <1>3, <1>4 DEF Alike, DeviceSame, CallerSame, Holds, At

\* The invariant, with the requests on a wire as a sequence.
Inductive == Typed /\ Exclusive /\ \A s \in Session : SessionInv(s)

\* What the step of a session comes to.
SessionStep(s) == Good(s) /\ Beside(s) /\ SessionInv(s)'

LEMMA StepKept ==
    ASSUME Inductive, NEW s \in Session, SessionStep(s)
    PROVE  Inductive'
  <1>1. \A q \in Session : SessionInv(q)'
    BY BesideAlike, AlikeKept DEF Inductive, SessionStep
  <1>2. Exclusive'
    BY DEF Inductive, Exclusive, SessionStep, Beside, DevBeside
  <1>3. QED
    BY <1>1, <1>2 DEF Inductive, SessionStep, Beside

LEMMA NetSessionStep ==
    ASSUME Inductive, Netconf!NetNext, UNCHANGED <<cli, mux>>
    PROVE  \E s \in Session : SessionStep(s)
  <1>1. PICK s \in NetSession : Netconf!NetThread(s) \/ Netconf!NetCall(s) \/ Netconf!Discard(s)
    BY DEF Netconf!NetNext
  <1>2. s \in Session /\ s \notin CliSession /\ s \notin MuxSession
    BY NetIsNotCli
  <1>3. NetReady(s)
    BY <1>2 DEF Inductive, SessionInv, NetReady
  <1>4. NetKept(s)
    BY <1>1, <1>3, NetStep
  <1>5. SessionStep(s)
    BY <1>2, <1>4 DEF NetKept, Good, SessionStep, SessionInv
  <1>6. QED
    BY <1>2, <1>5

LEMMA CliSessionStep ==
    ASSUME Inductive, Cli!CliNext(CliSession \ MuxSession), UNCHANGED <<net, mux>>
    PROVE  \E s \in Session : SessionStep(s)
  <1>1. PICK s \in CliSession \ MuxSession :
           Cli!CliThread(s) \/ Cli!CliCall(s) \/ Cli!Discard(s)
    BY DEF Cli!CliNext
  <1>2. s \in Session /\ s \notin NetSession
    BY CliIsNotNet
  <1>3. CliReady(s)
    BY <1>2 DEF Inductive, SessionInv, CliReady
  <1>4. MuxBeside(s)
    BY DEF Inductive, Typed, FlagsTyped, MuxTyped, MuxBeside
  <1>5. CliKept(s)
    BY <1>1, <1>3, <1>4, CliStep
  <1>6. SessionStep(s)
    BY <1>2, <1>5 DEF CliKept, Good, SessionStep, SessionInv
  <1>7. QED
    BY <1>2, <1>6

LEMMA MuxSessionStep ==
    ASSUME Inductive, Cli!MuxNext, UNCHANGED net
    PROVE  \E s \in Session : SessionStep(s)
  <1>1. PICK s \in MuxSession :
           \/ Cli!ShellOpens(s) \/ Cli!ShellStarts(s) \/ Cli!ShellUnstarted(s)
           \/ Cli!ShellConnects(s) \/ Cli!ShellReady(s) \/ Cli!ShellFails(s)
           \/ Cli!Show(s) \/ Cli!ShowEnds(s) \/ Cli!ShowLost(s)
           \/ Cli!MuxRelease(s) \/ Cli!MuxReuse(s) \/ Cli!MuxDiscard(s)
           \/ Cli!MasterDies(s) \/ Cli!OnShell(s)
    BY DEF Cli!MuxNext
  <1>2. s \in CliSession /\ s \in Session /\ s \notin NetSession
    BY CliIsNotNet
  <1>3. MuxReady(s)
    BY <1>2 DEF Inductive, SessionInv, CliReady, MuxReady
  <1>4. MuxKept(s)
    BY <1>1, <1>3, MuxStep
  <1>5. SessionStep(s)
    BY <1>2, <1>4 DEF MuxKept, CliKept, Good, SessionStep, SessionInv
  <1>6. QED
    BY <1>2, <1>5

-----------------------------------------------------------------------------
(* What the device does                                                    *)

\* The device works off the oldest request of s, which is r.
WorkedOff(s, r) ==
    /\ r \in Request /\ Due(s, r) /\ ~Quiet(s)
    /\ Len(wire'[s].queue) = Len(wire[s].queue) - 1
    /\ Quiet(s)' <=> Len(wire[s].queue) = 1
    /\ Quiet(s)' => Newest(s) = r /\ \A x \in Request : ~Due(s, x)'
    /\ ~Quiet(s)' => r \in Step /\ Newest(s)' = Newest(s)
    /\ Steady(s) => Steady(s)' /\ r \in Step
    /\ Ordered(s)'
    /\ \A x \in Request : Due(s, x)' => Due(s, x)
    /\ \A x \in Request \ Step : Due(s, x) => Due(s, x)' \/ x = r

LEMMA TailQueue ==
    ASSUME DevTyped, NEW s \in Session, Ordered(s), wire[s].queue # <<>>,
           wire'[s].queue = Tail(wire[s].queue)
    PROVE  WorkedOff(s, Head(wire[s].queue))
  <1> DEFINE q == wire[s].queue
             p == wire'[s].queue
             r == Head(q)
  <1>1. q \in Seq(Request) /\ q # <<>>
    BY DevFields
  <1>2. PICK n \in Nat : n = Len(q)
    BY <1>1
  <1>3. n >= 1 /\ r = q[1] /\ r \in Request /\ p = Tail(q) /\ p \in Seq(Request)
    BY <1>1, <1>2
  <1>4. Len(p) = n - 1 /\ \A i \in 1..(n - 1) : p[i] = q[i + 1]
    BY <1>1, <1>2, <1>3
  <1>5. \A i \in 1..n : i < n => q[i] \in Step
    BY <1>2 DEF Ordered
  <1> HIDE DEF q, p, r
  <1>6. p = <<>> <=> n = 1
    <2>1. p = <<>> => n - 1 = 0
      BY <1>4, EmptySeq
    <2>2. p # <<>> => Len(p) # 0
      BY <1>3, EmptySeq
    <2> QED
      BY <1>4, <2>1, <2>2
  <1>7. \A i \in 1..(n - 1) : i + 1 \in 1..n
    BY <1>3
  <1>8. \A i \in 1..n : i = 1 \/ (i - 1 \in 1..(n - 1) /\ p[i - 1] = q[i])
    <2> SUFFICES ASSUME NEW i \in 1..n, i # 1
                 PROVE  i - 1 \in 1..(n - 1) /\ p[i - 1] = q[i]
      OBVIOUS
    <2>1. i - 1 \in 1..(n - 1) /\ (i - 1) + 1 = i
      OBVIOUS
    <2> QED
      BY <1>4, <2>1
  <1>9. n # 1 => r \in Step /\ p[n - 1] = q[n] /\ 1 \in 1..n
    <2> SUFFICES ASSUME n # 1 PROVE r \in Step /\ p[n - 1] = q[n] /\ 1 \in 1..n
      OBVIOUS
    <2>1. 1 \in 1..n /\ 1 < n /\ n - 1 \in 1..(n - 1) /\ (n - 1) + 1 = n
      BY <1>3
    <2> QED
      BY <1>3, <1>4, <1>5, <2>1
  <1>10. \A x : (\E i \in 1..(n - 1) : p[i] = x) => \E i \in 1..n : q[i] = x
    BY <1>4, <1>7
  <1>11. \A x : (\E i \in 1..n : q[i] = x) => x = r \/ \E i \in 1..(n - 1) : p[i] = x
    BY <1>3, <1>8
  <1>12. (\A i \in 1..n : q[i] \in Step) => (\A i \in 1..(n - 1) : p[i] \in Step) /\ r \in Step
    <2>1. 1 \in 1..n
      BY <1>3
    <2> QED
      BY <1>3, <1>4, <1>7, <2>1
  <1>13. \A i \in 1..(n - 1) : i < n - 1 => p[i] \in Step
    <2> SUFFICES ASSUME NEW i \in 1..(n - 1), i < n - 1 PROVE p[i] \in Step
      OBVIOUS
    <2>1. i + 1 \in 1..n /\ i + 1 < n
      BY <1>3
    <2> QED
      BY <1>4, <1>5, <2>1
  <1>14. \E i \in 1..n : q[i] = r
    <2>1. 1 \in 1..n
      BY <1>3
    <2> QED
      BY <1>3, <2>1
  <1>15. n = 1 => q[n] = r /\ \A x : ~\E i \in 1..(n - 1) : p[i] = x
    BY <1>3
  <1>16. r \in Request /\ Due(s, r) /\ ~Quiet(s)
    BY <1>1, <1>2, <1>3, <1>14 DEF q, r, Due, Quiet
  <1>17. /\ Len(wire'[s].queue) = Len(wire[s].queue) - 1
         /\ Quiet(s)' <=> Len(wire[s].queue) = 1
    BY <1>2, <1>4, <1>6 DEF q, p, Quiet
  <1>18. \A x : (Due(s, x)' => Due(s, x)) /\ (Due(s, x) => Due(s, x)' \/ x = r)
    BY <1>2, <1>4, <1>10, <1>11 DEF q, p, Due
  <1>19. Quiet(s)' => Newest(s) = r /\ \A x \in Request : ~Due(s, x)'
    BY <1>2, <1>4, <1>6, <1>15 DEF q, p, Quiet, Newest, Due
  <1>20. ~Quiet(s)' => r \in Step /\ Newest(s)' = Newest(s)
    BY <1>2, <1>4, <1>6, <1>9 DEF q, p, Quiet, Newest
  <1>21. Steady(s) => Steady(s)' /\ r \in Step
    BY <1>2, <1>4, <1>12 DEF q, p, Steady
  <1>22. Ordered(s)'
    BY <1>2, <1>4, <1>13 DEF q, p, Ordered
  <1>23. QED
    BY <1>16, <1>17, <1>18, <1>19, <1>20, <1>21, <1>22 DEF WorkedOff, q, r

\* The answer goes to the last request, of a session still connected.
AnswerOf(s, answer) ==
    /\ wire'[s].up = wire[s].up /\ wire'[s].served = wire[s].served
    /\ wire'[s].answer = IF Up(s) /\ Len(wire[s].queue) = 1 THEN answer ELSE "none"

\* The outcome of r: the lock, the candidate and the fate of the commit.
Outcome(s, r, answer) ==
    \/ /\ answer \in {"ok", "empty", "refused"}
       /\ r # "commit" /\ (r = "rollback" \/ r = "unlock" \/ r = "lock" => answer = "refused")
       /\ dev' = dev
    \/ /\ r = "lock" /\ answer = "ok" /\ dev.holder = NoOne /\ dev.cand = {}
       /\ dev'.holder = s /\ dev'.cand = dev.cand /\ dev'.fate = dev.fate
    \/ /\ r = "load" /\ answer \in {"ok", "refused"}
       /\ dev'.holder = dev.holder /\ dev'.cand = dev.cand \cup {s} /\ dev'.fate = dev.fate
    \/ /\ r = "commit" /\ answer = "ok"
       /\ dev'.holder = dev.holder /\ dev'.cand = {}
       /\ dev'.fate = [dev.fate EXCEPT ![s] = "landed"]
    \/ /\ r = "commit" /\ answer = "refused"
       /\ dev'.holder = dev.holder /\ dev'.cand = dev.cand
       /\ dev'.fate = [dev.fate EXCEPT ![s] = "refused"]
    \/ /\ r = "rollback" /\ answer = "ok"
       /\ dev'.holder = dev.holder /\ dev'.cand = {} /\ dev'.fate = dev.fate
    \/ /\ r = "unlock" /\ answer = "ok"
       /\ dev'.holder = (IF dev.holder = s THEN NoOne ELSE dev.holder)
       /\ dev'.cand = dev.cand /\ dev'.fate = dev.fate

LEMMA OutcomeFields ==
    ASSUME DevTyped, NEW s \in Session, NEW r \in Request, NEW out \in Outcomes(s, r), dev' = out.dev
    PROVE  Outcome(s, r, out.answer) /\ dev' \in Dev
  <1>0. dev \in Dev
    BY DEF DevTyped
  <1>1. CASE r = "lock"
    <2>1. out = Out("refused", dev)
          \/ (dev.holder = NoOne /\ dev.cand = {} /\ out = Out("ok", [dev EXCEPT !.holder = s]))
      BY <1>1 DEF Outcomes, Refused
    <2> QED
      BY <1>0, <1>1, <2>1 DEF Out, Outcome, Dev
  <1>2. CASE r = "load"
    <2>1. PICK answer \in {"ok", "refused"} :
             out = Out(answer, [dev EXCEPT !.cand = @ \cup {s}]) \/ out = Out("refused", dev)
      BY <1>2 DEF Outcomes, Refused
    <2> QED
      BY <1>0, <1>2, <2>1 DEF Out, Outcome, Dev
  <1>3. CASE r = "commit"
    <2>1. \/ out = Out("ok", [dev EXCEPT !.cand = {}, !.fate[s] = "landed"])
          \/ out = Out("refused", [dev EXCEPT !.fate[s] = "refused"])
      BY <1>3 DEF Outcomes
    <2>2. CASE out = Out("ok", [dev EXCEPT !.cand = {}, !.fate[s] = "landed"])
      <3> DEFINE f == [dev.fate EXCEPT ![s] = "landed"]
                 c == [dev EXCEPT !.cand = {}]
                 d == [c EXCEPT !.fate = f]
      <3>1. f \in [Session -> {"none", "sent", "landed", "refused"}]
        BY <1>0 DEF Dev
      <3>2. c \in Dev /\ c.holder = dev.holder /\ c.cand = {} /\ c.fate = dev.fate
        BY <1>0 DEF Dev
      <3>3. d \in Dev /\ d.holder = dev.holder /\ d.cand = {} /\ d.fate = f
        <4> HIDE DEF f, c
        <4> QED
          BY <3>1, <3>2 DEF Dev
      <3>4. out.dev = d /\ out.answer = "ok"
        BY <2>2, <3>2 DEF Out
      <3> HIDE DEF d
      <3> QED
        BY <1>3, <3>3, <3>4 DEF Outcome
    <2>3. CASE out = Out("refused", [dev EXCEPT !.fate[s] = "refused"])
      <3> DEFINE f == [dev.fate EXCEPT ![s] = "refused"]
                 d == [dev EXCEPT !.fate = f]
      <3>1. f \in [Session -> {"none", "sent", "landed", "refused"}]
        BY <1>0 DEF Dev
      <3>3. d \in Dev /\ d.holder = dev.holder /\ d.cand = dev.cand /\ d.fate = f
        <4> HIDE DEF f
        <4> QED
          BY <1>0, <3>1 DEF Dev
      <3>4. out.dev = d /\ out.answer = "refused"
        BY <2>3 DEF Out
      <3> HIDE DEF d
      <3> QED
        BY <1>3, <3>3, <3>4 DEF Outcome
    <2> QED
      BY <2>1, <2>2, <2>3
  <1>4. CASE r = "rollback"
    <2>1. out = Out("ok", [dev EXCEPT !.cand = {}]) \/ out = Out("refused", dev)
      BY <1>4 DEF Outcomes, Refused
    <2> QED
      BY <1>0, <1>4, <2>1 DEF Out, Outcome, Dev
  <1>5. CASE r = "unlock"
    <2>1. \/ out = Out("ok", [dev EXCEPT !.holder = IF @ = s THEN NoOne ELSE @])
          \/ out = Out("refused", dev)
      BY <1>5 DEF Outcomes, Refused
    <2> QED
      BY <1>0, <1>5, <2>1 DEF Out, Outcome, Dev
  <1>6. CASE r \notin {"lock", "load", "commit", "rollback", "unlock"}
    <2>1. PICK answer \in {"ok", "empty", "refused"} : out = Out(answer, dev)
      BY <1>6 DEF Outcomes, Refused, Done
    <2> QED
      BY <1>0, <1>6, <2>1 DEF Out, Outcome
  <1>7. QED
    BY <1>1, <1>2, <1>3, <1>4, <1>5, <1>6

\* The step of the device, seen from s.
Executed(s, r, answer) ==
    /\ WorkedOff(s, r) /\ AnswerOf(s, answer) /\ Outcome(s, r, answer)
    /\ wire[s].served
    /\ Becomes(s, Has(s), Dirty(s), Fit(s), Op(s), Awaits(s)) /\ CallerSame(s)
    /\ s \in MuxSession => mux'[s] = mux[s]

LEMMA ExecuteKeeps ==
    ASSUME Typed, NEW s \in Session, SessionInv(s), NEW r, NEW answer, Executed(s, r, answer)
    PROVE  SessionInv(s)'
  <1> USE DEF Executed, WorkedOff, AnswerOf, Becomes, CallerSame
  <1>1. EditInv(s) /\ DevTyped /\ Len(wire[s].queue) \in Nat /\ s # NoOne
        /\ dev.fate \in [Session -> {"none", "sent", "landed", "refused"}]
    BY DevFields DEF SessionInv, Typed
  <1>2. {"load", "commit", "rollback", "unlock", "lock"} \subseteq Request
    BY DEF Request
  <1>3. r \in Request /\ Due(s, r) /\ ~Quiet(s)
    OBVIOUS
  <1>4. /\ r \in {"load", "commit", "rollback", "unlock"} => Holds(s)
        /\ r = "commit" <=> (dev.fate[s] = "sent" /\ r \notin Step)
        /\ r = "unlock" => s \notin dev.cand
        /\ r = "lock" => ~(Fit(s) /\ ~Has(s) /\ Awaits(s) # "lock")
        /\ Up(s) /\ Awaits(s) # "unlock" => r # "unlock"
        /\ Up(s) /\ Has(s) /\ ~Dirty(s) => s \notin dev.cand /\ r # "load"
        /\ s \in dev.cand => Holds(s)
        /\ dev.fate[s] = "sent" <=> Due(s, "commit")
    BY <1>1, <1>2, <1>3 DEF EditInv, DeviceInv, QueueInv, LockInv, Step
  <1>5. /\ Awaits(s) \notin Request => At(s) \in {"doubted", "gone"}
        /\ Awaits(s) \in Request /\ Up(s) => Fit(s) /\ Answer(s) = "none" /\ Newest(s) = Awaits(s)
        /\ Awaits(s) \in Request /\ Up(s) /\ Quiet(s)' => r = Awaits(s)
    BY <1>1, <1>3 DEF EditInv, QueueInv
  <1>6. /\ Holds(s)' <=> (Holds(s) \/ (r = "lock" /\ answer = "ok")) /\ ~(r = "unlock" /\ answer = "ok")
        /\ s \in dev'.cand => s \in dev.cand \/ r = "load"
        /\ s \in dev'.cand => ~(r \in {"commit", "rollback"} /\ answer = "ok")
        /\ dev'.fate[s] = (IF r = "commit" THEN (IF answer = "ok" THEN "landed" ELSE "refused")
                           ELSE dev.fate[s])
        /\ answer # "none" /\ (r = "commit" => answer \in {"ok", "refused"})
        /\ r = "lock" /\ answer = "ok" => dev.cand = {}
    BY <1>1 DEF Outcome, Holds
  <1>7. DeviceInv(s)'
    BY <1>1, <1>2, <1>3, <1>4, <1>6 DEF EditInv, DeviceInv, Up, Answer, Step
  <1>8. ThreadInv(s)'
    BY <1>1 DEF EditInv, ThreadInv
  <1>9. QueueInv(s)'
    BY <1>1, <1>2, <1>3, <1>5, <1>6 DEF EditInv, QueueInv, Up, Answer
  <1>10. LockInv(s)'
    BY <1>1, <1>2, <1>3, <1>4, <1>5, <1>6 DEF EditInv, LockInv, QueueInv, Up, Answer, Request, Step, Cleanup
  <1>11. CommitInv(s)'
    BY <1>1, <1>2, <1>3, <1>4, <1>5, <1>6 DEF EditInv, CommitInv, Up, Answer, Request
  <1>12. NetInv(s) => NetInv(s)'
    BY DEF NetInv, Up
  <1>13. CliInv(s) => CliInv(s)'
    BY <1>1, <1>3, <1>4, <1>6 DEF CliInv, Up
  <1>14. s \in MuxSession /\ MuxInv(s) => MuxInv(s)'
    BY <1>3, <1>4, <1>6 DEF MuxInv, Up, Answer
  <1>15. QED
    BY <1>7, <1>8, <1>9, <1>10, <1>11, <1>12, <1>13, <1>14 DEF SessionInv, EditInv

\* What the promise, and the action properties, see of a step of the device.
Grabs(s) ==
    /\ At(s) # "kept" /\ dev'.fate = dev.fate
    /\ \A q \in Session : Grips(q)' <=> Grips(q) \/ q = s
Loses(s) ==
    /\ dev'.fate = [dev.fate EXCEPT ![s] = IF @ = "sent" THEN "refused" ELSE @]
    /\ \A q \in Session : Grips(q)' <=> Grips(q) /\ q # s
Decides(s) ==
    /\ dev.fate[s] = "sent" /\ Grips(s)
    /\ \E f \in {"landed", "refused"} : dev'.fate = [dev.fate EXCEPT ![s] = f]
    /\ \A q \in Session : Grips(q)' <=> Grips(q)
LeavesAlone ==
    /\ dev'.fate = dev.fate
    /\ \A q \in Session : Grips(q)' <=> Grips(q)
DevicePlays == LeavesAlone \/ \E s \in Session : Grabs(s) \/ Loses(s) \/ Decides(s)

SendsNothing == \A q \in Session : Len(wire'[q].queue) <= Len(wire[q].queue)
LandsOwn == \A q \in Session :
    dev.fate[q] = "sent" /\ dev'.fate[q] = "landed" => dev.cand \subseteq {q}
DeviceStep == Inductive' /\ DevicePlays /\ SendsNothing /\ LandsOwn

LEMMA SameSession ==
    ASSUME Typed, UNCHANGED <<caller, net, cli, mux>>
    PROVE  /\ CallerTyped' /\ FlagsTyped'
           /\ \A q \in Session :
                 /\ Becomes(q, Has(q), Dirty(q), Fit(q), Op(q), Awaits(q))
                 /\ CallerSame(q) /\ CallerBeside(q) /\ FlagsBeside(q)
                 /\ q \in MuxSession => mux'[q] = mux[q]
  BY DEF Typed, CallerTyped, FlagsTyped, NetTyped, CliTyped, MuxTyped, Becomes, Has, Dirty, Fit,
     Op, Awaits, CallerSame, CallerBeside, FlagsBeside, At

\* The oldest request of s is worked off, and nobody else's wire is touched.
LEMMA ExecuteFields ==
    ASSUME DevTyped, NEW s \in Session, Ordered(s), Execute(s)
    PROVE  /\ wire[s].served
           /\ \E r, answer : WorkedOff(s, r) /\ AnswerOf(s, answer) /\ Outcome(s, r, answer)
           /\ DevTyped'
           /\ \A q \in Session \ {s} : wire'[q] = wire[q]
  <1> DEFINE r == Head(wire[s].queue)
  <1>1. wire[s].served /\ wire[s].queue # <<>>
    BY DEF Execute
  <1>2. PICK out \in Outcomes(s, r) :
          /\ dev' = out.dev
          /\ wire' = [wire EXCEPT
                ![s].queue = Tail(@),
                ![s].answer = IF wire[s].up /\ Len(wire[s].queue) = 1 THEN out.answer ELSE "none"]
    BY DEF Execute
  <1>3. wire[s] \in AWire /\ wire[s].queue \in Seq(Request) /\ r \in Request
    BY <1>1, DevFields
  <1>4. Outcome(s, r, out.answer) /\ dev' \in Dev
    BY <1>2, <1>3, OutcomeFields
  <1>5. out.answer \in {"ok", "empty", "refused"}
    BY <1>4 DEF Outcome
  <1> DEFINE a == IF wire[s].up /\ Len(wire[s].queue) = 1 THEN out.answer ELSE "none"
             w == [wire[s] EXCEPT !.queue = Tail(wire[s].queue)]
             v == [w EXCEPT !.answer = a]
  <1>6. w \in AWire /\ w.queue = Tail(wire[s].queue) /\ w.up = wire[s].up /\ w.served = wire[s].served
    <2>1. Tail(wire[s].queue) \in Seq(Request)
      BY <1>1, <1>3
    <2> QED
      BY <1>3, <2>1 DEF AWire
  <1>7. a \in {"none", "ok", "empty", "refused"}
    BY <1>5
  <1>8. wire' = [[wire EXCEPT ![s] = w] EXCEPT ![s] = v]
    <2>1. wire' = [wire EXCEPT ![s].queue = Tail(@), ![s].answer = a]
      BY <1>2
    <2>2. [wire EXCEPT ![s] = w][s] = w
      BY DEF DevTyped
    <2> QED
      BY <2>1, <2>2
  <1> HIDE DEF a, w
  <1>9. v \in AWire /\ v.queue = w.queue /\ v.up = w.up /\ v.served = w.served /\ v.answer = a
    BY <1>6, <1>7 DEF AWire
  <1> HIDE DEF v
  <1>10. wire' \in [Session -> AWire] /\ wire'[s] = v /\ \A q \in Session \ {s} : wire'[q] = wire[q]
    BY <1>8, <1>9 DEF DevTyped
  <1>11. WorkedOff(s, r)
    BY <1>1, <1>6, <1>9, <1>10, TailQueue
  <1>12. AnswerOf(s, out.answer)
    BY <1>6, <1>9, <1>10 DEF AnswerOf, a, Up
  <1>13. QED
    BY <1>1, <1>4, <1>10, <1>11, <1>12 DEF DevTyped

LEMMA ExecuteStep ==
    ASSUME Inductive, NEW s \in Session, Execute(s), UNCHANGED <<caller, net, cli, mux>>
    PROVE  DeviceStep
  <1>1. Typed /\ DevTyped /\ Exclusive /\ SessionInv(s) /\ EditInv(s)
    BY DEF Inductive, Typed, SessionInv
  <1>2. Ordered(s) /\ \A q \in Session : q \in dev.cand => Holds(q)
    BY <1>1 DEF Inductive, SessionInv, EditInv, DeviceInv
  <1>3. /\ wire[s].served /\ DevTyped' /\ \A q \in Session \ {s} : wire'[q] = wire[q]
        /\ \E r, answer : WorkedOff(s, r) /\ AnswerOf(s, answer) /\ Outcome(s, r, answer)
    BY <1>1, <1>2, ExecuteFields
  <1>4. PICK r, answer : WorkedOff(s, r) /\ AnswerOf(s, answer) /\ Outcome(s, r, answer)
    BY <1>3
  <1>5. /\ CallerTyped' /\ FlagsTyped'
        /\ \A q \in Session :
              /\ Becomes(q, Has(q), Dirty(q), Fit(q), Op(q), Awaits(q))
              /\ CallerSame(q)
              /\ q \in MuxSession => mux'[q] = mux[q]
    BY <1>1, SameSession
  <1>6. SessionInv(s)'
    BY <1>1, <1>3, <1>4, <1>5, ExecuteKeeps DEF Executed
  <1>7. /\ r \in {"load", "commit", "rollback", "unlock"} => Holds(s)
        /\ r = "commit" => dev.fate[s] = "sent"
        /\ r = "unlock" => s \notin dev.cand /\ dev.fate[s] # "sent"
        /\ r = "lock" => At(s) # "kept"
    <2>1. /\ r \in {"load", "commit", "rollback", "unlock"} => Holds(s)
          /\ r = "commit" => dev.fate[s] = "sent"
          /\ r = "unlock" => s \notin dev.cand
      BY <1>1, <1>4 DEF WorkedOff, EditInv, DeviceInv
    <2>2. r = "unlock" => dev.fate[s] # "sent"
      <3>1. r = "unlock" => Quiet(s)'
        BY <1>4 DEF WorkedOff, Step
      <3>2. r = "unlock" /\ Due(s, "commit") => Newest(s) = "unlock" /\ ~Due(s, "commit")'
        BY <1>4, <3>1 DEF WorkedOff, Request
      <3>3. Due(s, "commit") => Due(s, "commit")' \/ r = "commit"
        BY <1>4 DEF WorkedOff, Request, Step
      <3> QED
        BY <1>1, <3>2, <3>3 DEF EditInv, DeviceInv
    <2>3. r = "lock" => At(s) # "kept"
      BY <1>1, <1>4 DEF WorkedOff, EditInv, LockInv, CommitInv, ThreadInv, Follows, Borrowed
    <2> QED
      BY <2>1, <2>2, <2>3
  <1>8. \A q \in Session \ {s} :
          /\ dev'.holder = q <=> dev.holder = q
          /\ q \in dev'.cand <=> q \in dev.cand
          /\ dev'.fate[q] = dev.fate[q]
    <2>1. dev.fate \in [Session -> {"none", "sent", "landed", "refused"}]
      BY <1>1, DevFields
    <2> QED
      BY <1>2, <1>4, <1>7, <2>1 DEF Outcome, Holds
  <1>9. \A q \in Session \ {s} : Alike(q)
    <2>1. \A q \in Session \ {s} : QueueSame(q)
      BY <1>3, SameQueue
    <2> QED
      BY <1>3, <1>5, <1>8, <2>1 DEF Alike, DeviceSame, Holds
  <1>10. \A q \in Session : SessionInv(q)'
    BY <1>6, <1>9, AlikeKept DEF Inductive
  <1>11. Exclusive'
    BY <1>1, <1>2, <1>4 DEF Exclusive, Outcome
  <1>12. Inductive'
    BY <1>3, <1>5, <1>10, <1>11 DEF Inductive, Typed
  <1>13. DevicePlays
    <2>1. \A q \in Session \ {s} : Grips(q)' <=> Grips(q)
      BY <1>8 DEF Grips
    <2>2. s # NoOne /\ (s \in dev.cand => Holds(s))
          /\ dev.fate \in [Session -> {"none", "sent", "landed", "refused"}]
      BY <1>1, <1>2, DevFields
    <2>3. CASE r = "lock" /\ answer = "ok"
      BY <1>4, <1>7, <2>1, <2>3 DEF Outcome, Grips, Holds, DevicePlays, Grabs
    <2>4. CASE r = "load"
      BY <1>4, <1>7, <2>1, <2>4 DEF Outcome, Grips, Holds, DevicePlays, LeavesAlone
    <2>5. CASE r = "commit"
      BY <1>4, <1>7, <2>1, <2>5 DEF Outcome, Grips, Holds, DevicePlays, Decides
    <2>6. CASE r = "rollback"
      BY <1>4, <1>7, <2>1, <2>6 DEF Outcome, Grips, Holds, DevicePlays, LeavesAlone
    <2>7. CASE r = "unlock" /\ answer = "ok"
      <3>1. dev'.fate = [dev.fate EXCEPT ![s] = IF @ = "sent" THEN "refused" ELSE @]
        BY <1>4, <1>7, <2>2, <2>7 DEF Outcome
      <3>2. ~Grips(s)'
        BY <1>4, <1>7, <2>2, <2>7 DEF Outcome, Grips, Holds
      <3> QED
        BY <2>1, <3>1, <3>2 DEF DevicePlays, Loses
    <2>8. CASE dev' = dev
      BY <2>8 DEF DevicePlays, LeavesAlone, Grips
    <2> QED
      BY <1>4, <2>3, <2>4, <2>5, <2>6, <2>7, <2>8 DEF Outcome
  <1>14. SendsNothing
    <2>1. \A q \in Session : Len(wire[q].queue) \in Nat
      BY <1>1, DevFields
    <2> QED
      BY <1>3, <1>4, <2>1 DEF SendsNothing, WorkedOff
  <1>15. LandsOwn
    <2>1. dev.cand \subseteq Session \cup {Other}
      BY <1>1, DevFields
    <2>2. CASE r = "commit"
      <3>1. Other \notin dev.cand
        BY <1>1, <1>7, <2>2 DEF Exclusive, Holds
      <3>2. dev.cand \subseteq {s}
        BY <1>2, <1>7, <2>1, <2>2, <3>1 DEF Holds
      <3> QED
        BY <1>8, <3>2 DEF LandsOwn
    <2>3. CASE r # "commit"
      BY <1>4, <2>3 DEF Outcome, LandsOwn
    <2> QED
      BY <2>2, <2>3
  <1>16. QED
    BY <1>12, <1>13, <1>14, <1>15 DEF DeviceStep

LEMMA BreakStep ==
    ASSUME Inductive, NEW s \in Session, Break(s), UNCHANGED <<caller, net, cli, mux>>
    PROVE  SessionStep(s)
  <1>1. Typed /\ DevTyped /\ SessionInv(s) /\ EditInv(s)
    BY DEF Inductive, Typed, SessionInv
  <1>2. CutOff(s) /\ DevBeside(s) /\ DevTyped'
    BY <1>1, CutFields DEF Break
  <1>3. /\ CallerTyped' /\ FlagsTyped'
        /\ Becomes(s, Has(s), Dirty(s), Fit(s), Op(s), Awaits(s))
        /\ CallerSame(s) /\ CallerBeside(s) /\ FlagsBeside(s)
        /\ s \in MuxSession => mux'[s] = mux[s]
    BY <1>1, SameSession
  <1>4. Good(s)
    BY <1>1, <1>2, <1>3, Lose DEF LoseStep
  <1>5. Beside(s)
    BY <1>2, <1>3 DEF Beside, Typed
  <1>6. s \in NetSession => NetInv(s)'
    BY <1>1, <1>2, <1>3 DEF SessionInv, NetInv, CutOff, Becomes, CallerSame, Up
  <1>7. s \in CliSession => CliInv(s)'
    BY <1>1, <1>2, <1>3 DEF SessionInv, CliInv, CutOff, QueueSame, Becomes, CallerSame, Up
  <1>8. s \in MuxSession => MuxInv(s)'
    BY <1>1, <1>2, <1>3
       DEF SessionInv, MuxInv, CutOff, QueueSame, DevBeside, Becomes, CallerSame, Up, Answer
  <1>9. QED
    BY <1>4, <1>5, <1>6, <1>7, <1>8 DEF SessionStep, SessionInv, Good

\* The device drops the session: its requests, its lock, and the candidate.
NoticedOf(s) ==
    /\ wire'[s].queue = <<>> /\ ~wire'[s].served
    /\ wire'[s].up = wire[s].up /\ wire'[s].answer = wire[s].answer
    /\ dev'.holder = IF dev.holder = s THEN NoOne ELSE dev.holder
    /\ dev'.cand = IF dev.holder = s THEN {} ELSE dev.cand
    /\ dev'.fate = [dev.fate EXCEPT ![s] = IF @ = "sent" THEN "refused" ELSE @]

LEMMA NoticeFields ==
    ASSUME DevTyped, NEW s \in Session, Notice(s)
    PROVE  /\ NoticedOf(s) /\ DevTyped'
           /\ \A q \in Session \ {s} : wire'[q] = wire[q]
  <1> DEFINE w == [wire[s] EXCEPT !.served = FALSE]
             v == [w EXCEPT !.queue = <<>>]
  <1>1. wire[s] \in AWire /\ dev \in Dev
    BY DevFields DEF DevTyped
  <1>2. w \in AWire /\ w.queue = wire[s].queue /\ w.up = wire[s].up /\ w.served = FALSE
        /\ w.answer = wire[s].answer
    BY <1>1 DEF AWire
  <1>3. /\ v \in AWire /\ v.queue = <<>> /\ v.up = wire[s].up /\ v.served = FALSE
        /\ v.answer = wire[s].answer
    <2>1. <<>> \in Seq(Request)
      BY EmptySeq
    <2> HIDE DEF w
    <2> QED
      BY <1>2, <2>1 DEF AWire
  <1>4. wire' = [[wire EXCEPT ![s] = w] EXCEPT ![s] = v]
    <2>1. wire' = [wire EXCEPT ![s].served = FALSE, ![s].queue = <<>>]
      BY DEF Notice
    <2>2. [wire EXCEPT ![s] = w][s] = w
      BY DEF DevTyped
    <2> QED
      BY <2>1, <2>2
  <1> HIDE DEF w, v
  <1>5. wire' \in [Session -> AWire] /\ wire'[s] = v /\ \A q \in Session \ {s} : wire'[q] = wire[q]
    BY <1>3, <1>4 DEF DevTyped
  <1> DEFINE h == IF dev.holder = s THEN NoOne ELSE dev.holder
             c == IF dev.holder = s THEN {} ELSE dev.cand
             g == [dev EXCEPT !.holder = h]
             e == [g EXCEPT !.cand = c]
             f == [dev.fate EXCEPT ![s] = IF @ = "sent" THEN "refused" ELSE @]
             d == [e EXCEPT !.fate = f]
  <1>6. h \in Session \cup {NoOne} /\ c \in SUBSET (Session \cup {Other})
        /\ f \in [Session -> {"none", "sent", "landed", "refused"}]
    BY <1>1 DEF Dev
  <1>7. dev' = d
    <2>1. Freed(s) = e
      BY <1>1 DEF Freed, Dev
    <2>2. e.fate = dev.fate
      BY <1>1 DEF Dev
    <2>3. dev' = [Freed(s) EXCEPT !.fate[s] = IF @ = "sent" THEN "refused" ELSE @]
      BY DEF Notice
    <2> QED
      BY <2>1, <2>2, <2>3
  <1> HIDE DEF h, c, f
  <1>8. g \in Dev /\ g.holder = h /\ g.cand = dev.cand /\ g.fate = dev.fate
    BY <1>1, <1>6 DEF Dev
  <1> HIDE DEF g
  <1>9. e \in Dev /\ e.holder = h /\ e.cand = c /\ e.fate = dev.fate
    BY <1>6, <1>8 DEF Dev
  <1> HIDE DEF e
  <1>10. d \in Dev /\ d.holder = h /\ d.cand = c /\ d.fate = f
    BY <1>6, <1>9 DEF Dev
  <1>11. NoticedOf(s)
    BY <1>3, <1>5, <1>7, <1>10 DEF NoticedOf, h, c, f
  <1>12. QED
    BY <1>5, <1>7, <1>10, <1>11 DEF DevTyped

LEMMA NoticeStep ==
    ASSUME Inductive, NEW s \in Session, Notice(s), UNCHANGED <<caller, net, cli, mux>>
    PROVE  DeviceStep
  <1>1. Typed /\ DevTyped /\ Exclusive /\ SessionInv(s) /\ EditInv(s)
    BY DEF Inductive, Typed, SessionInv
  <1>2. \A q \in Session : q \in dev.cand => Holds(q)
    BY DEF Inductive, SessionInv, EditInv, DeviceInv
  <1>3. NoticedOf(s) /\ DevTyped' /\ \A q \in Session \ {s} : wire'[q] = wire[q]
    BY <1>1, NoticeFields
  <1>4. /\ CallerTyped' /\ FlagsTyped'
        /\ \A q \in Session :
              /\ Becomes(q, Has(q), Dirty(q), Fit(q), Op(q), Awaits(q))
              /\ CallerSame(q)
              /\ q \in MuxSession => mux'[q] = mux[q]
    BY <1>1, SameSession
  <1>5. /\ ~Up(s) /\ ~Up(s)' /\ Quiet(s)' /\ ~Holds(s)' /\ s \notin dev'.cand
        /\ Len(wire'[s].queue) = 0 /\ Steady(s)' /\ Ordered(s)' /\ \A x : ~Due(s, x)'
        /\ Answer(s)' = Answer(s) /\ ~wire'[s].served
        /\ dev'.fate[s] = (IF dev.fate[s] = "sent" THEN "refused" ELSE dev.fate[s])
    <2>1. Len(wire'[s].queue) = 0
      BY <1>3 DEF NoticedOf
    <2>2. Steady(s)' /\ Ordered(s)' /\ \A x : ~Due(s, x)'
      BY <2>1 DEF Steady, Ordered, Due
    <2>3. s # NoOne /\ dev.fate \in [Session -> {"none", "sent", "landed", "refused"}]
      BY <1>1, DevFields
    <2> QED
      BY <1>2, <1>3, <2>1, <2>2, <2>3 DEF Notice, NoticedOf, Up, Quiet, Holds, Answer
  <1>6. SessionInv(s)'
    <2> USE DEF Becomes, CallerSame
    <2>1. DeviceInv(s)'
      BY <1>1, <1>4, <1>5 DEF EditInv, DeviceInv
    <2>2. ThreadInv(s)'
      BY <1>1, <1>4, <1>5 DEF EditInv, ThreadInv
    <2>3. QueueInv(s)'
      BY <1>1, <1>4, <1>5 DEF EditInv, QueueInv
    <2>4. LockInv(s)'
      BY <1>1, <1>4, <1>5 DEF EditInv, LockInv
    <2>5. CommitInv(s)'
      BY <1>1, <1>4, <1>5 DEF EditInv, CommitInv, DeviceInv, QueueInv
    <2>6. NetInv(s) => NetInv(s)'
      BY <1>4, <1>5 DEF NetInv
    <2>7. CliInv(s) => CliInv(s)'
      BY <1>4, <1>5 DEF CliInv
    <2>8. s \in MuxSession /\ MuxInv(s) => MuxInv(s)'
      BY <1>4, <1>5 DEF MuxInv
    <2> QED
      BY <1>1, <2>1, <2>2, <2>3, <2>4, <2>5, <2>6, <2>7, <2>8 DEF SessionInv, EditInv
  <1>7. \A q \in Session \ {s} :
          /\ dev'.holder = q <=> dev.holder = q
          /\ q \in dev'.cand <=> q \in dev.cand
          /\ dev'.fate[q] = dev.fate[q]
    <2>1. dev.fate \in [Session -> {"none", "sent", "landed", "refused"}]
      BY <1>1, DevFields
    <2> QED
      BY <1>2, <1>3, <2>1 DEF NoticedOf, Holds
  <1>8. \A q \in Session \ {s} : Alike(q)
    <2>1. \A q \in Session \ {s} : QueueSame(q)
      BY <1>3, SameQueue
    <2> QED
      BY <1>3, <1>4, <1>7, <2>1 DEF Alike, DeviceSame, Holds
  <1>9. \A q \in Session : SessionInv(q)'
    BY <1>6, <1>8, AlikeKept DEF Inductive
  <1>10. Exclusive'
    BY <1>1, <1>3 DEF Exclusive, NoticedOf
  <1>11. Inductive'
    BY <1>3, <1>4, <1>9, <1>10 DEF Inductive, Typed
  <1>12. DevicePlays
    <2>1. Loses(s)
      BY <1>3, <1>5, <1>7 DEF Loses, Grips, Holds, NoticedOf
    <2> QED
      BY <2>1 DEF DevicePlays
  <1>13. SendsNothing
    <2>1. \A q \in Session : Len(wire[q].queue) \in Nat
      BY <1>1, DevFields
    <2> QED
      BY <1>3, <1>5, <2>1 DEF SendsNothing
  <1>14. LandsOwn
    BY <1>5, <1>7 DEF LandsOwn
  <1>15. QED
    BY <1>11, <1>12, <1>13, <1>14 DEF DeviceStep

\* Others edit the candidate while nobody holds it.
LEMMA OthersStep ==
    ASSUME Inductive, OthersEdit, UNCHANGED <<caller, net, cli, mux>>
    PROVE  DeviceStep
  <1>1. Typed /\ DevTyped /\ Exclusive
    BY DEF Inductive, Typed
  <1>2. PICK c \in SUBSET {Other} : dev' = [dev EXCEPT !.cand = (@ \ {Other}) \cup c]
    BY DEF OthersEdit
  <1>3. /\ dev' \in Dev /\ dev'.holder = dev.holder /\ dev'.fate = dev.fate
        /\ dev'.cand = (dev.cand \ {Other}) \cup c
    BY <1>1, <1>2 DEF DevTyped, Dev
  <1>4. wire' = wire /\ DevTyped' /\ dev.holder = NoOne
    BY <1>1, <1>3 DEF OthersEdit, DevTyped
  <1>5. /\ CallerTyped' /\ FlagsTyped'
        /\ \A q \in Session :
              /\ Becomes(q, Has(q), Dirty(q), Fit(q), Op(q), Awaits(q))
              /\ CallerSame(q)
              /\ q \in MuxSession => mux'[q] = mux[q]
    BY <1>1, SameSession
  <1>6. \A q \in Session : q \in dev'.cand <=> q \in dev.cand
    BY <1>3
  <1>7. \A q \in Session : Alike(q)
    <2>1. \A q \in Session : QueueSame(q)
      BY <1>4, SameQueue
    <2> QED
      BY <1>3, <1>4, <1>5, <1>6, <2>1 DEF Alike, DeviceSame, Holds
  <1>8. Inductive'
    <2>1. \A q \in Session : SessionInv(q)'
      BY <1>7, AlikeKept DEF Inductive
    <2> QED
      BY <1>3, <1>4, <1>5, <2>1 DEF Inductive, Typed, Exclusive
  <1>9. DevicePlays
    BY <1>3, <1>6 DEF DevicePlays, LeavesAlone, Grips
  <1>10. SendsNothing
    <2>1. \A q \in Session : Len(wire[q].queue) \in Nat
      BY <1>1, DevFields
    <2> QED
      BY <1>4, <2>1 DEF SendsNothing
  <1>11. LandsOwn
    BY <1>3 DEF LandsOwn
  <1>12. QED
    BY <1>8, <1>9, <1>10, <1>11 DEF DeviceStep

\* Every step is one of a session, or one of the device, or none.
LEMMA Steps ==
    ASSUME Inductive, [Next]_vars
    PROVE  \/ UNCHANGED vars
           \/ DeviceStep /\ UNCHANGED caller
           \/ \E s \in Session : SessionStep(s)
  <1>1. CASE UNCHANGED vars
    BY <1>1
  <1>2. CASE DeviceNext /\ UNCHANGED <<caller, net, cli, mux>>
    BY <1>2, ExecuteStep, BreakStep, NoticeStep, OthersStep DEF DeviceNext
  <1>3. CASE Netconf!NetNext /\ UNCHANGED <<cli, mux>>
    BY <1>3, NetSessionStep
  <1>4. CASE Cli!CliNext(CliSession \ MuxSession) /\ UNCHANGED <<net, mux>>
    BY <1>4, CliSessionStep
  <1>5. CASE Cli!MuxNext /\ UNCHANGED net
    BY <1>5, MuxSessionStep
  <1>6. QED
    BY <1>1, <1>2, <1>3, <1>4, <1>5 DEF Next

LEMMA Stutter ==
    ASSUME Inductive, UNCHANGED vars
    PROVE  Inductive' /\ \A q \in Session : Alike(q)
  <1>1. UNCHANGED <<dev, wire>> /\ UNCHANGED <<caller, net, cli, mux>>
    BY DEF vars
  <1>2. Typed /\ DevTyped
    BY DEF Inductive, Typed
  <1>3. DevTyped' /\ \A q \in Session : DeviceSame(q)
    BY <1>1, <1>2, SameDevice
  <1>4. /\ CallerTyped' /\ FlagsTyped'
        /\ \A q \in Session :
              /\ Becomes(q, Has(q), Dirty(q), Fit(q), Op(q), Awaits(q)) /\ CallerSame(q)
              /\ q \in MuxSession => mux'[q] = mux[q]
    BY <1>1, <1>2, SameSession
  <1>5. \A q \in Session : Alike(q)
    BY <1>1, <1>3, <1>4 DEF Alike, Holds
  <1>6. QED
    BY <1>1, <1>3, <1>4, <1>5, AlikeKept DEF Inductive, Typed, Exclusive

LEMMA InitInductive == Init => Inductive
  <1> SUFFICES ASSUME Init PROVE Inductive
    OBVIOUS
  <1>1. PICK open \in Together :
          /\ DeviceInit(open \ MuxSession) /\ CallerInit(open)
          /\ Netconf!NetInit /\ Cli!CliInit /\ Cli!MuxInit(open)
    BY DEF Init
  <1>2. /\ dev \in Dev /\ dev.holder = NoOne /\ dev.cand = {}
        /\ \A s \in Session : dev.fate[s] = "none"
    BY <1>1 DEF DeviceInit, Dev
  <1>3. /\ wire \in [Session -> AWire]
        /\ \A s \in Session :
              /\ wire[s].queue = <<>> /\ wire[s].answer = "none"
              /\ wire[s].up <=> s \in open \ MuxSession
              /\ wire[s].served <=> s \in open \ MuxSession
    <2> DEFINE on == open \ MuxSession
               w(s) == [queue |-> <<>>, answer |-> "none", up |-> s \in on, served |-> s \in on]
    <2>1. wire = [s \in Session |-> w(s)]
      BY <1>1 DEF DeviceInit
    <2>2. <<>> \in Seq(Request)
      BY EmptySeq
    <2> HIDE DEF on
    <2>3. ASSUME NEW s
          PROVE  /\ w(s) \in AWire /\ w(s).queue = <<>> /\ w(s).answer = "none"
                 /\ w(s).up <=> s \in on
                 /\ w(s).served <=> s \in on
      <3>1. CASE s \in on
        BY <2>2, <3>1 DEF AWire
      <3>2. CASE s \notin on
        <4>0. (s \in on) = FALSE
          BY <3>2
        <4>1. w(s) = [queue |-> <<>>, answer |-> "none", up |-> FALSE, served |-> FALSE]
          BY <4>0
        <4> HIDE DEF w
        <4> QED
          BY <2>2, <3>2, <4>1 DEF AWire
      <3> QED
        BY <3>1, <3>2
    <2> HIDE DEF w
    <2> QED
      BY <2>1, <2>3 DEF on
  <1>4. /\ caller \in [Session -> Caller]
        /\ \A s \in Session :
              /\ At(s) = (IF s \in open THEN "borrowed" ELSE "gone")
              /\ caller[s].call = "none" /\ caller[s].told = "nothing"
    BY <1>1 DEF CallerInit, Caller, Stage, Borrowed, At
  <1>5. NetTyped
    BY <1>1 DEF Netconf!NetInit, NetTyped, Netconf!Net
  <1>6. CliTyped
    BY <1>1 DEF Cli!CliInit, CliTyped, Cli!Engine
  <1>7. /\ MuxTyped
        /\ \A s \in MuxSession : mux[s].shell = "none" /\ (mux[s].ready <=> s \in open)
    <2> DEFINE m(s) == [ready |-> s \in open, master |-> s \in open, direct |-> FALSE,
                        shell |-> "none"]
    <2>1. mux = [s \in MuxSession |-> m(s)]
      BY <1>1 DEF Cli!MuxInit
    <2>2. ASSUME NEW s
          PROVE  m(s) \in Cli!Mux /\ m(s).shell = "none" /\ (m(s).ready <=> s \in open)
      <3>1. CASE s \in open
        BY <3>1 DEF Cli!Mux
      <3>2. CASE s \notin open
        <4>0. (s \in open) = FALSE
          BY <3>2
        <4>1. m(s) = [ready |-> FALSE, master |-> FALSE, direct |-> FALSE, shell |-> "none"]
          BY <4>0
        <4> HIDE DEF m
        <4> QED
          BY <3>2, <4>1 DEF Cli!Mux
      <3> QED
        BY <3>1, <3>2
    <2> HIDE DEF m
    <2> QED
      BY <2>1, <2>2 DEF MuxTyped
  <1>8. \A s \in Session : ~Has(s) /\ ~Dirty(s) /\ Fit(s) /\ Op(s) = "none" /\ Awaits(s) = "none"
    BY <1>1 DEF Netconf!NetInit, Cli!CliInit, Has, Dirty, Fit, Op, Awaits
  <1>9. Typed
    BY <1>2, <1>3, <1>4, <1>5, <1>6, <1>7 DEF Typed, DevTyped, CallerTyped, FlagsTyped
  <1>10. Exclusive
    BY <1>2 DEF Exclusive
  <1>11. ASSUME NEW s \in Session PROVE SessionInv(s)
    <2>1. /\ Quiet(s) /\ Len(wire[s].queue) = 0 /\ Steady(s) /\ \A x : ~Due(s, x)
          /\ Answer(s) = "none" /\ ~Holds(s) /\ s \notin dev.cand /\ dev.fate[s] = "none"
          /\ Up(s) <=> s \in open \ MuxSession
          /\ wire[s].served <=> s \in open \ MuxSession
      <3>1. Quiet(s)
        BY <1>3 DEF Quiet
      <3> QED
        BY <1>2, <1>3, <1>9, <3>1, QuietQueue DEF Typed, Holds, Answer, Up
    <2>2. Ordered(s)
      BY <2>1 DEF Ordered
    <2>3. /\ ~Has(s) /\ ~Dirty(s) /\ Fit(s) /\ Op(s) = "none" /\ Awaits(s) = "none"
          /\ caller[s].call = "none" /\ caller[s].told = "nothing"
          /\ At(s) = (IF s \in open THEN "borrowed" ELSE "gone")
      BY <1>4, <1>8
    <2>4. DeviceInv(s)
      BY <2>1, <2>2 DEF DeviceInv
    <2>5. ThreadInv(s)
      BY <2>3 DEF ThreadInv
    <2>6. QueueInv(s)
      BY <2>1, <2>3 DEF QueueInv, Request
    <2>7. LockInv(s)
      BY <2>1, <2>3 DEF LockInv
    <2>8. CommitInv(s)
      BY <2>1, <2>3 DEF CommitInv
    <2>9. NetInv(s) \/ s \notin NetSession
      BY <2>1, <2>3 DEF NetInv
    <2>10. CliInv(s)
      BY <2>1, <2>3 DEF CliInv
    <2>11. s \in MuxSession => MuxInv(s)
      BY <1>7, <2>1, <2>3 DEF MuxInv, Request
    <2> QED
      BY <2>4, <2>5, <2>6, <2>7, <2>8, <2>9, <2>10, <2>11 DEF SessionInv, EditInv
  <1>12. QED
    BY <1>9, <1>10, <1>11 DEF Inductive

LEMMA NextInductive == Inductive /\ [Next]_vars => Inductive'
  <1> SUFFICES ASSUME Inductive, [Next]_vars PROVE Inductive'
    OBVIOUS
  <1>1. CASE UNCHANGED vars
    BY <1>1, Stutter
  <1>2. CASE DeviceStep
    BY <1>2 DEF DeviceStep
  <1>3. CASE \E s \in Session : SessionStep(s)
    BY <1>3, StepKept
  <1>4. QED
    BY <1>1, <1>2, <1>3, Steps

LEMMA AlwaysInductive == Spec => []Inductive
  BY InitInductive, NextInductive, PTL DEF Spec

\* A queue has no more than two requests.
LEMMA ShortQueue ==
    ASSUME NEW q \in Seq(Request), Len(q) <= 2
    PROVE  q \in UNION {[1..n -> Request] : n \in 0..2}
  <1> DEFINE n == Len(q)
  <1>1. n \in Nat /\ n <= 2
    OBVIOUS
  <1>2. q \in [1..n -> Request]
    OBVIOUS
  <1> HIDE DEF n
  <1>3. n \in 0..2
    BY <1>1
  <1>4. QED
    BY <1>2, <1>3

LEMMA InductiveTyped == Inductive => TypeOK
  <1> SUFFICES ASSUME Inductive PROVE TypeOK
    OBVIOUS
  <1>1. Typed /\ DevTyped
    BY DEF Inductive, Typed
  <1>2. ASSUME NEW s \in Session PROVE wire[s] \in Wire
    <2>1. Len(wire[s].queue) <= 2
      BY DEF Inductive, SessionInv, EditInv, QueueInv
    <2>2. wire[s] \in AWire /\ wire[s].queue \in Seq(Request)
      BY <1>1, DevFields
    <2>3. wire[s].queue \in UNION {[1..n -> Request] : n \in 0..2}
      BY <2>1, <2>2, ShortQueue
    <2> QED
      BY <2>2, <2>3 DEF AWire, Wire
  <1>3. DeviceTypeOK
    BY <1>1, <1>2 DEF DevTyped, DeviceTypeOK
  <1>4. QED
    BY <1>1, <1>3 DEF Typed, CallerTyped, FlagsTyped, NetTyped, CliTyped, MuxTyped,
       TypeOK, CallerTypeOK, Netconf!NetTypeOK, Cli!CliTypeOK, Cli!MuxTypeOK

-----------------------------------------------------------------------------
(* The theorems                                                            *)

\* In every state the fields of the device, the wires, the callers and the three
\* transports have their types; a wire never holds more than two requests the
\* device has not worked off: nothing is asked again after an answer that did
\* not come.
THEOREM EditsTyped == Spec => []TypeOK
  BY AlwaysInductive, InductiveTyped, PTL

\* An edit that is handed back holds neither the lock nor lines in the candidate,
\* and one torn down holds them with its transport up only by a shell that came
\* on after the session's end, whatever was lost, refused or given up before.
THEOREM NothingIsLeft == Spec => []NothingLeftBehind
  <1>1. Inductive => NothingLeftBehind
    <2> SUFFICES ASSUME Inductive, NEW s \in Session, Grips(s)
                 PROVE  /\ At(s) # "kept"
                        /\ At(s) = "gone" /\ Up(s) => s \in MuxSession /\ mux[s].shell = "late"
      BY DEF NothingLeftBehind, Left, At, Up
    <2>1. SessionInv(s) /\ DeviceInv(s) /\ ThreadInv(s) /\ LockInv(s) /\ CommitInv(s)
      BY DEF Inductive, SessionInv, EditInv
    <2>2. Holds(s)
      BY <2>1 DEF DeviceInv, Grips, Holds
    <2>3. At(s) # "kept"
      <3>1. SUFFICES ASSUME At(s) = "kept" PROVE FALSE
        OBVIOUS
      <3>2. Fit(s) /\ ~Has(s)
        BY <2>1, <3>1 DEF CommitInv
      <3>3. Awaits(s) # "lock"
        BY <2>1, <3>1 DEF ThreadInv, Follows, Borrowed
      <3> QED
        BY <2>1, <2>2, <3>2, <3>3 DEF LockInv
    <2>4. ASSUME At(s) = "gone", Up(s) PROVE s \in MuxSession /\ mux[s].shell = "late"
      <3>1. s \in CliSession /\ CliInv(s) /\ s \in MuxSession
        BY <2>1, <2>4 DEF SessionInv, NetInv, CliInv
      <3>2. MuxInv(s)
        BY <2>1, <3>1 DEF SessionInv
      <3> QED
        BY <2>2, <2>4, <3>1, <3>2 DEF MuxInv
    <2> QED
      BY <2>3, <2>4
  <1>2. QED
    BY <1>1, AlwaysInductive, PTL

\* A commit never lands lines of another session, or of somebody who edits the
\* candidate without its lock.
THEOREM OwnLinesOnly == Spec => OnlyOwnLines
  <1> DEFINE Own == \A s \in Session :
          dev.fate[s] = "sent" /\ dev'.fate[s] = "landed" => dev.cand \subseteq {s}
  <1>1. Inductive /\ [Next]_vars => Own
    <2> SUFFICES ASSUME Inductive, [Next]_vars PROVE Own
      OBVIOUS
    <2>1. CASE UNCHANGED vars
      BY <2>1 DEF vars
    <2>2. CASE DeviceStep
      BY <2>2 DEF DeviceStep, LandsOwn
    <2>3. ASSUME NEW s \in Session, SessionStep(s) PROVE Own
      <3>1. \A q \in Session \ {s} : dev'.fate[q] = dev.fate[q]
        BY <2>3 DEF SessionStep, Beside, DevBeside
      <3>2. ~(dev.fate[s] = "sent" /\ dev'.fate[s] = "landed")
        BY <2>3 DEF SessionStep, Good, Plays
      <3> QED
        BY <3>1, <3>2
    <2> QED
      BY <2>1, <2>2, <2>3, Steps
  <1>2. QED
    BY <1>1, AlwaysInductive, PTL DEF Spec, OnlyOwnLines

\* A queue that gets longer does so by its newest request.
LEMMA Appended ==
    ASSUME NEW q \in Seq(Request), NEW r \in Request, NEW p, p = Append(q, r)
    PROVE  Len(p) > Len(q) /\ p[Len(p)] = r
  OBVIOUS

\* No step of this side types a rollback once the commit of the same edit may
\* have landed.
THEOREM CommitNotRolledBack == Spec => NeverRolledBack
  <1> DEFINE Safe == \A s \in Session :
          Sends(s, "rollback") => dev.fate[s] \in {"none", "refused"}
  <1>1. Inductive /\ [Next]_vars => Safe
    <2> SUFFICES ASSUME Inductive, [Next]_vars, NEW q \in Session, Sends(q, "rollback")
                 PROVE  dev.fate[q] \in {"none", "refused"}
      OBVIOUS
    <2>1. Len(wire'[q].queue) > Len(wire[q].queue) /\ Newest(q)' = "rollback"
      <3>1. wire[q].queue \in Seq(Request) /\ "rollback" \in Request
        BY DevFields DEF Inductive, Typed, Request
      <3> QED
        BY <3>1, Appended DEF Sends, Newest
    <2>2. Len(wire[q].queue) \in Nat
      BY DevFields DEF Inductive, Typed
    <2>3. CASE UNCHANGED vars
      BY <2>1, <2>2, <2>3 DEF vars
    <2>4. CASE DeviceStep
      <3>1. Len(wire'[q].queue) \in Nat
        BY <2>4, DevFields DEF DeviceStep, Inductive, Typed, DevTyped, AWire
      <3> QED
        BY <2>1, <2>2, <2>4, <3>1 DEF DeviceStep, SendsNothing
    <2>5. ASSUME NEW s \in Session, SessionStep(s) PROVE dev.fate[q] \in {"none", "refused"}
      <3>1. CASE s = q
        BY <2>1, <2>5, <3>1 DEF SessionStep, Good, Careful
      <3>2. CASE s # q
        BY <2>1, <2>2, <2>5, <3>2 DEF SessionStep, Beside, DevBeside
      <3> QED
        BY <3>1, <3>2
    <2> QED
      BY <2>3, <2>4, <2>5, Steps
  <1>2. QED
    BY <1>1, AlwaysInductive, PTL DEF Spec, NeverRolledBack

\* At a prompt no command is typed while the device still works on another, so
\* an answer is never read as that of a different command.
THEOREM PromptInStep == Spec => InStep
  <1> DEFINE Turns == \A s \in CliSession :
          Len(wire'[s].queue) > Len(wire[s].queue) => wire[s].queue = <<>>
  <1>1. Inductive /\ [Next]_vars => Turns
    <2> SUFFICES ASSUME Inductive, [Next]_vars, NEW q \in CliSession,
                        Len(wire'[q].queue) > Len(wire[q].queue)
                 PROVE  wire[q].queue = <<>>
      OBVIOUS
    <2>1. q \in Session
      BY CliIsNotNet
    <2>2. Len(wire[q].queue) \in Nat
      BY <2>1, DevFields DEF Inductive, Typed
    <2>3. CASE UNCHANGED vars
      BY <2>2, <2>3 DEF vars
    <2>4. CASE DeviceStep
      <3>1. Len(wire'[q].queue) \in Nat
        BY <2>1, <2>4 DEF DeviceStep, Inductive, Typed, DevTyped, AWire
      <3> QED
        BY <2>1, <2>2, <2>4, <3>1 DEF DeviceStep, SendsNothing
    <2>5. ASSUME NEW s \in Session, SessionStep(s) PROVE wire[q].queue = <<>>
      <3>1. CASE s = q
        BY <2>5, <3>1 DEF SessionStep, Good, Careful, Quiet
      <3>2. CASE s # q
        BY <2>1, <2>2, <2>5, <3>2 DEF SessionStep, Beside, DevBeside
      <3> QED
        BY <3>1, <3>2
    <2> QED
      BY <2>3, <2>4, <2>5, Steps
  <1>2. QED
    BY <1>1, AlwaysInductive, PTL DEF Spec, InStep

-----------------------------------------------------------------------------
(* The promise                                                             *)

\* What the promise sees of the edits.
Told == [s \in Session |-> caller[s].told]
Kept == {s \in Session : caller[s].stage = "kept"}
Grip == {s \in Session : Grips(s)}

LEMMA PromiseSees ==
    ASSUME NEW s \in Session
    PROVE  /\ Told[s] = caller[s].told
           /\ s \in Kept <=> At(s) = "kept"
           /\ s \in Grip <=> Grips(s)
  BY DEF Told, Kept, Grip, At

\* The steps of the promise, in these terms.
LEMMA PromiseActions ==
    ASSUME NEW s \in Session
    PROVE  /\ Promise!Grab(s) <=>
                 s \notin Kept /\ Grip' = Grip \cup {s}
                 /\ dev'.fate = dev.fate /\ Told' = Told /\ Kept' = Kept
           /\ Promise!Lose(s) <=>
                 Grip' = Grip \ {s}
                 /\ dev'.fate = [dev.fate EXCEPT ![s] = IF @ = "sent" THEN "refused" ELSE @]
                 /\ Told' = Told /\ Kept' = Kept
           /\ Promise!Send(s) <=>
                 s \in Grip \ Kept /\ dev.fate[s] = "none" /\ Told[s] = "nothing"
                 /\ dev'.fate = [dev.fate EXCEPT ![s] = "sent"]
                 /\ Told' = Told /\ Kept' = Kept /\ Grip' = Grip
           /\ Promise!Decide(s) <=>
                 dev.fate[s] = "sent" /\ s \in Grip
                 /\ (\E f \in {"landed", "refused"} : dev'.fate = [dev.fate EXCEPT ![s] = f])
                 /\ Told' = Told /\ Kept' = Kept /\ Grip' = Grip
           /\ Promise!Tell(s) <=>
                 Told[s] = "nothing"
                 /\ (\E w \in Promise!Word :
                        /\ w = "committed" => dev.fate[s] = "landed"
                        /\ w = "failed" => dev.fate[s] = "refused"
                        /\ Told' = [Told EXCEPT ![s] = w])
                 /\ dev'.fate = dev.fate /\ Kept' = Kept /\ Grip' = Grip
           /\ Promise!HandBack(s) <=>
                 s \notin Grip /\ dev.fate[s] # "sent" /\ Told[s] # "unknown"
                 /\ Kept' = Kept \cup {s}
                 /\ dev'.fate = dev.fate /\ Told' = Told /\ Grip' = Grip
           /\ Promise!Borrow(s) <=>
                 s \in Kept /\ Kept' = Kept \ {s}
                 /\ dev'.fate = [dev.fate EXCEPT ![s] = "none"]
                 /\ Told' = [Told EXCEPT ![s] = "nothing"] /\ Grip' = Grip
           /\ Promise!Retire(s) <=>
                 Kept' = Kept \ {s}
                 /\ dev'.fate = dev.fate /\ Told' = Told /\ Grip' = Grip
  BY DEF Told, Kept, Grip, Promise!Grab, Promise!Lose, Promise!Send, Promise!Decide,
     Promise!Tell, Promise!HandBack, Promise!Borrow, Promise!Retire

\* The step of a session: each way Plays allows is a step of the promise.
LEMMA SessionPromise ==
    ASSUME Inductive, NEW s \in Session, SessionStep(s)
    PROVE  [Promise!Next]_(Promise!vars)
  <1>1. Typed' /\ DevTyped /\ CallerTyped /\ DevTyped' /\ CallerTyped' /\ Plays(s)
    BY DEF Inductive, SessionStep, Beside, Good, Typed
  <1>2. /\ \A q \in Session \ {s} : dev'.fate[q] = dev.fate[q]
        /\ \A q \in Session \ {s} : caller'[q] = caller[q]
        /\ dev'.holder = dev.holder /\ dev'.cand = dev.cand
    BY DEF SessionStep, Beside, DevBeside, CallerBeside
  <1>3. /\ dev.fate \in [Session -> {"none", "sent", "landed", "refused"}]
        /\ dev'.fate \in [Session -> {"none", "sent", "landed", "refused"}]
        /\ dev'.fate = [dev.fate EXCEPT ![s] = dev'.fate[s]]
    <2>1. /\ dev.fate \in [Session -> {"none", "sent", "landed", "refused"}]
          /\ dev'.fate \in [Session -> {"none", "sent", "landed", "refused"}]
      BY <1>1 DEF DevTyped, Dev
    <2> QED
      BY <1>2, <2>1
  <1>4. Grip' = Grip
    BY <1>2 DEF Grip, Grips
  <1>5. Told' = [Told EXCEPT ![s] = caller'[s].told]
    BY <1>2 DEF Told
  <1>6. Told[s] = caller[s].told /\ (s \in Kept <=> At(s) = "kept") /\ (s \in Grip <=> Grips(s))
    BY PromiseSees
  <1>7. \A q \in Session \ {s} : q \in Kept' <=> q \in Kept
    BY <1>2 DEF Kept
  <1>8. Kept \subseteq Session /\ Kept' \subseteq Session /\ (s \in Kept' <=> At(s)' = "kept")
    BY DEF Kept, At
  <1>9. caller'[s].told \in Promise!Word
    <2>1. caller' \in [Session -> Caller]
      BY <1>1 DEF CallerTyped
    <2> QED
      BY <2>1 DEF Caller, Promise!Word
  <1>10. /\ caller'[s].told = caller[s].told => Told' = Told
         /\ dev'.fate[s] = dev.fate[s] => dev'.fate = dev.fate
         /\ (At(s)' = "kept" <=> At(s) = "kept") => Kept' = Kept
         /\ At(s)' = "kept" => Kept' = Kept \cup {s}
         /\ At(s)' # "kept" => Kept' = Kept \ {s}
    <2>1. caller'[s].told = caller[s].told => Told' = Told
      BY <1>5, <1>6 DEF Told
    <2>2. dev'.fate[s] = dev.fate[s] => dev'.fate = dev.fate
      BY <1>3
    <2>3. /\ (At(s)' = "kept" <=> At(s) = "kept") => Kept' = Kept
          /\ At(s)' = "kept" => Kept' = Kept \cup {s}
          /\ At(s)' # "kept" => Kept' = Kept \ {s}
      <3>1. ASSUME s \in Kept' <=> s \in Kept PROVE Kept' = Kept
        <4>1. \A q \in Session : q \in Kept' <=> q \in Kept
          BY <1>7, <3>1
        <4>2. Kept' \subseteq Kept /\ Kept \subseteq Kept'
          BY <1>8, <4>1
        <4> QED
          BY <4>2
      <3>2. At(s)' = "kept" => Kept' = Kept \cup {s}
        BY <1>7, <1>8
      <3>3. At(s)' # "kept" => Kept' = Kept \ {s}
        BY <1>7, <1>8
      <3>4. (At(s)' = "kept" <=> At(s) = "kept") => Kept' = Kept
        <4>1. (At(s)' = "kept" <=> At(s) = "kept") => (s \in Kept' <=> s \in Kept)
          BY <1>6, <1>8
        <4> QED
          BY <3>1, <4>1
      <3> QED
        BY <3>2, <3>3, <3>4
    <2> QED
      BY <2>1, <2>2, <2>3
  <1>11. CASE /\ dev'.fate[s] = dev.fate[s] /\ caller'[s].told = caller[s].told
              /\ At(s)' = "kept" <=> At(s) = "kept"
    <2>1. dev'.fate = dev.fate /\ Told' = Told /\ Kept' = Kept /\ Grip' = Grip
      BY <1>4, <1>10, <1>11
    <2> QED
      BY <2>1 DEF Promise!vars, Told, Kept, Grip
  <1>12. CASE /\ Holds(s) /\ At(s) # "kept" /\ At(s)' # "kept"
              /\ dev.fate[s] = "none" /\ caller[s].told = "nothing"
              /\ dev'.fate[s] = "sent" /\ caller'[s].told = caller[s].told
    <2>1. Promise!Send(s)
      <3>1. Grips(s)
        BY <1>12 DEF Grips, Holds
      <3>2. Told' = Told /\ Kept' = Kept /\ dev'.fate = [dev.fate EXCEPT ![s] = "sent"]
        BY <1>3, <1>10, <1>12
      <3> QED
        BY <1>4, <1>6, <1>12, <3>1, <3>2, PromiseActions
    <2> QED
      BY <2>1 DEF Promise!Next
  <1>13. CASE /\ At(s) # "kept" /\ At(s)' # "kept" /\ dev'.fate[s] = dev.fate[s]
              /\ caller[s].told = "nothing"
              /\ caller'[s].told = "committed" => dev.fate[s] = "landed"
              /\ caller'[s].told = "failed" => dev.fate[s] = "refused"
    <2>1. Promise!Tell(s)
      <3>1. Kept' = Kept /\ dev'.fate = dev.fate
        BY <1>10, <1>13
      <3>2. \E w \in Promise!Word :
               /\ w = "committed" => dev.fate[s] = "landed"
               /\ w = "failed" => dev.fate[s] = "refused"
               /\ Told' = [Told EXCEPT ![s] = w]
        BY <1>5, <1>9, <1>13
      <3>3. Told[s] = "nothing"
        BY <1>6, <1>13
      <3> QED
        BY <1>4, <3>1, <3>2, <3>3, PromiseActions
    <2> QED
      BY <2>1 DEF Promise!Next
  <1>14. CASE /\ At(s)' = "kept"
              /\ ~Holds(s) /\ s \notin dev.cand /\ dev.fate[s] # "sent" /\ caller[s].told # "unknown"
              /\ dev'.fate[s] = dev.fate[s] /\ caller'[s].told = caller[s].told
    <2>1. Promise!HandBack(s)
      <3>1. ~Grips(s)
        BY <1>14 DEF Grips, Holds
      <3>2. Kept' = Kept \cup {s} /\ dev'.fate = dev.fate /\ Told' = Told
        BY <1>10, <1>14
      <3> QED
        BY <1>4, <1>6, <1>14, <3>1, <3>2, PromiseActions
    <2> QED
      BY <2>1 DEF Promise!Next
  <1>15. CASE /\ At(s) = "kept" /\ At(s)' # "kept"
              /\ dev'.fate[s] = "none" /\ caller'[s].told = "nothing"
    <2>1. Promise!Borrow(s)
      <3>1. Kept' = Kept \ {s} /\ dev'.fate = [dev.fate EXCEPT ![s] = "none"]
            /\ Told' = [Told EXCEPT ![s] = "nothing"]
        BY <1>3, <1>5, <1>10, <1>15
      <3> QED
        BY <1>4, <1>6, <1>15, <3>1, PromiseActions
    <2> QED
      BY <2>1 DEF Promise!Next
  <1>16. CASE /\ At(s)' # "kept"
              /\ dev'.fate[s] = dev.fate[s] /\ caller'[s].told = caller[s].told
    <2>1. Promise!Retire(s)
      <3>1. Kept' = Kept \ {s} /\ dev'.fate = dev.fate /\ Told' = Told
        BY <1>10, <1>16
      <3> QED
        BY <1>4, <3>1, PromiseActions
    <2> QED
      BY <2>1 DEF Promise!Next
  <1>17. QED
    BY <1>1, <1>11, <1>12, <1>13, <1>14, <1>15, <1>16 DEF Plays

\* The step of the device: it grants the candidate, takes it away, decides a
\* commit, or does nothing the promise sees.
LEMMA DevicePromise ==
    ASSUME Inductive, DeviceStep, caller' = caller
    PROVE  [Promise!Next]_(Promise!vars)
  <1>1. Told' = Told /\ Kept' = Kept
    BY DEF Told, Kept
  <1>2. DevicePlays
    BY DEF DeviceStep
  <1>3. CASE LeavesAlone
    <2>1. dev'.fate = dev.fate /\ Grip' = Grip
      BY <1>3 DEF LeavesAlone, Grip
    <2> QED
      BY <1>1, <2>1 DEF Promise!vars, Told, Kept, Grip
  <1>4. ASSUME NEW s \in Session, Grabs(s) PROVE [Promise!Next]_(Promise!vars)
    <2>1. Grip' = Grip \cup {s} /\ s \notin Kept /\ dev'.fate = dev.fate
      BY <1>4, PromiseSees DEF Grabs, Grip
    <2>2. Promise!Grab(s)
      BY <1>1, <2>1, PromiseActions
    <2> QED
      BY <2>2 DEF Promise!Next
  <1>5. ASSUME NEW s \in Session, Loses(s) PROVE [Promise!Next]_(Promise!vars)
    <2>1. /\ Grip' = Grip \ {s}
          /\ dev'.fate = [dev.fate EXCEPT ![s] = IF @ = "sent" THEN "refused" ELSE @]
      BY <1>5 DEF Loses, Grip
    <2>2. Promise!Lose(s)
      BY <1>1, <2>1, PromiseActions
    <2> QED
      BY <2>2 DEF Promise!Next
  <1>6. ASSUME NEW s \in Session, Decides(s) PROVE [Promise!Next]_(Promise!vars)
    <2>1. Grip' = Grip /\ s \in Grip /\ dev.fate[s] = "sent"
          /\ \E f \in {"landed", "refused"} : dev'.fate = [dev.fate EXCEPT ![s] = f]
      BY <1>6 DEF Decides, Grip
    <2>2. Promise!Decide(s)
      BY <1>1, <2>1, PromiseActions
    <2> QED
      BY <2>2 DEF Promise!Next
  <1>7. QED
    BY <1>2, <1>3, <1>4, <1>5, <1>6 DEF DevicePlays

\* The edit sessions keep what EditPromise states of any transport: one commit a
\* borrow, sent by who holds the candidate; a true word of it or none; and nothing
\* held on the device by a session handed back.
THEOREM EditsKeepPromise == Spec => PromiseKept
  <1>1. Init => Promise!Init
    <2> SUFFICES ASSUME Init PROVE Promise!Init
      OBVIOUS
    <2>1. PICK open \in Together : DeviceInit(open \ MuxSession) /\ CallerInit(open)
      BY DEF Init
    <2>2. dev.fate = [s \in Session |-> "none"] /\ dev.holder = NoOne /\ dev.cand = {}
      BY <2>1 DEF DeviceInit
    <2>3. \A s \in Session : caller[s].told = "nothing" /\ caller[s].stage # "kept"
      BY <2>1 DEF CallerInit
    <2> QED
      BY <2>2, <2>3 DEF Promise!Init, Grips
  <1>2. Inductive /\ [Next]_vars => [Promise!Next]_(Promise!vars)
    <2> SUFFICES ASSUME Inductive, [Next]_vars PROVE [Promise!Next]_(Promise!vars)
      OBVIOUS
    <2>1. CASE UNCHANGED vars
      BY <2>1 DEF vars, Promise!vars, Grips
    <2>2. CASE DeviceStep /\ caller' = caller
      BY <2>2, DevicePromise
    <2>3. CASE \E s \in Session : SessionStep(s)
      BY <2>3, SessionPromise
    <2> QED
      BY <2>1, <2>2, <2>3, Steps
  <1>3. QED
    BY <1>1, <1>2, AlwaysInductive, PTL DEF Spec, PromiseKept, Promise!Spec
=============================================================================
