---------------------------- MODULE OpeningProofs ----------------------------
(***************************************************************************)
(* Proofs about Opening, for every set of opens, processes and host keys.  *)
(***************************************************************************)
EXTENDS Opening, TLAPS

USE OpeningAssumption DEF Locking

\* TypeOK without the bound on deadlines, which GuardInv has.
Guarded == [turn : Nat, active : BOOLEAN, over : BOOLEAN, expired : BOOLEAN,
            fired : SUBSET Nat, aborting : BOOLEAN, down : BOOLEAN]

Typed ==
    /\ file \in Hosts
    /\ cache \in [Process -> Cache]
    /\ open \in [Open -> Attempt]
    /\ guard \in [Open -> Guarded]

\* An attempt has a key from the handshake that showed it until it connects anew.
Keyed(o) == open[o].stage \in {"accepting"} \cup Locking => open[o].key \in Key

-----------------------------------------------------------------------------
(* Types                                                                   *)

\* What known_hosts becomes and what a process keeps of it.
LEMMA HostsTyped ==
    ASSUME Typed
    PROVE  /\ NothingRead \in Hosts
           /\ \A k \in Key : [file EXCEPT !.pins = @ \cup {k}, !.stamp = @ + 1] \in Hosts
           /\ \A k \in Key : [file EXCEPT !.revoked = @ \cup {k}, !.stamp = @ + 1] \in Hosts
           /\ \A p \in Process : cache[p].ssh \in Hosts /\ cache[p].netconf \in Hosts
           /\ \A p \in Process, h \in Hosts :
                 /\ [cache EXCEPT ![p].ssh = h] \in [Process -> Cache]
                 /\ [cache EXCEPT ![p].netconf = h] \in [Process -> Cache]
                 /\ \A b \in BOOLEAN :
                       [cache EXCEPT ![p].netconf = h, ![p].held = b] \in [Process -> Cache]
  <1>1. NothingRead \in Hosts
    BY DEF NothingRead, Hosts
  <1>2. \A k \in Key : /\ [file EXCEPT !.pins = @ \cup {k}, !.stamp = @ + 1] \in Hosts
                       /\ [file EXCEPT !.revoked = @ \cup {k}, !.stamp = @ + 1] \in Hosts
    <2>1. \A n \in Nat, ks \in SUBSET Key : /\ [file EXCEPT !.pins = ks, !.stamp = n] \in Hosts
                                            /\ [file EXCEPT !.revoked = ks, !.stamp = n] \in Hosts
      BY DEF Typed, Hosts
    <2>2. file.stamp + 1 \in Nat
      BY DEF Typed, Hosts
    <2>3. \A k \in Key : file.pins \cup {k} \in SUBSET Key /\ file.revoked \cup {k} \in SUBSET Key
      BY DEF Typed, Hosts
    <2>4. QED
      BY <2>1, <2>2, <2>3
  <1>3. \A p \in Process : cache[p].ssh \in Hosts /\ cache[p].netconf \in Hosts
    BY DEF Typed, Cache
  <1>4. ASSUME NEW p \in Process, NEW h \in Hosts
        PROVE  /\ [cache EXCEPT ![p].ssh = h] \in [Process -> Cache]
               /\ [cache EXCEPT ![p].netconf = h] \in [Process -> Cache]
               /\ \A b \in BOOLEAN :
                     [cache EXCEPT ![p].netconf = h, ![p].held = b] \in [Process -> Cache]
    <2>1. cache \in [Process -> Cache] /\ cache[p] \in Cache
      BY DEF Typed
    <2>2. \A c \in Cache : [cache EXCEPT ![p] = c] \in [Process -> Cache]
      BY <2>1
    <2>3. /\ [cache[p] EXCEPT !.ssh = h] \in Cache /\ [cache[p] EXCEPT !.netconf = h] \in Cache
          /\ \A b \in BOOLEAN : [cache[p] EXCEPT !.netconf = h, !.held = b] \in Cache
      BY <2>1 DEF Cache
    <2>4. /\ [cache EXCEPT ![p].ssh = h] = [cache EXCEPT ![p] = [@ EXCEPT !.ssh = h]]
          /\ [cache EXCEPT ![p].netconf = h] = [cache EXCEPT ![p] = [@ EXCEPT !.netconf = h]]
          /\ \A b \in BOOLEAN : [cache EXCEPT ![p].netconf = h, ![p].held = b]
                                  = [cache EXCEPT ![p] = [@ EXCEPT !.netconf = h, !.held = b]]
      BY <2>1
    <2>5. QED
      BY <2>1, <2>2, <2>3, <2>4
  <1>5. QED
    BY <1>1, <1>2, <1>3, <1>4

\* An attempt and its guard, replaced by others, keep their types.
LEMMA OthersTyped ==
    ASSUME Typed, NEW o \in Open
    PROVE  /\ open[o] \in Attempt
           /\ open[o].kind \in Kind /\ ProcessOf(o) \in Process
           /\ \A a \in Attempt : [open EXCEPT ![o] = a] \in [Open -> Attempt]
           /\ guard[o] \in Guarded
           /\ \A g \in Guarded : [guard EXCEPT ![o] = g] \in [Open -> Guarded]
  BY DEF Typed, Attempt, Kind, ProcessOf

\* What becomes of a guard.
LEMMA GuardsTyped ==
    ASSUME NEW g \in Guarded
    PROVE  /\ Armed(g) \in Guarded /\ Rearmed(g) \in Guarded /\ Ended(g) \in Guarded
           /\ [NoGuard EXCEPT !.down = TRUE] \in Guarded
           /\ \A b, c \in BOOLEAN : [g EXCEPT !.expired = TRUE, !.aborting = b, !.down = c] \in Guarded
  <1>1. g.turn + 1 \in Nat
    BY DEF Guarded
  <1>2. \A n \in Nat, a, b, c \in BOOLEAN :
           /\ [g EXCEPT !.turn = n, !.active = a, !.over = b, !.expired = c] \in Guarded
           /\ [g EXCEPT !.turn = n, !.over = b] \in Guarded
    BY DEF Guarded
  <1>3. Armed(g) \in Guarded /\ Rearmed(g) \in Guarded
    BY <1>1, <1>2 DEF Armed, Rearmed
  <1>4. Ended(g) \in Guarded
    BY DEF Guarded, Ended
  <1>5. [NoGuard EXCEPT !.down = TRUE] \in Guarded
    BY DEF Guarded, NoGuard
  <1>6. \A b, c \in BOOLEAN : [g EXCEPT !.expired = TRUE, !.aborting = b, !.down = c] \in Guarded
    BY DEF Guarded
  <1>7. QED
    BY <1>3, <1>4, <1>5, <1>6

\* What an attempt is set back to, or goes on with once its key is accepted.
LEMMA BegunTyped ==
    ASSUME Typed, NEW o \in Open
    PROVE  /\ Failed(o) \in [Open -> Attempt] /\ Accepted(o) \in [Open -> Attempt]
           /\ Written(o) \in [Open -> Attempt]
           /\ Dropped(o) \in [Open -> Guarded]
  <1>1. /\ open \in [Open -> Attempt] /\ open[o] \in Attempt
        /\ open[o].kind \in Kind /\ open[o].knew \in SUBSET Key
        /\ guard \in [Open -> Guarded]
    BY DEF Typed, Attempt
  <1>2. NothingRead \in Hosts
    BY DEF NothingRead, Hosts
  <1>3. /\ [NotBegun(open[o].kind) EXCEPT !.stage = "failed"] \in Attempt
        /\ [NotBegun(open[o].kind) EXCEPT !.stage = "reading", !.probed = TRUE, !.knew = open[o].knew] \in Attempt
    BY <1>1, <1>2 DEF NotBegun, Attempt, Stage
  <1>4. Failed(o) \in [Open -> Attempt]
    BY <1>1, <1>3 DEF Failed
  <1>5. [open EXCEPT ![o].stage = "auth", ![o].known = NothingRead] \in [Open -> Attempt]
    BY <1>1, <1>2 DEF Attempt, Stage
  <1>6. Accepted(o) \in [Open -> Attempt]
    BY <1>1, <1>3, <1>5 DEF Accepted
  <1>7. Dropped(o) \in [Open -> Guarded]
    BY <1>1, GuardsTyped, OthersTyped DEF Dropped
  <1>8. [open EXCEPT ![o].stage = "rereading"] \in [Open -> Attempt]
    BY <1>1 DEF Attempt, Stage
  <1>9. QED
    BY <1>4, <1>6, <1>7, <1>8 DEF Written

\* A guard may get any value of its type.
LEMMA GuardTypedStep ==
    ASSUME Typed, NEW o \in Open, Step(o) \/ Clock(o)
    PROVE  guard' \in [Open -> Guarded]
  <1> DEFINE g == guard[o]
  <1>1. guard \in [Open -> Guarded] /\ g \in Guarded
    BY DEF Typed
  <1>2. \A h \in Guarded : [guard EXCEPT ![o] = h] \in [Open -> Guarded]
    BY <1>1
  <1>3. /\ Armed(g) \in Guarded /\ Rearmed(g) \in Guarded /\ Ended(g) \in Guarded
        /\ [NoGuard EXCEPT !.down = TRUE] \in Guarded
    BY <1>1, GuardsTyped
  <1>4. CASE Step(o)
    <2>1. \/ UNCHANGED guard
          \/ guard' = [guard EXCEPT ![o] = Armed(@)]
          \/ guard' = [guard EXCEPT ![o] = Rearmed(@)]
          \/ guard' = [guard EXCEPT ![o] = Ended(@)]
          \/ guard' = Dropped(o)
      BY <1>4 DEF Step, Begins, Reads, Looks, Banner, Trusts, Unknown, Probed, AcceptLocks,
         Decides, Writes, ReadsBack, Opens, Fails, Calls, Returns, TearsDown
    <2>2. Dropped(o) \in [Open -> Guarded]
      BY <1>1, <1>2, <1>3 DEF Dropped
    <2>3. QED
      BY <1>1, <1>2, <1>3, <2>1, <2>2
  <1>5. CASE Passes(o)
    BY <1>1, <1>5 DEF Passes, Guarded
  <1>6. CASE Fires(o)
    BY <1>1, <1>6 DEF Fires, Guarded
  <1>7. CASE Expires(o)
    <2> DEFINE Gone(turn) == [guard EXCEPT ![o].fired = @ \ {turn}]
               After(turn) == [Gone(turn)[o] EXCEPT !.expired = TRUE, !.aborting = Ssh(o),
                                                    !.down = Gone(turn)[o].down \/ ~Ssh(o)]
    <2>1. PICK turn \in g.fired :
            guard' = IF Due(o, turn) THEN [Gone(turn) EXCEPT ![o] = After(turn)] ELSE Gone(turn)
      BY <1>7 DEF Expires
    <2>2. Gone(turn) \in [Open -> Guarded]
      BY <1>1 DEF Guarded
    <2>3. Ssh(o) \in BOOLEAN /\ (Gone(turn)[o].down \/ ~Ssh(o)) \in BOOLEAN
      BY DEF Ssh
    <2> HIDE DEF Gone
    <2>4. Gone(turn)[o] \in Guarded
      BY <2>2
    <2>5. After(turn) \in Guarded
      BY <2>3, <2>4, GuardsTyped
    <2> HIDE DEF After
    <2>6. QED
      BY <2>1, <2>2, <2>5
  <1>8. CASE Aborts(o)
    BY <1>1, <1>8 DEF Aborts, Guarded
  <1>9. QED
    BY <1>4, <1>5, <1>6, <1>7, <1>8 DEF Clock

\* An attempt gets fields of their types.
LEMMA OpenTypedStep ==
    ASSUME Typed, NEW o \in Open, Keyed(o), Step(o)
    PROVE  open' \in [Open -> Attempt]
  <1>1. /\ open \in [Open -> Attempt] /\ open[o] \in Attempt /\ ProcessOf(o) \in Process
        /\ NothingRead \in Hosts /\ file \in Hosts
    BY HostsTyped, OthersTyped DEF Typed
  <1>2. /\ cache[ProcessOf(o)].ssh \in Hosts /\ cache[ProcessOf(o)].netconf \in Hosts
        /\ Loaded(ProcessOf(o)) \in Hosts
    BY <1>1, HostsTyped DEF Loaded
  <1>3. /\ Failed(o) \in [Open -> Attempt] /\ Accepted(o) \in [Open -> Attempt]
        /\ Written(o) \in [Open -> Attempt]
    BY BegunTyped
  <1>4. CASE Begins(o)
    <2>1. file.revoked \in SUBSET Key /\ Loaded(ProcessOf(o)).revoked \in SUBSET Key
      BY <1>1, <1>2 DEF Hosts
    <2>2. PICK x \in Stage, r \in SUBSET Key : open' = [open EXCEPT ![o].stage = x, ![o].knew = r]
      BY <1>4, <2>1 DEF Begins, Stage
    <2>3. QED
      BY <1>1, <2>2 DEF Attempt
  <1>5. CASE Reads(o)
    <2>1. PICK x \in Stage, h \in Hosts : open' = [open EXCEPT ![o].stage = x, ![o].known = h]
      BY <1>1, <1>2, <1>5 DEF Reads, Stage
    <2>2. QED
      BY <1>1, <2>1 DEF Attempt
  <1>6. CASE Looks(o)
    <2>1. PICK x \in Stage, h \in Hosts, b \in BOOLEAN :
             open' = [open EXCEPT ![o].stage = x, ![o].known = h, ![o].probing = b]
      BY <1>2, <1>6 DEF Looks, Stage
    <2>2. QED
      BY <1>1, <2>1 DEF Attempt
  <1>7. CASE Trusts(o)
    <2>1. PICK k \in Key :
             open' = [open EXCEPT ![o].stage = "auth", ![o].known = NothingRead, ![o].key = k,
                                  ![o].blind = Forgotten(o)]
      BY <1>7 DEF Trusts
    <2> DEFINE a == [open[o] EXCEPT !.stage = "auth", !.known = NothingRead, !.key = k,
                                    !.blind = Forgotten(o)]
    <2>2. Forgotten(o) \in BOOLEAN
      BY DEF Forgotten
    <2>3. a \in Attempt
      BY <1>1, <1>2, <2>2 DEF Attempt, Stage
    <2>4. open' = [open EXCEPT ![o] = a]
      BY <2>1
    <2>5. QED
      BY <1>1, <2>3, <2>4
  <1>8. CASE Unknown(o) \/ Probed(o)
    <2>1. PICK x \in Stage, k \in Key \cup {NoKey} : open' = [open EXCEPT ![o].stage = x, ![o].key = k]
      BY <1>8 DEF Unknown, Probed, Stage
    <2>2. QED
      BY <1>1, <2>1 DEF Attempt
  <1>9. CASE Writes(o) \/ ReadsBack(o) \/ Fails(o)
    BY <1>3, <1>9 DEF Writes, ReadsBack, Fails
  <1>10. ASSUME NEW x \in Stage, Moves(o, x) PROVE open' \in [Open -> Attempt]
    BY <1>1, <1>10 DEF Moves, Attempt
  <1>11. CASE AcceptLocks(o) \/ Decides(o)
    <2>1. open' = Failed(o) \/ open' = Accepted(o) \/ \E x \in Stage : Moves(o, x)
      BY <1>11 DEF AcceptLocks, Decides, Stage
    <2>2. QED
      BY <1>3, <1>10, <2>1
  <1>12. CASE Banner(o) \/ Opens(o) \/ Calls(o) \/ Returns(o) \/ TearsDown(o)
    <2>1. \E x \in Stage : Moves(o, x)
      BY <1>12 DEF Banner, Opens, Calls, Returns, TearsDown, Stage
    <2>2. QED
      BY <1>10, <2>1
  <1>13. QED
    BY <1>4, <1>5, <1>6, <1>7, <1>8, <1>9, <1>11, <1>12 DEF Step

\* Only a key that was shown is written.
LEMMA FilesTypedStep ==
    ASSUME Typed, NEW o \in Open, Keyed(o), Step(o)
    PROVE  file' \in Hosts /\ cache' \in [Process -> Cache]
  <1>1. /\ ProcessOf(o) \in Process /\ file \in Hosts /\ cache \in [Process -> Cache]
        /\ cache[ProcessOf(o)].ssh \in Hosts /\ Loaded(ProcessOf(o)) \in Hosts
    BY HostsTyped, OthersTyped DEF Typed, Loaded
  <1>2. \A h \in Hosts :
           /\ [cache EXCEPT ![ProcessOf(o)].ssh = h] \in [Process -> Cache]
           /\ [cache EXCEPT ![ProcessOf(o)].netconf = h] \in [Process -> Cache]
    BY <1>1, HostsTyped
  <1>3. CASE Writes(o)
    <2>1. open[o].key \in Key
      BY <1>3 DEF Writes, At, Keyed
    <2>2. file' \in Hosts
      BY <1>3, <2>1, HostsTyped DEF Writes
    <2>3. QED
      BY <1>1, <1>2, <1>3, <2>2, HostsTyped DEF Writes, Forgets
  <1>4. CASE Reads(o) \/ Looks(o) \/ AcceptLocks(o) \/ Decides(o) \/ ReadsBack(o)
    <2>1. Forgets(o) \in [Process -> Cache] /\ Rereads(o) \in [Process -> Cache]
      BY <1>1, <1>2, HostsTyped DEF Forgets, Rereads
    <2>2. CASE AcceptLocks(o) \/ Decides(o) \/ ReadsBack(o)
      BY <1>1, <2>1, <2>2 DEF AcceptLocks, Decides, ReadsBack
    <2>3. CASE Reads(o) \/ Looks(o)
      BY <1>1, <1>2, <2>3 DEF Reads, Looks
    <2>4. QED
      BY <1>4, <2>2, <2>3
  <1>5. CASE ~Writes(o) /\ ~Reads(o) /\ ~Looks(o) /\ ~AcceptLocks(o) /\ ~Decides(o) /\ ~ReadsBack(o)
    BY <1>1, <1>5 DEF Step, Begins, Banner, Trusts, Unknown, Probed, Opens, Fails, Calls, Returns, TearsDown
  <1>6. QED
    BY <1>3, <1>4, <1>5

\* Every step keeps the types.
LEMMA TypedStep ==
    ASSUME Typed, \A o \in Open : Keyed(o), [Next]_vars
    PROVE  Typed'
  <1>1. CASE \E o \in Open : Step(o)
    BY <1>1, GuardTypedStep, OpenTypedStep, FilesTypedStep DEF Typed
  <1>2. CASE \E o \in Open : Clock(o)
    <2>1. PICK o \in Open : Clock(o)
      BY <1>2
    <2>2. UNCHANGED <<file, cache, open>>
      BY <2>1 DEF Clock, Passes, Fires, Expires, Aborts
    <2>3. QED
      BY <2>1, <2>2, GuardTypedStep DEF Typed
  <1>3. CASE \E k \in Key : Revokes(k)
    <2>1. PICK k \in Key : Revokes(k)
      BY <1>3
    <2>2. file' \in Hosts /\ UNCHANGED <<cache, open, guard>>
      BY <2>1, HostsTyped DEF Revokes
    <2>3. QED
      BY <2>2 DEF Typed
  <1>4. CASE \E p \in Elsewhere : ForgetsElsewhere(p) \/ RereadsElsewhere(p)
    <2>1. PICK p \in Process : ForgetsElsewhere(p) \/ RereadsElsewhere(p)
      BY <1>4
    <2>2. PICK h \in Hosts, b \in BOOLEAN : cache' = [cache EXCEPT ![p].netconf = h, ![p].held = b]
      BY <2>1, HostsTyped DEF ForgetsElsewhere, RereadsElsewhere, Typed
    <2>3. UNCHANGED <<file, open, guard>>
      BY <2>1 DEF ForgetsElsewhere, RereadsElsewhere
    <2>4. QED
      BY <2>2, <2>3, HostsTyped DEF Typed
  <1>5. CASE UNCHANGED vars
    BY <1>5 DEF vars, Typed
  <1>6. QED
    BY <1>1, <1>2, <1>3, <1>4, <1>5 DEF Next

-----------------------------------------------------------------------------
(* Deadlines                                                               *)

\* No deadline is set, and none of this guard will be.
Idle(o) == \/ open[o].stage \in {"new", "ready"}
           \/ ~Ssh(o) /\ open[o].stage \in {"reading", "accepting"} \cup Locking

\* Whatever a late timer finds, only the deadline in force expires the guard, and
\* nothing touches the transport before.
GuardInv(o) ==
    /\ \A turn \in guard[o].fired : turn >= 1 /\ turn <= guard[o].turn
    /\ guard[o].active => guard[o].turn >= 1
    /\ guard[o].active /\ guard[o].turn \in guard[o].fired => guard[o].over
    /\ guard[o].active /\ guard[o].expired => guard[o].over
    /\ Idle(o) => ~guard[o].active /\ ~guard[o].expired
    /\ open[o].stage \notin {"failed", "closed"} /\ ~guard[o].expired =>
          ~guard[o].down /\ ~guard[o].aborting

\* Two deadlines for each connection of an open.
Spent(o) == IF open[o].probed THEN 2 ELSE 0
TurnInv(o) ==
    /\ open[o].probed => ~Ssh(o)
    /\ open[o].probing => ~Ssh(o) /\ ~open[o].probed
    /\ ~Ssh(o) /\ open[o].stage \in {"accepting"} \cup Locking => ~open[o].probed
    /\ open[o].stage = "new" => guard[o].turn = 0 /\ ~open[o].probed
    /\ open[o].stage = "reading" => guard[o].turn <= Spent(o) + IF Ssh(o) THEN 1 ELSE 0
    /\ open[o].stage = "connecting" => guard[o].turn <= Spent(o) + 1
    /\ open[o].stage \in {"kex", "accepting", "auth"} \cup Locking => guard[o].turn <= Spent(o) + 2
    /\ guard[o].turn <= MaxTurn

\* A step of o leaves the other attempts and their guards alone.
LEMMA OthersKept ==
    ASSUME Typed, NEW o \in Open, Step(o) \/ Clock(o), NEW q \in Open, q # o
    PROVE  open'[q] = open[q] /\ guard'[q] = guard[q]
  <1>1. open \in [Open -> Attempt] /\ guard \in [Open -> Guarded]
    BY DEF Typed
  <1>2. \A x : [open EXCEPT ![o] = x][q] = open[q] /\ [guard EXCEPT ![o] = x][q] = guard[q]
    BY <1>1
  <1>3. /\ Failed(o)[q] = open[q] /\ Accepted(o)[q] = open[q] /\ Dropped(o)[q] = guard[q]
        /\ Written(o)[q] = open[q]
    BY <1>1 DEF Failed, Accepted, Written, Dropped
  <1>4. \A x : Moves(o, x) => open'[q] = open[q]
    BY <1>1 DEF Moves
  <1>5. CASE Step(o)
    BY <1>1, <1>2, <1>3, <1>4, <1>5 DEF Step, Begins, Reads, Looks, Banner, Trusts, Unknown, Probed, AcceptLocks,
       Decides, Writes, ReadsBack, Opens, Fails, Calls, Returns, TearsDown
  <1>6. CASE Clock(o)
    BY <1>1, <1>6 DEF Clock, Passes, Fires, Expires, Aborts
  <1>7. QED
    BY <1>5, <1>6

\* What is set back, and what an accepted key leads to.
LEMMA BegunFields ==
    ASSUME Typed, NEW o \in Open
    PROVE  /\ Failed(o)[o].stage = "failed" /\ Failed(o)[o].kind = open[o].kind
           /\ ~Failed(o)[o].probing /\ ~Failed(o)[o].probed
           /\ Failed(o)[o].known = NothingRead /\ Failed(o)[o].knew = {}
           /\ Accepted(o)[o].kind = open[o].kind /\ Accepted(o)[o].knew = open[o].knew
           /\ Accepted(o)[o].known = NothingRead /\ (Accepted(o)[o].blind => open[o].blind)
           /\ Ssh(o) => /\ Accepted(o)[o].stage = "auth"
                        /\ Accepted(o)[o].key = open[o].key
                        /\ Accepted(o)[o].probing = open[o].probing
                        /\ Accepted(o)[o].probed = open[o].probed
           /\ ~Ssh(o) => /\ Accepted(o)[o].stage = "reading"
                         /\ Accepted(o)[o].probed /\ ~Accepted(o)[o].probing
           /\ Dropped(o)[o].turn = 0 /\ Dropped(o)[o].fired = {}
           /\ ~Dropped(o)[o].active /\ ~Dropped(o)[o].expired
  <1>1. /\ open \in [Open -> Attempt] /\ guard \in [Open -> Guarded]
        /\ open[o] \in Attempt /\ guard[o] \in Guarded
    BY DEF Typed
  <1>2. Failed(o)[o] = [NotBegun(open[o].kind) EXCEPT !.stage = "failed"]
    BY <1>1 DEF Failed
  <1>3. /\ Failed(o)[o].stage = "failed" /\ Failed(o)[o].kind = open[o].kind
        /\ ~Failed(o)[o].probing /\ ~Failed(o)[o].probed
        /\ Failed(o)[o].known = NothingRead /\ Failed(o)[o].knew = {}
    BY <1>2 DEF NotBegun
  <1>4. Dropped(o)[o] = [NoGuard EXCEPT !.down = TRUE]
    BY <1>1 DEF Dropped
  <1>5. /\ Dropped(o)[o].turn = 0 /\ Dropped(o)[o].fired = {}
        /\ ~Dropped(o)[o].active /\ ~Dropped(o)[o].expired
    BY <1>4 DEF NoGuard
  <1>6. CASE Ssh(o)
    <2>1. Accepted(o)[o] = [open[o] EXCEPT !.stage = "auth", !.known = NothingRead]
      BY <1>1, <1>6 DEF Accepted
    <2>2. /\ Accepted(o)[o].stage = "auth" /\ Accepted(o)[o].kind = open[o].kind
          /\ Accepted(o)[o].knew = open[o].knew /\ Accepted(o)[o].known = NothingRead
          /\ (Accepted(o)[o].blind => open[o].blind)
          /\ Accepted(o)[o].key = open[o].key
          /\ Accepted(o)[o].probing = open[o].probing /\ Accepted(o)[o].probed = open[o].probed
      BY <1>1, <2>1 DEF Attempt
    <2>3. QED
      BY <1>3, <1>5, <1>6, <2>2
  <1>7. CASE ~Ssh(o)
    <2>1. Accepted(o)[o] = [NotBegun(open[o].kind) EXCEPT !.stage = "reading", !.probed = TRUE,
                                                          !.knew = open[o].knew]
      BY <1>1, <1>7 DEF Accepted
    <2>2. /\ Accepted(o)[o].stage = "reading" /\ Accepted(o)[o].kind = open[o].kind
          /\ Accepted(o)[o].knew = open[o].knew /\ Accepted(o)[o].known = NothingRead
          /\ (Accepted(o)[o].blind => open[o].blind)
          /\ Accepted(o)[o].probed /\ ~Accepted(o)[o].probing
      BY <1>1, <2>1 DEF NotBegun
    <2>3. QED
      BY <1>3, <1>5, <1>7, <2>2
  <1>8. QED
    BY <1>6, <1>7

\* What a checked key leads to.
LEMMA TrustedFields ==
    ASSUME Typed, NEW o \in Open, Trusts(o)
    PROVE  /\ open'[o].stage = "auth" /\ open'[o].kind = open[o].kind
           /\ open'[o].probing = open[o].probing /\ open'[o].probed = open[o].probed
           /\ open'[o].known = NothingRead /\ open'[o].knew = open[o].knew
           /\ open'[o].blind = Forgotten(o)
           /\ open'[o].key \in Key
           /\ Policy(o) # "off" => ~Revoked(o, open'[o].key) /\ open'[o].key \in open[o].known.pins
           /\ open[o].stage = "kex" /\ ~open[o].probing /\ guard' = guard
  <1>1. open \in [Open -> Attempt] /\ open[o] \in Attempt
    BY DEF Typed
  <1>2. PICK k \in Key :
           /\ Policy(o) # "off" => ~Revoked(o, k) /\ k \in open[o].known.pins
           /\ open' = [open EXCEPT ![o].stage = "auth", ![o].known = NothingRead, ![o].key = k,
                                   ![o].blind = Forgotten(o)]
    BY DEF Trusts
  <1>3. open'[o] = [open[o] EXCEPT !.stage = "auth", !.known = NothingRead, !.key = k, !.blind = Forgotten(o)]
    BY <1>1, <1>2
  <1>4. /\ open'[o].stage = "auth" /\ open'[o].kind = open[o].kind /\ open'[o].key = k
        /\ open'[o].probing = open[o].probing /\ open'[o].probed = open[o].probed
        /\ open'[o].known = NothingRead /\ open'[o].knew = open[o].knew
        /\ open'[o].blind = Forgotten(o)
    BY <1>1, <1>3 DEF Attempt
  <1>5. QED
    BY <1>2, <1>4 DEF Trusts, At

\* By action: a deadline that is new has no timer that fired, and who ends one must not
\* have let it expire.
LEMMA GuardKept ==
    ASSUME Typed, NEW o \in Open, GuardInv(o), Step(o) \/ Clock(o)
    PROVE  GuardInv(o)'
  <1>1. /\ open \in [Open -> Attempt] /\ guard \in [Open -> Guarded]
        /\ open[o] \in Attempt /\ guard[o] \in Guarded
    BY DEF Typed
  <1>2. CASE Begins(o)
    BY <1>1, <1>2 DEF Begins, GuardInv, Idle, Ssh, Policy, At, Armed, Guarded, Attempt
  <1>3. CASE Reads(o)
    BY <1>1, <1>3 DEF Reads, GuardInv, Idle, Ssh, At, Guarded, Attempt
  <1>4. CASE Looks(o)
    BY <1>1, <1>4 DEF Looks, GuardInv, Idle, Ssh, At, Armed, Guarded, Attempt
  <1>5. CASE Banner(o)
    BY <1>1, <1>5 DEF Banner, GuardInv, Idle, Ssh, At, Moves, InTime, Rearmed, Guarded, Attempt
  <1>6. CASE Trusts(o) \/ Unknown(o)
    <2>1. CASE Trusts(o)
      BY <1>1, <2>1, TrustedFields DEF GuardInv, Idle, Ssh
    <2>2. CASE Unknown(o)
      BY <1>1, <2>2 DEF Unknown, GuardInv, Idle, Ssh, At, Guarded, Attempt
    <2>3. QED
      BY <1>6, <2>1, <2>2
  <1>7. CASE Probed(o)
    BY <1>1, <1>7 DEF Probed, GuardInv, Idle, Ssh, At, Punctual, Ended, Guarded, Attempt
  <1>8. CASE AcceptLocks(o) \/ Decides(o) \/ Writes(o) \/ ReadsBack(o) \/ Fails(o)
    <2>1. CASE open' = Failed(o) /\ guard' = Dropped(o)
      BY <2>1, BegunFields DEF GuardInv, Idle, Ssh
    <2>2. CASE open' = Accepted(o) /\ guard' = guard /\ open[o].stage \in Locking
      BY <2>2, BegunFields DEF GuardInv, Idle, Ssh
    <2>3. ASSUME NEW x \in Locking, Moves(o, x), guard' = guard, open[o].stage \in {"accepting"} \cup Locking
          PROVE  GuardInv(o)'
      BY <1>1, <2>3 DEF Moves, GuardInv, Idle, Ssh, Attempt
    <2>4. QED
      BY <1>8, <2>1, <2>2, <2>3 DEF AcceptLocks, Decides, Writes, Written, Moves, ReadsBack, Fails, At
  <1>9. CASE Opens(o)
    BY <1>1, <1>9 DEF Opens, GuardInv, Idle, Ssh, At, Moves, Punctual, Ended, Guarded, Attempt
  <1>10. CASE Returns(o)
    BY <1>1, <1>10 DEF Returns, GuardInv, Idle, Ssh, At, Moves, Punctual, Ended, Guarded, Attempt
  <1>11. CASE Calls(o)
    BY <1>1, <1>11 DEF Calls, GuardInv, Idle, Ssh, At, Moves, Armed, Guarded, Attempt
  <1>12. CASE TearsDown(o)
    BY <1>1, <1>12 DEF TearsDown, GuardInv, Idle, Ssh, At, Moves, Dropped, NoGuard, Guarded, Attempt
  <1>13. CASE Passes(o)
    BY <1>1, <1>13 DEF Passes, GuardInv, Idle, Ssh, Guarded
  <1>14. CASE Fires(o)
    BY <1>1, <1>14 DEF Fires, GuardInv, Idle, Ssh, Guarded
  <1>15. CASE Expires(o)
    BY <1>1, <1>15 DEF Expires, Due, GuardInv, Idle, Ssh, Guarded
  <1>16. CASE Aborts(o)
    BY <1>1, <1>16 DEF Aborts, GuardInv, Idle, Ssh, Guarded
  <1>17. QED
    BY <1>2, <1>3, <1>4, <1>5, <1>6, <1>7, <1>8, <1>9, <1>10, <1>11, <1>12, <1>13, <1>14, <1>15, <1>16
       DEF Step, Clock

\* By action: an arrival at a stage costs at most the deadlines it has.
LEMMA TurnKept ==
    ASSUME Typed, NEW o \in Open, TurnInv(o), Step(o) \/ Clock(o)
    PROVE  TurnInv(o)'
  <1>1. /\ open \in [Open -> Attempt] /\ guard \in [Open -> Guarded]
        /\ open[o] \in Attempt /\ guard[o] \in Guarded
    BY DEF Typed
  <1>2. CASE Begins(o)
    BY <1>1, <1>2 DEF Begins, TurnInv, Spent, Ssh, Policy, At, Armed, Guarded, Attempt
  <1>3. CASE Reads(o)
    BY <1>1, <1>3 DEF Reads, TurnInv, Spent, Ssh, At, Guarded, Attempt
  <1>4. CASE Looks(o)
    BY <1>1, <1>4 DEF Looks, TurnInv, Spent, Ssh, At, Armed, Guarded, Attempt
  <1>5. CASE Banner(o)
    BY <1>1, <1>5 DEF Banner, TurnInv, Spent, Ssh, At, Moves, InTime, Rearmed, Guarded, Attempt
  <1>6. CASE Trusts(o) \/ Unknown(o)
    <2>1. CASE Trusts(o)
      BY <1>1, <2>1, TrustedFields DEF TurnInv, Spent, Ssh
    <2>2. CASE Unknown(o)
      BY <1>1, <2>2 DEF Unknown, TurnInv, Spent, Ssh, At, Guarded, Attempt
    <2>3. QED
      BY <1>6, <2>1, <2>2
  <1>7. CASE Probed(o)
    BY <1>1, <1>7 DEF Probed, TurnInv, Spent, Ssh, At, Punctual, Ended, Guarded, Attempt
  <1>8. CASE AcceptLocks(o) \/ Decides(o) \/ Writes(o) \/ ReadsBack(o) \/ Fails(o)
    <2>1. CASE open' = Failed(o) /\ guard' = Dropped(o)
      BY <2>1, BegunFields DEF TurnInv, Spent, Ssh
    <2>2. CASE open' = Accepted(o) /\ guard' = guard /\ open[o].stage \in Locking
      BY <1>1, <2>2, BegunFields DEF TurnInv, Spent, Ssh, Guarded
    <2>3. ASSUME NEW x \in Locking, Moves(o, x), guard' = guard, open[o].stage \in {"accepting"} \cup Locking
          PROVE  TurnInv(o)'
      BY <1>1, <2>3 DEF Moves, TurnInv, Spent, Ssh, Attempt
    <2>4. QED
      BY <1>8, <2>1, <2>2, <2>3 DEF AcceptLocks, Decides, Writes, Written, Moves, ReadsBack, Fails, At
  <1>9. CASE Opens(o)
    BY <1>1, <1>9 DEF Opens, TurnInv, Spent, Ssh, At, Moves, Punctual, Ended, Guarded, Attempt
  <1>10. CASE Returns(o)
    BY <1>1, <1>10 DEF Returns, TurnInv, Spent, Ssh, At, Moves, Punctual, Ended, Guarded, Attempt
  <1>11. CASE Calls(o)
    BY <1>1, <1>11 DEF Calls, TurnInv, Spent, Ssh, At, Moves, Armed, Guarded, Attempt
  <1>12. CASE TearsDown(o)
    BY <1>1, <1>12 DEF TearsDown, TurnInv, Spent, Ssh, At, Moves, Dropped, NoGuard, Guarded, Attempt
  <1>13. CASE Clock(o)
    <2>1. CASE Passes(o) \/ Fires(o) \/ Aborts(o)
      BY <1>1, <2>1 DEF Passes, Fires, Aborts, Guarded, TurnInv, Spent, Ssh
    <2>2. CASE Expires(o)
      BY <1>1, <2>2 DEF Expires, Guarded, TurnInv, Spent, Ssh
    <2>3. QED
      BY <1>13, <2>1, <2>2 DEF Clock
  <1>14. QED
    BY <1>2, <1>3, <1>4, <1>5, <1>6, <1>7, <1>8, <1>9, <1>10, <1>11, <1>12, <1>13 DEF Step

\* The key that waits to be accepted is the one that was shown.
LEMMA KeyedKept ==
    ASSUME Typed, NEW o \in Open, Keyed(o), Step(o) \/ Clock(o)
    PROVE  Keyed(o)'
  <1>1. /\ open \in [Open -> Attempt] /\ open[o] \in Attempt
    BY DEF Typed
  <1>2. CASE Unknown(o) \/ Probed(o)
    BY <1>1, <1>2 DEF Unknown, Probed, Keyed, Attempt
  <1>3. CASE AcceptLocks(o) \/ Decides(o) \/ Writes(o) \/ ReadsBack(o) \/ Fails(o)
    <2>1. CASE open' = Failed(o) \/ open' = Accepted(o)
      BY <2>1, BegunFields DEF Keyed
    <2>2. ASSUME NEW x \in Locking, Moves(o, x), open[o].stage \in {"accepting"} \cup Locking
          PROVE  Keyed(o)'
      BY <1>1, <2>2 DEF Moves, Keyed, Attempt
    <2>3. CASE AcceptLocks(o) \/ Decides(o)
      BY <2>1, <2>2, <2>3 DEF AcceptLocks, Decides, At
    <2>4. CASE Writes(o) \/ ReadsBack(o) \/ Fails(o)
      BY <2>1, <2>2, <2>4 DEF Writes, Written, Moves, ReadsBack, Fails, At
    <2>5. QED
      BY <1>3, <2>3, <2>4
  <1>4. CASE Begins(o) \/ Reads(o) \/ Looks(o) \/ Banner(o) \/ Trusts(o)
    <2>1. CASE Begins(o) \/ Reads(o) \/ Looks(o) \/ Banner(o)
      BY <1>1, <2>1 DEF Begins, Reads, Looks, Banner, Moves, Keyed, Attempt
    <2>2. CASE Trusts(o)
      BY <2>2, TrustedFields DEF Keyed
    <2>3. QED
      BY <1>4, <2>1, <2>2
  <1>5. CASE Opens(o) \/ Calls(o) \/ Returns(o) \/ TearsDown(o)
    BY <1>1, <1>5 DEF Opens, Calls, Returns, TearsDown, Moves, Keyed, Attempt
  <1>6. CASE Clock(o)
    BY <1>6 DEF Clock, Passes, Fires, Expires, Aborts, Keyed
  <1>7. QED
    BY <1>2, <1>3, <1>4, <1>5, <1>6 DEF Step

\* What every deadline and timer keeps.
TimedInv == Typed /\ \A o \in Open : Keyed(o) /\ GuardInv(o) /\ TurnInv(o)

\* No open has begun.
LEMMA TimedInit == Init => TimedInv
  <1> SUFFICES ASSUME Init PROVE TimedInv
    OBVIOUS
  <1>1. file \in Hosts
    BY DEF Init, Hosts
  <1>2. NothingRead \in Hosts
    BY DEF NothingRead, Hosts
  <1>3. cache \in [Process -> Cache]
    BY <1>2 DEF Init, Cache
  <1>4. \A kind \in Kind : NotBegun(kind) \in Attempt
    BY <1>2 DEF NotBegun, Attempt, Stage
  <1>5. \A o \in Open : \E kind \in Kind : open[o] = NotBegun(kind)
    BY DEF Init
  <1>6. open \in [Open -> Attempt]
    BY <1>4, <1>5 DEF Init
  <1>7. guard \in [Open -> Guarded]
    BY DEF Init, NoGuard, Guarded
  <1>8. \A o \in Open : open[o].stage = "new" /\ ~open[o].probing /\ ~open[o].probed
    <2>1. \A kind \in Kind : NotBegun(kind).stage = "new" /\ ~NotBegun(kind).probing /\ ~NotBegun(kind).probed
      BY DEF NotBegun
    <2>2. QED
      BY <1>5, <2>1
  <1>9. \A o \in Open : Keyed(o) /\ GuardInv(o) /\ TurnInv(o)
    BY <1>8 DEF Init, NoGuard, Keyed, GuardInv, TurnInv, Idle, Spent
  <1>10. QED
    BY <1>1, <1>3, <1>6, <1>7, <1>9 DEF Typed, TimedInv

\* The others' guards are not touched.
LEMMA TimedStep == TimedInv /\ [Next]_vars => TimedInv'
  <1> SUFFICES ASSUME TimedInv, [Next]_vars PROVE TimedInv'
    OBVIOUS
  <1>1. Typed /\ Typed'
    BY TypedStep DEF TimedInv
  <1>2. CASE \E o \in Open : Step(o) \/ Clock(o)
    <2>1. PICK o \in Open : Step(o) \/ Clock(o)
      BY <1>2
    <2>2. Keyed(o)' /\ GuardInv(o)' /\ TurnInv(o)'
      BY <1>1, <2>1, KeyedKept, GuardKept, TurnKept DEF TimedInv
    <2>3. \A q \in Open : q # o => open'[q] = open[q] /\ guard'[q] = guard[q]
      BY <1>1, <2>1, OthersKept
    <2>4. \A q \in Open : q # o => Keyed(q)' /\ GuardInv(q)' /\ TurnInv(q)'
      BY <2>3 DEF TimedInv, Keyed, GuardInv, TurnInv, Idle, Spent, Ssh
    <2>5. QED
      BY <1>1, <2>2, <2>4 DEF TimedInv
  <1>3. CASE UNCHANGED <<open, guard>>
    BY <1>1, <1>3 DEF TimedInv, Keyed, GuardInv, TurnInv, Idle, Spent, Ssh
  <1>4. QED
    BY <1>2, <1>3 DEF Next, Revokes, ForgetsElsewhere, RereadsElsewhere, vars

\* The invariant of types and deadlines.
LEMMA Timed == Spec => []TimedInv
  BY TimedInit, TimedStep, PTL DEF Spec

\* Every variable keeps its type, and an open needs at most four deadlines, two for
\* each connection.
THEOREM TypeCorrect == Spec => []TypeOK
  <1>1. TimedInv => TypeOK
    <2> SUFFICES ASSUME TimedInv PROVE TypeOK
      OBVIOUS
    <2>1. \A o \in Open : guard[o] \in Guarded /\ GuardInv(o) /\ TurnInv(o)
      BY DEF TimedInv, Typed
    <2>2. \A o \in Open : guard[o].turn \in 0..MaxTurn /\ guard[o].fired \in SUBSET (1..MaxTurn)
      BY <2>1 DEF GuardInv, TurnInv, Guarded
    <2>3. \A o \in Open : guard[o] \in Guard
      BY <2>1, <2>2 DEF Guarded, Guard
    <2>4. QED
      BY <2>3 DEF TimedInv, Typed, TypeOK
  <1>2. QED
    BY <1>1, Timed, PTL

\* Only the deadline in force, once it has passed, expires an open or a call.
THEOREM TimersAreDue == Spec => []OnlyOverdue
  <1>1. TimedInv => OnlyOverdue
    BY DEF TimedInv, GuardInv, OnlyOverdue
  <1>2. QED
    BY <1>1, Timed, PTL

\* No timer aborts the transport of a session that is handed out.
THEOREM SessionsAreAlive == Spec => []HandedOutAlive
  <1>1. TimedInv => HandedOutAlive
    BY DEF TimedInv, GuardInv, Idle, HandedOutAlive, At
  <1>2. QED
    BY <1>1, Timed, PTL

-----------------------------------------------------------------------------
(* Pins                                                                    *)

\* What an attempt has read is on file, nobody writes where a pin is, and a session
\* whose key was checked has the pin.
Pinned(o) ==
    /\ open[o].known.pins \subseteq file.pins
    /\ At(o, "writing") => file.pins = {}
    /\ At(o, "rereading") => ~Ssh(o)
    /\ Checked(o) => open[o].key \in file.pins

PinInv ==
    /\ \A k, l \in file.pins : k = l
    /\ \A p \in Process : cache[p].ssh.pins \subseteq file.pins /\ cache[p].netconf.pins \subseteq file.pins
    /\ \A o, q \in Open : open[o].stage \in Locking /\ open[q].stage \in Locking => o = q
    /\ \A o \in Open : Pinned(o)

\* Only a writer writes.
LEMMA FileKept ==
    ASSUME NEW o \in Open, Step(o) \/ Clock(o), ~Writes(o)
    PROVE  file' = file
  BY DEF Step, Clock, Begins, Reads, Looks, Banner, Trusts, Unknown, Probed, AcceptLocks, Decides, ReadsBack,
     Opens, Fails, Calls, Returns, TearsDown, Passes, Fires, Expires, Aborts

\* The caches get what is on file, lose what they have or keep it.
LEMMA CacheFilled ==
    ASSUME Typed, NEW o \in Open, Step(o) \/ Clock(o), NEW p \in Process
    PROVE  /\ cache'[p].ssh = cache[p].ssh \/ cache'[p].ssh = file
           /\ cache'[p].netconf \in {cache[p].netconf, file, NothingRead}
  <1>1. /\ cache \in [Process -> Cache] /\ cache[p] \in Cache /\ cache[ProcessOf(o)] \in Cache
    BY OthersTyped DEF Typed
  <1>2. CASE Reads(o)
    BY <1>1, <1>2 DEF Reads, Cache
  <1>3. CASE Looks(o)
    BY <1>1, <1>3 DEF Looks, Loaded, Cache
  <1>4. CASE AcceptLocks(o) \/ Decides(o) \/ Writes(o) \/ ReadsBack(o)
    <2>1. cache' = Forgets(o) \/ cache' = Rereads(o)
      BY <1>4 DEF AcceptLocks, Decides, Writes, ReadsBack
    <2>2. QED
      BY <1>1, <2>1 DEF Forgets, Rereads, Cache
  <1>5. CASE ~Reads(o) /\ ~Looks(o) /\ ~AcceptLocks(o) /\ ~Decides(o) /\ ~Writes(o) /\ ~ReadsBack(o)
    <2>1. cache' = cache
      BY <1>5 DEF Step, Clock, Begins, Banner, Trusts, Unknown, Probed, Opens, Fails,
         Calls, Returns, TearsDown, Passes, Fires, Expires, Aborts
    <2>2. QED
      BY <2>1
  <1>6. QED
    BY <1>2, <1>3, <1>4, <1>5

\* An open of another host fills the caches no differently.
LEMMA ElsewhereFilled ==
    ASSUME Typed, NEW x \in Process, ForgetsElsewhere(x) \/ RereadsElsewhere(x), NEW p \in Process
    PROVE  /\ cache'[p].ssh = cache[p].ssh
           /\ cache'[p].netconf \in {cache[p].netconf, file, NothingRead}
  <1>1. cache \in [Process -> Cache] /\ cache[p] \in Cache
    BY DEF Typed
  <1>2. PICK h \in {file, NothingRead}, b \in BOOLEAN :
           cache' = [cache EXCEPT ![x].netconf = h, ![x].held = b]
    BY DEF ForgetsElsewhere, RereadsElsewhere
  <1>3. CASE p = x
    <2>1. cache'[p] = [cache[p] EXCEPT !.netconf = h, !.held = b]
      BY <1>1, <1>2, <1>3
    <2>2. QED
      BY <1>1, <1>2, <2>1 DEF Cache
  <1>4. CASE p # x
    BY <1>1, <1>2, <1>4
  <1>5. QED
    BY <1>3, <1>4

\* What the step of an attempt makes of it, if it does not write.
LEMMA PinnedKept ==
    ASSUME Typed, PinInv, NEW o \in Open, Keyed(o), Step(o), ~Writes(o)
    PROVE  /\ Pinned(o)'
           /\ open'[o].stage \in Locking /\ open[o].stage \notin Locking =>
                 \A q \in Open : open[q].stage \notin Locking
  <1>1. /\ open \in [Open -> Attempt] /\ open[o] \in Attempt /\ ProcessOf(o) \in Process
        /\ file' = file
    BY FileKept, OthersTyped DEF Typed
  <1>2. /\ Pinned(o) /\ NothingRead.pins = {}
        /\ cache[ProcessOf(o)].ssh.pins \subseteq file.pins
        /\ cache[ProcessOf(o)].netconf.pins \subseteq file.pins
        /\ Loaded(ProcessOf(o)).pins \subseteq file.pins
    BY <1>1 DEF PinInv, NothingRead, Loaded
  <1>3. CASE Begins(o)
    BY <1>1, <1>2, <1>3 DEF Begins, Pinned, Checked, Ssh, At, Policy, Attempt
  <1>4. CASE Reads(o) \/ Looks(o)
    BY <1>1, <1>2, <1>4 DEF Reads, Looks, Pinned, Checked, Ssh, At, Policy, Attempt
  <1>5. CASE Trusts(o)
    BY <1>1, <1>2, <1>5 DEF Trusts, Pinned, Checked, Ssh, At, Policy, Attempt
  <1>6. CASE Unknown(o) \/ Probed(o)
    BY <1>1, <1>2, <1>6 DEF Unknown, Probed, Pinned, Checked, Ssh, At, Policy, Attempt
  <1>7. CASE AcceptLocks(o) \/ Decides(o) \/ ReadsBack(o)
    <2>1. CASE open' = Failed(o)
      BY <1>1, <1>2, <2>1, BegunFields DEF Pinned, Checked, Ssh, At
    <2>2. CASE open' = Accepted(o) /\ (Ssh(o) => open[o].key \in file.pins)
      BY <1>1, <1>2, <2>2, BegunFields DEF Pinned, Checked, Ssh, At
    <2>3. CASE AcceptLocks(o)
      BY <1>1, <1>2, <2>3 DEF AcceptLocks, Moves, Locked, Pinned, Checked, Ssh, At, Attempt
    <2>4. CASE Moves(o, "writing") /\ open[o].stage = "deciding" /\ file.pins = {}
      BY <1>1, <1>2, <2>4 DEF Moves, Pinned, Checked, Ssh, At, Attempt
    <2>5. CASE Decides(o)
      BY <2>1, <2>2, <2>4, <2>5 DEF Decides, OnFile, At
    <2>6. CASE ReadsBack(o)
      BY <1>2, <2>2, <2>6 DEF ReadsBack, At, Pinned
    <2>7. QED
      BY <1>7, <2>3, <2>5, <2>6
  <1>8. CASE Fails(o)
    BY <1>1, <1>2, <1>8, BegunFields DEF Fails, Pinned, Checked, Ssh, At
  <1>9. CASE Banner(o)
    BY <1>1, <1>2, <1>9 DEF Banner, Moves, Pinned, Checked, Ssh, At, Policy, Attempt
  <1>10. CASE Opens(o) \/ Calls(o) \/ Returns(o) \/ TearsDown(o)
    BY <1>1, <1>2, <1>10 DEF Opens, Calls, Returns, TearsDown, Moves, Pinned, Checked, Ssh, At, Policy, Attempt
  <1>11. QED
    BY <1>3, <1>4, <1>5, <1>6, <1>7, <1>8, <1>9, <1>10 DEF Step

\* A pin is written where there is none: nobody else writes, and nobody was checked.
LEMMA PinWritten ==
    ASSUME Typed, PinInv, NEW o \in Open, Keyed(o), Writes(o)
    PROVE  PinInv'
  <1>1. /\ open \in [Open -> Attempt] /\ open[o] \in Attempt /\ file \in Hosts /\ At(o, "writing")
        /\ open[o].key \in Key /\ file.pins = {}
        /\ \A q \in Open : q # o => open'[q] = open[q] /\ open[q].stage \notin Locking
    BY OthersKept DEF Typed, Writes, Keyed, At, PinInv, Pinned, Step
  <1>2. file'.pins = {open[o].key}
    BY <1>1 DEF Writes, Hosts
  <1>3. \A p \in Process : /\ cache'[p].ssh.pins \subseteq file'.pins
                           /\ cache'[p].netconf.pins \subseteq file'.pins
    <2>1. NothingRead.pins = {}
      BY DEF NothingRead
    <2>2. QED
      BY <1>1, <2>1, CacheFilled DEF PinInv, Step
  <1>4. open'[o].known.pins \subseteq file.pins /\ Pinned(o)'
    <2>1. open' = Written(o) /\ NothingRead.pins = {}
      BY <1>1 DEF Writes, NothingRead
    <2>2. CASE Ssh(o)
      BY <1>1, <1>2, <2>1, <2>2, BegunFields DEF Written, Pinned, Checked, Ssh, At, PinInv
    <2>3. CASE ~Ssh(o)
      <3>1. /\ open'[o].stage = "rereading" /\ open'[o].known = open[o].known
            /\ open'[o].kind = open[o].kind
        BY <1>1, <2>1, <2>3 DEF Written, Attempt
      <3>2. QED
        BY <1>1, <2>3, <3>1 DEF Pinned, Checked, Ssh, At, PinInv
    <2>4. QED
      BY <2>2, <2>3
  <1>5. \A q \in Open : q # o => Pinned(q)' /\ open'[q].stage \notin Locking
    BY <1>1 DEF PinInv, Pinned, Checked, Policy, Ssh, At
  <1>6. QED
    BY <1>2, <1>3, <1>4, <1>5 DEF PinInv

\* At most one pin is there, and nothing is read.
LEMMA PinInit == Init => PinInv
  <1> SUFFICES ASSUME Init PROVE PinInv
    OBVIOUS
  <1>1. \A k, l \in file.pins : k = l
    BY DEF Init
  <1>2. \A p \in Process : cache[p].ssh.pins = {} /\ cache[p].netconf.pins = {}
    BY DEF Init, NothingRead
  <1>3. \A kind \in Kind : NotBegun(kind).stage = "new" /\ NotBegun(kind).known.pins = {}
    BY DEF NotBegun, NothingRead
  <1>4. \A o \in Open : open[o].stage = "new" /\ open[o].known.pins = {}
    BY <1>3 DEF Init
  <1>5. QED
    BY <1>1, <1>2, <1>4 DEF PinInv, Pinned, Checked, Ssh, At

\* A step writes the first pin, or leaves the pins alone.
LEMMA PinStep == TimedInv /\ PinInv /\ [Next]_vars => PinInv'
  <1> SUFFICES ASSUME TimedInv, PinInv, [Next]_vars PROVE PinInv'
    OBVIOUS
  <1>1. Typed /\ \A o \in Open : Keyed(o)
    BY DEF TimedInv
  <1>2. ASSUME NEW o \in Open, Step(o), ~Writes(o) PROVE PinInv'
    <2>1. file' = file /\ \A q \in Open : q # o => open'[q] = open[q]
      BY <1>1, <1>2, FileKept, OthersKept
    <2>2. \A p \in Process : /\ cache'[p].ssh.pins \subseteq file'.pins
                             /\ cache'[p].netconf.pins \subseteq file'.pins
      <3>1. NothingRead.pins = {}
        BY DEF NothingRead
      <3>2. QED
        BY <1>1, <1>2, <2>1, <3>1, CacheFilled DEF PinInv
    <2>3. \A q \in Open : q # o => Pinned(q)' /\ open'[q].stage = open[q].stage
      BY <2>1 DEF PinInv, Pinned, Checked, Policy, Ssh, At
    <2>4. /\ Pinned(o)'
          /\ open'[o].stage \in Locking /\ open[o].stage \notin Locking =>
                \A q \in Open : open[q].stage \notin Locking
      BY <1>1, <1>2, PinnedKept
    <2>5. QED
      BY <2>1, <2>2, <2>3, <2>4 DEF PinInv
  <1>3. ASSUME UNCHANGED <<open, cache>>, file'.pins = file.pins PROVE PinInv'
    BY <1>3 DEF PinInv, Pinned, Checked, Policy, Ssh, At
  <1>4. CASE \E o \in Open : Step(o)
    BY <1>1, <1>2, <1>4, PinWritten
  <1>5. CASE \E o \in Open : Clock(o)
    BY <1>3, <1>5 DEF Clock, Passes, Fires, Expires, Aborts
  <1>6. CASE \E k \in Key : Revokes(k)
    BY <1>1, <1>3, <1>6 DEF Revokes, Typed, Hosts
  <1>7. CASE \E p \in Elsewhere : ForgetsElsewhere(p) \/ RereadsElsewhere(p)
    <2>1. PICK p \in Process : ForgetsElsewhere(p) \/ RereadsElsewhere(p)
      BY <1>7
    <2>2. UNCHANGED <<file, open>>
      BY <2>1 DEF ForgetsElsewhere, RereadsElsewhere
    <2>3. \A x \in Process : /\ cache'[x].ssh.pins \subseteq file.pins
                             /\ cache'[x].netconf.pins \subseteq file.pins
      BY <1>1, <2>1, ElsewhereFilled DEF PinInv, NothingRead
    <2>4. QED
      BY <2>2, <2>3 DEF PinInv, Pinned, Checked, Policy, Ssh, At
  <1>8. CASE UNCHANGED vars
    BY <1>3, <1>8 DEF vars
  <1>9. QED
    BY <1>4, <1>5, <1>6, <1>7, <1>8 DEF Next

\* All sessions that checked their host's key were shown the same.
THEOREM OneKeyTrusted == Spec => []TrustOnFirstUse
  <1>1. Init => TimedInv /\ PinInv
    BY TimedInit, PinInit
  <1>2. TimedInv /\ PinInv /\ [Next]_vars => (TimedInv /\ PinInv)'
    BY TimedStep, PinStep
  <1>3. PinInv => TrustOnFirstUse
    BY DEF PinInv, Pinned, TrustOnFirstUse
  <1>4. QED
    BY <1>1, <1>2, <1>3, PTL DEF Spec

-----------------------------------------------------------------------------
(* Revocations                                                             *)

\* An attempt of ssh has read of all revocations it must respect before a key is checked,
\* one of netconf finds them in the cache or, when it is forgotten, in the file; and ssh's
\* cache is the file while the stamp says so.
SshWarned(o) ==
    /\ open[o].knew \subseteq file.revoked
    /\ Policy(o) # "off" /\ open[o].stage \in {"connecting", "kex"} =>
          open[o].knew \subseteq open[o].known.revoked
    /\ open[o].stage \in {"accepting"} \cup Locking => open[o].key \notin open[o].knew

NetconfWarned(o, p) == open[o].knew \subseteq Loaded(p).revoked

Warned(o) ==
    /\ Ssh(o) => SshWarned(o)
    /\ \A p \in Process : ~Ssh(o) /\ ProcessOf(o) = p => NetconfWarned(o, p)
    /\ Checked(o) /\ ~open[o].blind => open[o].key \notin open[o].knew
    /\ open[o].stage = "rereading" => ~Ssh(o)

CacheInv ==
    /\ file.stamp >= 1
    /\ \A p \in Process :
          /\ cache[p].ssh.stamp <= file.stamp
          /\ cache[p].ssh.stamp = file.stamp => cache[p].ssh.revoked = file.revoked
          /\ cache[p].netconf.revoked \subseteq file.revoked

RevokedInv == CacheInv /\ \A o \in Open : Warned(o)

\* What the caches become: what they were, what is on file, or nothing for netconf.
Filled ==
    \A p \in Process : /\ cache'[p].ssh = cache[p].ssh \/ cache'[p].ssh = file
                       /\ cache'[p].netconf \in {cache[p].netconf, file, NothingRead}

\* What is known of revocations only grows, whoever forgets and reads.
LEMMA MoreKnown ==
    ASSUME Typed, CacheInv, Filled, file' \in Hosts,
           file.revoked \subseteq file'.revoked, file'.stamp >= file.stamp,
           file' = file \/ file'.stamp = file.stamp + 1
    PROVE  CacheInv' /\ \A p \in Process : Loaded(p).revoked \subseteq Loaded(p)'.revoked
  <1>1. file \in Hosts /\ file.stamp >= 1 /\ NothingRead.revoked = {} /\ NothingRead.stamp = 0
    BY DEF Typed, CacheInv, NothingRead
  <1>2. ASSUME NEW p \in Process
        PROVE  /\ cache'[p].ssh = cache[p].ssh \/ cache'[p].ssh = file
               /\ cache'[p].netconf \in {cache[p].netconf, file, NothingRead}
               /\ cache[p].ssh \in Hosts /\ cache[p].netconf \in Hosts
               /\ cache[p].ssh.stamp <= file.stamp
               /\ cache[p].ssh.stamp = file.stamp => cache[p].ssh.revoked = file.revoked
               /\ cache[p].netconf.revoked \subseteq file.revoked
    BY HostsTyped DEF CacheInv, Filled
  <1>3. ASSUME NEW p \in Process
        PROVE  /\ cache'[p].ssh.stamp <= file'.stamp
               /\ cache'[p].ssh.stamp = file'.stamp => cache'[p].ssh.revoked = file'.revoked
    BY <1>1, <1>2 DEF Hosts
  <1>4. ASSUME NEW p \in Process
        PROVE  /\ cache'[p].netconf.revoked \subseteq file'.revoked
               /\ Loaded(p).revoked \subseteq Loaded(p)'.revoked
    BY <1>1, <1>2 DEF Loaded
  <1>5. CacheInv'
    BY <1>1, <1>3, <1>4 DEF CacheInv, Hosts
  <1>6. QED
    BY <1>4, <1>5

LEMMA MoreRevoked ==
    ASSUME Typed, CacheInv, NEW o \in Open, Keyed(o), Step(o)
    PROVE  /\ CacheInv'
           /\ file'.revoked = file.revoked
           /\ \A p \in Process : Loaded(p).revoked \subseteq Loaded(p)'.revoked
  <1>1. file \in Hosts /\ file' \in Hosts
    BY FilesTypedStep DEF Typed
  <1>2. /\ file'.revoked = file.revoked /\ file'.stamp >= file.stamp
        /\ file' = file \/ file'.stamp = file.stamp + 1
    <2>1. CASE Writes(o)
      BY <1>1, <2>1 DEF Writes, Hosts
    <2>2. CASE ~Writes(o)
      BY <1>1, <2>2, FileKept DEF Hosts
    <2>3. QED
      BY <2>1, <2>2
  <1>3. Filled
    BY CacheFilled DEF Filled
  <1>4. QED
    BY <1>1, <1>2, <1>3, MoreKnown

\* By action: revocations are read before a key is checked against them.
LEMMA WarnedKept ==
    ASSUME Typed, RevokedInv, NEW o \in Open, Keyed(o), TurnInv(o), Step(o)
    PROVE  Warned(o)'
  <1>1. PICK p \in Process : p = ProcessOf(o)
    BY OthersTyped
  <1>2. /\ open \in [Open -> Attempt] /\ open[o] \in Attempt
        /\ file'.revoked = file.revoked /\ file \in Hosts /\ file.stamp >= 1
        /\ cache \in [Process -> Cache] /\ cache[p] \in Cache
    BY <1>1, MoreRevoked, OthersTyped DEF Typed, RevokedInv, CacheInv
  <1>3. Loaded(p).revoked \subseteq Loaded(p)'.revoked
    BY <1>1, MoreRevoked DEF RevokedInv
  <1>4. /\ Ssh(o) => SshWarned(o)
        /\ ~Ssh(o) => NetconfWarned(o, p)
        /\ Checked(o) /\ ~open[o].blind => open[o].key \notin open[o].knew
        /\ open[o].stage = "rereading" => ~Ssh(o)
    BY <1>1 DEF RevokedInv, Warned
  <1>5. open'[o].kind = open[o].kind
    <2>1. CASE AcceptLocks(o) \/ Decides(o) \/ Writes(o) \/ ReadsBack(o) \/ Fails(o)
      BY <1>2, <2>1, BegunFields DEF AcceptLocks, Decides, Writes, Written, ReadsBack, Fails, Moves, Attempt
    <2>2. CASE Begins(o) \/ Reads(o) \/ Looks(o)
      BY <1>2, <2>2 DEF Begins, Reads, Looks, Attempt
    <2>3. CASE Trusts(o) \/ Unknown(o) \/ Probed(o)
      BY <1>2, <2>3, TrustedFields DEF Unknown, Probed, Attempt
    <2>4. CASE Banner(o) \/ Opens(o) \/ Calls(o) \/ Returns(o) \/ TearsDown(o)
      BY <1>2, <2>4 DEF Banner, Opens, Calls, Returns, TearsDown, Moves, Attempt
    <2>5. QED
      BY <2>1, <2>2, <2>3, <2>4 DEF Step
  <1>6. SUFFICES /\ Ssh(o) => SshWarned(o)'
                 /\ ~Ssh(o) => NetconfWarned(o, p)'
                 /\ Checked(o)' /\ ~open'[o].blind => open'[o].key \notin open'[o].knew
                 /\ open'[o].stage = "rereading" => ~Ssh(o)
    BY <1>1, <1>5 DEF Warned, Ssh, ProcessOf
  <1> USE DEF SshWarned, NetconfWarned, Checked, Policy, Ssh, At
  <1>7. CASE Begins(o)
    BY <1>1, <1>2, <1>3, <1>4, <1>7 DEF Begins, Loaded, Attempt
  <1>8. CASE Reads(o)
    <2>1. PICK h \in {cache[p].ssh, file} :
             /\ Fresh(p) \/ h = file
             /\ open' = [open EXCEPT ![o].stage = "connecting", ![o].known = h]
      BY <1>1, <1>8 DEF Reads
    <2>2. h.revoked = file.revoked
      BY <1>1, <2>1 DEF Reads, Fresh, CacheInv, RevokedInv
    <2>3. QED
      BY <1>2, <1>4, <1>8, <2>1, <2>2 DEF Reads, Attempt
  <1>9. CASE Looks(o)
    BY <1>2, <1>3, <1>4, <1>9 DEF Looks, Attempt
  <1>10. CASE Trusts(o)
    BY <1>1, <1>2, <1>3, <1>4, <1>10, TrustedFields DEF Forgotten, Revoked, Loaded
  <1>11. CASE Unknown(o) \/ Probed(o)
    BY <1>1, <1>2, <1>3, <1>4, <1>11 DEF Unknown, Probed, Revoked, TurnInv, Attempt
  <1>12. CASE AcceptLocks(o) \/ Decides(o) \/ Writes(o) \/ ReadsBack(o) \/ Fails(o)
    <2>1. CASE open' = Failed(o)
      BY <2>1, BegunFields
    <2>2. CASE open' = Accepted(o) /\ open[o].stage \in Locking
      BY <1>2, <1>3, <1>4, <2>2, BegunFields
    <2>3. ASSUME NEW x \in Locking, Moves(o, x), open[o].stage \in {"accepting"} \cup Locking,
                 x = "rereading" => ~Ssh(o)
          PROVE  /\ Ssh(o) => SshWarned(o)'
                 /\ ~Ssh(o) => NetconfWarned(o, p)'
                 /\ Checked(o)' /\ ~open'[o].blind => open'[o].key \notin open'[o].knew
                 /\ open'[o].stage = "rereading" => ~Ssh(o)
      BY <1>2, <1>3, <1>4, <2>3 DEF Moves, Attempt
    <2>4. CASE AcceptLocks(o) \/ Decides(o)
      BY <2>1, <2>2, <2>3, <2>4 DEF AcceptLocks, Decides, At
    <2>5. CASE Writes(o) \/ ReadsBack(o) \/ Fails(o)
      BY <2>1, <2>2, <2>3, <2>5 DEF Writes, Written, Moves, ReadsBack, Fails, At
    <2>6. QED
      BY <1>12, <2>4, <2>5
  <1>13. CASE Banner(o) \/ Opens(o) \/ Calls(o) \/ Returns(o) \/ TearsDown(o)
    BY <1>2, <1>3, <1>4, <1>13 DEF Banner, Opens, Calls, Returns, TearsDown, Moves, Attempt
  <1>14. QED
    BY <1>7, <1>8, <1>9, <1>10, <1>11, <1>12, <1>13 DEF Step

\* No open knows of a revocation.
LEMMA RevokedInit == Init => RevokedInv
  <1> SUFFICES ASSUME Init PROVE RevokedInv
    OBVIOUS
  <1>1. CacheInv
    BY DEF Init, CacheInv, NothingRead
  <1>2. \A kind \in Kind : NotBegun(kind).stage = "new" /\ NotBegun(kind).knew = {}
    BY DEF NotBegun
  <1>3. \A o \in Open : open[o].stage = "new" /\ open[o].knew = {}
    BY <1>2 DEF Init
  <1>4. QED
    BY <1>1, <1>3 DEF RevokedInv, Warned, SshWarned, NetconfWarned, Checked

\* An attempt that does not move is as warned as it was.
LEMMA WarnedStill ==
    ASSUME NEW q \in Open, Warned(q), open'[q] = open[q], file.revoked \subseteq file'.revoked,
           \A p \in Process : Loaded(p).revoked \subseteq Loaded(p)'.revoked
    PROVE  Warned(q)'
  <1>1. \A p \in Process : NetconfWarned(q, p) => NetconfWarned(q, p)'
    BY DEF NetconfWarned
  <1>2. SshWarned(q) => SshWarned(q)'
    BY DEF SshWarned, Policy
  <1>3. QED
    BY <1>1, <1>2 DEF Warned, Ssh, ProcessOf, Checked, Policy

\* Whatever else happens, the revocations read stay read.
LEMMA RevokedStep == TimedInv /\ RevokedInv /\ [Next]_vars => RevokedInv'
  <1> SUFFICES ASSUME TimedInv, RevokedInv, [Next]_vars PROVE RevokedInv'
    OBVIOUS
  <1>1. Typed /\ \A o \in Open : Keyed(o) /\ TurnInv(o)
    BY DEF TimedInv
  <1>2. ASSUME NEW o \in Open, Step(o) PROVE RevokedInv'
    <2>1. /\ CacheInv' /\ file'.revoked = file.revoked
          /\ \A p \in Process : Loaded(p).revoked \subseteq Loaded(p)'.revoked
      BY <1>1, <1>2, MoreRevoked DEF RevokedInv
    <2>2. Warned(o)'
      BY <1>1, <1>2, WarnedKept
    <2>3. ASSUME NEW q \in Open, q # o PROVE Warned(q)'
      <3>1. open'[q] = open[q] /\ Warned(q)
        BY <1>1, <1>2, <2>3, OthersKept DEF RevokedInv
      <3>2. QED
        BY <2>1, <3>1, WarnedStill
    <2>4. QED
      BY <2>1, <2>2, <2>3 DEF RevokedInv
  <1>3. ASSUME UNCHANGED <<file, cache, open>> PROVE RevokedInv'
    BY <1>3 DEF RevokedInv, CacheInv, Warned, SshWarned, NetconfWarned, Loaded, Checked, Policy, Ssh, ProcessOf
  <1>4. ASSUME NEW k \in Key, Revokes(k) PROVE RevokedInv'
    <2>1. /\ file \in Hosts /\ \A p \in Process : cache[p].ssh \in Hosts /\ cache[p].netconf \in Hosts
      BY <1>1, HostsTyped DEF Typed
    <2>2. /\ file'.revoked = file.revoked \cup {k} /\ file'.stamp = file.stamp + 1
          /\ cache' = cache /\ open' = open
      BY <1>4, <2>1 DEF Revokes, Hosts
    <2>3. file' \in Hosts /\ Filled
      BY <1>1, <1>4, <2>2, HostsTyped DEF Filled, Revokes
    <2>4. CacheInv' /\ \A p \in Process : Loaded(p).revoked \subseteq Loaded(p)'.revoked
      BY <1>1, <2>1, <2>2, <2>3, MoreKnown DEF RevokedInv, Hosts
    <2>5. \A q \in Open : Warned(q)'
      BY <2>2, <2>4, WarnedStill DEF RevokedInv
    <2>6. QED
      BY <2>4, <2>5 DEF RevokedInv
  <1>5. CASE \E p \in Elsewhere : ForgetsElsewhere(p) \/ RereadsElsewhere(p)
    <2>1. PICK p \in Process : ForgetsElsewhere(p) \/ RereadsElsewhere(p)
      BY <1>5
    <2>2. UNCHANGED <<file, open>> /\ file \in Hosts
      BY <1>1, <2>1 DEF ForgetsElsewhere, RereadsElsewhere, Typed
    <2>3. Filled
      BY <1>1, <2>1, ElsewhereFilled DEF Filled
    <2>4. CacheInv' /\ \A x \in Process : Loaded(x).revoked \subseteq Loaded(x)'.revoked
      BY <1>1, <2>2, <2>3, MoreKnown DEF RevokedInv, Hosts
    <2>5. \A q \in Open : Warned(q)'
      BY <2>2, <2>4, WarnedStill DEF RevokedInv
    <2>6. QED
      BY <2>4, <2>5 DEF RevokedInv
  <1>6. CASE \E o \in Open : Clock(o)
    BY <1>3, <1>6 DEF Clock, Passes, Fires, Expires, Aborts
  <1>7. CASE UNCHANGED vars
    BY <1>3, <1>7 DEF vars
  <1>8. QED
    BY <1>2, <1>4, <1>5, <1>6, <1>7 DEF Next

\* No session is logged in under a key its open knew to be revoked: what was on file as
\* it began for ssh, what its process had read for netconf unless the file was forgotten
\* when the key was checked.
THEOREM NoRevokedKey == Spec => []RevokedRefused
  <1>1. Init => TimedInv /\ RevokedInv
    BY TimedInit, RevokedInit
  <1>2. TimedInv /\ RevokedInv /\ [Next]_vars => (TimedInv /\ RevokedInv)'
    BY TimedStep, RevokedStep
  <1>3. RevokedInv => RevokedRefused
    BY DEF RevokedInv, Warned, RevokedRefused
  <1>4. QED
    BY <1>1, <1>2, <1>3, PTL DEF Spec
=============================================================================
