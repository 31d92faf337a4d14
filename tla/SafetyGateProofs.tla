-------------------------- MODULE SafetyGateProofs --------------------------
(***************************************************************************)
(* Proofs about SafetyGate, for every set of processes and devices and     *)
(* every value of the settings.                                            *)
(***************************************************************************)
EXTENDS SafetyGate, FiniteSetTheorems, TLAPS

USE GateAssumption

-----------------------------------------------------------------------------
(* The operators the gate is built from                                    *)

\* Pruning keeps a cooldown exactly while it lasts and invents none.
LEMMA PrunedFact ==
    ASSUME NEW c \in Expiry, NEW now \in Nat
    PROVE  /\ Pruned(c, now) \in Expiry
           /\ \A d \in Device : c[d] > now => Pruned(c, now)[d] = c[d]
           /\ \A d \in Device : Pruned(c, now)[d] > now => c[d] = Pruned(c, now)[d]
  BY DEF Expiry, Time, Pruned

\* What a _sync merges is never earlier than what is unexpired in memory, nor,
\* with a file, than what is unexpired on disk.
LEMMA MergedFact ==
    ASSUME TypeOK, NEW c \in Expiry
    PROVE  /\ Merged(c) \in Expiry
           /\ \A d \in Device : c[d] > wall => Merged(c)[d] >= c[d]
           /\ \A d \in Device : HasFile /\ disk[d] > wall => Merged(c)[d] >= disk[d]
  BY DEF Expiry, Time, Pruned, Merged, Later, TypeOK

\* The gate records the operations build are gates.
LEMMA GateFact ==
    ASSUME TypeOK, NEW g \in Gate, NEW d \in Device, NEW a \in Login
    PROVE  /\ NoGate \in Gate /\ NewGate \in Gate
           /\ Synced(g) \in Gate
           /\ Latched(g) \in Gate
           /\ LoginRefused(g, d) \in Gate
           /\ LoginCounted(g, d, a) \in Gate
           /\ Reserved(g, d) \in Gate
           /\ Cooled(g, d) \in Gate
           /\ Released(g, d) \in Gate
  <1>1. NoGate \in Gate /\ NewGate \in Gate
    BY DEF NoGate, NewGate, Gate, Expiry, Time, NoLogins, NoCooldowns
  <1>2. Synced(g) \in Gate
    BY MergedFact DEF Synced, Gate
  <1>3. Latched(g) \in Gate
    BY <1>1 DEF Latched, Gate
  <1>4. LoginRefused(g, d) \in Gate /\ LoginCounted(g, d, a) \in Gate
    BY DEF LoginRefused, LoginCounted, WithAttempts, Recent, Gate
  <1>5. Reserved(g, d) \in Gate /\ Released(g, d) \in Gate
    BY DEF Reserved, Released, Gate
  <1>6. Cooled(g, d) \in Gate
    <2>1. Later(wall + CooldownSeconds, g.cooldowns[d]) \in Time
      BY DEF Gate, TypeOK, Later, Expiry, Time
    <2>2. [g.cooldowns EXCEPT ![d] = Later(wall + CooldownSeconds, @)] \in Expiry
      BY <2>1 DEF Gate, Expiry
    <2>3. g.active \ {d} \in SUBSET Device
      BY DEF Gate
    <2>4. QED
      BY <2>2, <2>3 DEF Cooled, Gate
  <1>7. QED
    BY <1>1, <1>2, <1>3, <1>4, <1>5, <1>6

\* A _sync leaves a well-formed file, whether it succeeds or raises.
LEMMA FileFact ==
    ASSUME TypeOK, NEW g \in Gate, NEW persist \in BOOLEAN,
           Persisted(g, persist) \/ SyncError(g, persist) \/ UNCHANGED fileVars
    PROVE  disk' \in Expiry /\ invalid' \in BOOLEAN /\ marker' \in BOOLEAN
  <1>1. g.cooldowns \in Expiry
    BY DEF Gate
  <1>2. Written(g.cooldowns) \in Expiry
    BY <1>1, MergedFact DEF Written
  <1>3. NoCooldowns \in Expiry
    BY DEF NoCooldowns, Expiry, Time
  <1>4. QED
    BY <1>2, <1>3 DEF Persisted, SyncError, fileVars, TypeOK

-----------------------------------------------------------------------------
(* Type correctness                                                        *)

LoginsType ==
    /\ logins \in [Process -> [Device -> SUBSET Login]]
    /\ \A p \in Process, d \in Device : IsFiniteSet(logins[p][d])

LEMMA SetGateType ==
    ASSUME TypeOK, NEW p \in Process, NEW g \in Gate, SetGate(p, g)
    PROVE  gate' \in [Process -> Gate]
  BY DEF SetGate, TypeOK

LEMMA ThisLoginType ==
    ASSUME TypeOK, NEW p \in Process, NEW d \in Device
    PROVE  ThisLogin(p, d) \in Login
  BY FS_CardinalityType DEF ThisLogin, Login, TypeOK, Time

\* The login count_login notes is one more of the gate's logins.
LEMMA NoteLoginType ==
    ASSUME TypeOK, NEW p \in Process, NEW d \in Device, NoteLogin(p, d)
    PROVE  /\ LoginsType'
           /\ logins'[p][d] = logins[p][d] \cup {ThisLogin(p, d)}
           /\ \A q \in Process, e \in Device :
                 q # p \/ e # d => logins'[q][e] = logins[q][e]
  <1> DEFINE more == logins[p][d] \cup {ThisLogin(p, d)}
             row == [logins[p] EXCEPT ![d] = more]
  <1>1. logins[p] \in [Device -> SUBSET Login]
    BY DEF TypeOK
  <1>2. more \in SUBSET Login
    BY <1>1, ThisLoginType
  <1>3. row \in [Device -> SUBSET Login]
    BY <1>1, <1>2
  <1>4. logins' = [logins EXCEPT ![p] = row]
    BY DEF NoteLogin
  <1>5. logins' \in [Process -> [Device -> SUBSET Login]]
    BY <1>3, <1>4 DEF TypeOK
  <1>6. logins'[p][d] = more
    BY <1>1, <1>4 DEF TypeOK
  <1>7. ASSUME NEW q \in Process, NEW e \in Device, q # p \/ e # d
        PROVE  logins'[q][e] = logins[q][e]
    BY <1>1, <1>4, <1>7 DEF TypeOK
  <1>8. IsFiniteSet(more)
    BY FS_AddElement DEF TypeOK
  <1>9. \A q \in Process, e \in Device : IsFiniteSet(logins'[q][e])
    BY <1>6, <1>7, <1>8 DEF TypeOK
  <1>10. QED
    BY <1>5, <1>6, <1>7, <1>9 DEF LoginsType

LEMMA ForgetType ==
    ASSUME TypeOK, NEW p \in Process, Forget(p)
    PROVE  /\ gate' \in [Process -> Gate]
           /\ LoginsType'
           /\ owed' \in [Process -> Expiry]
  <1>1. NoGate \in Gate
    BY DEF NoGate, Gate, Expiry, Time, NoLogins, NoCooldowns
  <1>2. NoLogins \in [Device -> SUBSET Login] /\ \A d \in Device : IsFiniteSet(NoLogins[d])
    BY FS_EmptySet DEF NoLogins
  <1>3. NoCooldowns \in Expiry
    BY DEF NoCooldowns, Expiry, Time
  <1>4. gate' \in [Process -> Gate]
    BY <1>1, SetGateType DEF Forget
  <1>5. LoginsType'
    BY <1>2 DEF Forget, LoginsType, TypeOK
  <1>6. QED
    BY <1>3, <1>4, <1>5 DEF Forget, TypeOK

\* Whatever check_device answers, it leaves well-formed state.
LEMMA AdmissionType ==
    ASSUME TypeOK, NEW p \in Process, NEW d \in Device, NEW login \in BOOLEAN,
           NEW s \in Gate, Admission(p, d, login, s)
    PROVE  gate' \in [Process -> Gate] /\ LoginsType'
  <1> DEFINE a == ThisLogin(p, d)
  <1>1. a \in Login
    BY ThisLoginType
  <1>2. LoginRefused(s, d) \in Gate /\ LoginCounted(s, d, a) \in Gate /\ Reserved(s, d) \in Gate
    BY <1>1, GateFact
  <1>3. Reserved(LoginCounted(s, d, a), d) \in Gate
    BY <1>1, <1>2, GateFact
  <1>4. gate' \in [Process -> Gate]
    BY <1>2, <1>3, SetGateType DEF Admission
  <1>6. UNCHANGED logins => LoginsType'
    BY DEF LoginsType, TypeOK
  <1>7. NoteLogin(p, d) => LoginsType'
    BY NoteLoginType
  <1>8. QED
    BY <1>4, <1>6, <1>7 DEF Admission

LEMMA OutstandingType ==
    ASSUME TypeOK, NEW now \in Nat
    PROVE  Outstanding(now) \in [Process -> Expiry]
  BY PrunedFact DEF Outstanding, TypeOK

LEMMA SetCooldownType ==
    ASSUME TypeOK, NEW p \in Process, NEW d \in Device, SetCooldown(p, d)
    PROVE  TypeOK'
  <1> DEFINE g == Cooled(gate[p], d)
             until == wall + CooldownSeconds
             next == [q \in Process |->
                         IF q \in Bound(p) /\ until > wall
                         THEN [owed[q] EXCEPT ![d] = Later(@, until)]
                         ELSE owed[q]]
  <1>1. gate[p] \in Gate
    BY DEF TypeOK
  <1>2. g \in Gate
    BY <1>1, GateFact, ThisLoginType
  <1>3. Synced(g) \in Gate /\ Latched(g) \in Gate
    BY <1>2, GateFact, ThisLoginType
  <1>4. until \in Time
    BY DEF TypeOK, Time
  <1>5. next \in [Process -> Expiry]
    BY <1>4 DEF TypeOK, Expiry, Later
  <1>6. owed' \in [Process -> Expiry]
    BY <1>5 DEF SetCooldown, TypeOK
  <1>7. gate' \in [Process -> Gate]
    <2>1. SetGate(p, Synced(g)) \/ SetGate(p, Latched(g))
      BY DEF SetCooldown
    <2>2. QED
      BY <1>3, <2>1, SetGateType
  <1>8. disk' \in Expiry /\ invalid' \in BOOLEAN /\ marker' \in BOOLEAN
    <2>1. Persisted(g, TRUE) \/ SyncError(g, TRUE)
      BY DEF SetCooldown
    <2>2. QED
      BY <1>2, <2>1, FileFact
  <1>9. UNCHANGED <<mono, wall, logins>>
    BY DEF SetCooldown, clocks
  <1>10. QED
    BY <1>6, <1>7, <1>8, <1>9 DEF TypeOK

\* Every step of one gate leaves well-formed state.
LEMMA GateStepType ==
    ASSUME TypeOK, NEW p \in Process, GateStep(p)
    PROVE  TypeOK'
  <1> DEFINE g == gate[p]
  <1>1. g \in Gate /\ NewGate \in Gate /\ NoGate \in Gate
    BY DEF TypeOK, Gate, NewGate, NoGate, Expiry, Time, NoLogins, NoCooldowns
  <1>2. \A h \in Gate : Synced(h) \in Gate /\ Latched(h) \in Gate
    BY <1>1, MergedFact DEF Synced, Latched, Gate
  <1>3. CASE Construct(p)
    <2>1. gate' \in [Process -> Gate]
      BY <1>1, <1>2, <1>3, SetGateType DEF Construct
    <2>2. disk' \in Expiry /\ invalid' \in BOOLEAN /\ marker' \in BOOLEAN
      BY <1>1, <1>3, FileFact DEF Construct
    <2>3. QED
      BY <1>3, <2>1, <2>2 DEF Construct, TypeOK, clocks
  <1>4. CASE Holds(p)
    <2>1. gate' \in [Process -> Gate]
      BY <1>1, <1>2, <1>4, SetGateType DEF Holds
    <2>2. disk' \in Expiry /\ invalid' \in BOOLEAN /\ marker' \in BOOLEAN
      BY <1>1, <1>4, FileFact DEF Holds
    <2>3. QED
      BY <1>4, <2>1, <2>2 DEF Holds, TypeOK, clocks
  <1>5. CASE Close(p)
    <2>1. disk' \in Expiry /\ invalid' \in BOOLEAN /\ marker' \in BOOLEAN
      BY <1>1, <1>5, FileFact DEF Close
    <2>2. Forget(p) /\ UNCHANGED clocks
      BY <1>5 DEF Close
    <2>3. QED
      BY <2>1, <2>2, ForgetType DEF LoginsType, TypeOK, clocks
  <1>6. CASE Kill(p)
    <2>1. disk' \in Expiry /\ invalid' \in BOOLEAN /\ marker' \in BOOLEAN
      <3>1. CASE UNCHANGED fileVars \/ Persisted(g, TRUE)
        BY <1>1, <3>1, FileFact
      <3>2. ASSUME NEW d \in g.active, Persisted(Cooled(g, d), TRUE)
            PROVE  disk' \in Expiry /\ invalid' \in BOOLEAN /\ marker' \in BOOLEAN
        <4>1. d \in Device
          BY <1>1 DEF Gate
        <4>2. Cooled(g, d) \in Gate
          BY <1>1, <4>1, GateFact, ThisLoginType
        <4>3. QED
          BY <3>2, <4>2, FileFact
      <3>3. QED
        BY <1>6, <3>1, <3>2 DEF Kill
    <2>2. Forget(p) /\ UNCHANGED clocks
      BY <1>6 DEF Kill
    <2>3. QED
      BY <2>1, <2>2, ForgetType DEF LoginsType, TypeOK, clocks
  <1>7. ASSUME NEW d \in Device, NEW login \in BOOLEAN, CheckDevice(p, d, login)
        PROVE  TypeOK'
    <2>1. CASE Persisted(g, FALSE) /\ Admission(p, d, login, Synced(g))
      BY <1>1, <1>2, <1>7, <2>1, FileFact, AdmissionType
         DEF CheckDevice, LoginsType, TypeOK, clocks
    <2>2. CASE SyncError(g, FALSE) /\ SetGate(p, Latched(g)) /\ UNCHANGED logins
      BY <1>1, <1>2, <1>7, <2>2, FileFact, SetGateType
         DEF CheckDevice, TypeOK, clocks
    <2>3. QED
      BY <1>7, <2>1, <2>2 DEF CheckDevice
  <1>8. ASSUME NEW d \in Device, CountLogin(p, d)
        PROVE  TypeOK'
    <2>1. LoginRefused(g, d) \in Gate /\ LoginCounted(g, d, ThisLogin(p, d)) \in Gate
      BY <1>1, GateFact, ThisLoginType
    <2>2. gate' \in [Process -> Gate]
      BY <1>8, <2>1, SetGateType DEF CountLogin
    <2>3. LoginsType'
      BY <1>8, NoteLoginType DEF CountLogin, LoginsType, TypeOK
    <2>4. QED
      BY <1>8, <2>2, <2>3 DEF CountLogin, LoginsType, TypeOK, clocks, fileVars
  <1>9. ASSUME NEW d \in Device, ReleaseDevice(p, d)
        PROVE  TypeOK'
    <2>1. Released(g, d) \in Gate
      BY <1>1 DEF Released, Gate
    <2>2. gate' \in [Process -> Gate]
      BY <1>9, <2>1, SetGateType DEF ReleaseDevice
    <2>3. QED
      BY <1>9, <2>2 DEF ReleaseDevice, TypeOK, clocks, fileVars
  <1>10. QED
    BY <1>3, <1>4, <1>5, <1>6, <1>7, <1>8, <1>9, SetCooldownType DEF GateStep

LEMMA InitType == Init => TypeOK
  <1> SUFFICES ASSUME Init PROVE TypeOK
    OBVIOUS
  <1>1. NoGate \in Gate /\ NoCooldowns \in Expiry /\ NoLogins \in [Device -> SUBSET Login]
    BY DEF NoGate, Gate, Expiry, Time, NoLogins, NoCooldowns
  <1>2. \A p \in Process, d \in Device : IsFiniteSet(logins[p][d])
    BY FS_EmptySet DEF Init, NoLogins
  <1>3. QED
    BY <1>1, <1>2 DEF Init, TypeOK, Time

\* Type correctness of the safety gate: every variable stays in its type, and
\* the login history of a gate stays finite.
THEOREM TypeCorrect == Spec => []TypeOK
  <1>1. Init => TypeOK
    BY InitType
  <1>2. TypeOK /\ [Next]_vars => TypeOK'
    <2> SUFFICES ASSUME TypeOK, [Next]_vars PROVE TypeOK'
      OBVIOUS
    <2>1. ASSUME NEW p \in Process, GateStep(p) PROVE TypeOK'
      BY <2>1, GateStepType
    <2>2. CASE Damage
      BY <2>2 DEF Damage, TypeOK, NoCooldowns, Expiry, Time, clocks
    <2>3. CASE Repair
      BY <2>3 DEF Repair, TypeOK, clocks
    <2>4. CASE Tick
      BY <2>4, OutstandingType DEF Tick, TypeOK, Time, fileVars
    <2>5. ASSUME NEW t \in 0..MaxTime, SetClock(t) PROVE TypeOK'
      BY <2>5, OutstandingType DEF SetClock, TypeOK, Time, fileVars
    <2>6. CASE UNCHANGED vars
      BY <2>6 DEF vars, TypeOK
    <2>7. QED
      BY <2>1, <2>2, <2>3, <2>4, <2>5, <2>6 DEF Next
  <1>3. QED
    BY <1>1, <1>2, PTL DEF Spec

-----------------------------------------------------------------------------
(* Cooldowns                                                               *)

\* What a _sync may do to the file: an unexpired cooldown in a valid file
\* survives it, whether it succeeds, raises or is cut by a kill.
LEMMA FileKeeps ==
    ASSUME TypeOK, HasFile, ~invalid, NEW g \in Gate, NEW persist \in BOOLEAN,
           Persisted(g, persist) \/ SyncError(g, persist) \/ UNCHANGED fileVars,
           NEW d \in Device, disk[d] > wall
    PROVE  disk'[d] >= disk[d] /\ ~invalid'
  <1>1. Written(g.cooldowns)[d] >= disk[d]
    BY MergedFact DEF Written, Gate
  <1>2. disk[d] \in Nat
    BY DEF TypeOK, Expiry, Time
  <1>3. QED
    BY <1>1, <1>2 DEF Persisted, SyncError, fileVars

\* A step of p's gate touches the file only as a _sync does, no other gate,
\* and, unless it sets a cooldown or forgets p, no debt.
LEMMA StepShape ==
    ASSUME TypeOK, NEW p \in Process, GateStep(p)
    PROVE  /\ UNCHANGED clocks
           /\ \A q \in Process : q # p => gate'[q] = gate[q]
           /\ \E g \in Gate, persist \in BOOLEAN :
                 (Readable /\ Persisted(g, persist)) \/ SyncError(g, persist) \/ UNCHANGED fileVars
           /\ \/ UNCHANGED owed
              \/ Forget(p)
              \/ \E d \in Device : SetCooldown(p, d)
  <1>1. gate[p] \in Gate /\ NewGate \in Gate
    BY DEF TypeOK, Gate, NewGate, NoGate, Expiry, Time, NoLogins, NoCooldowns
  <1>2. \A d \in Device : Cooled(gate[p], d) \in Gate
    BY <1>1, GateFact, ThisLoginType
  <1>3. gate[p].active \subseteq Device
    BY <1>1 DEF Gate
  <1>4. UNCHANGED clocks
    BY DEF GateStep, Construct, Holds, Close, Kill, CheckDevice, CountLogin,
           ReleaseDevice, SetCooldown, clocks
  <1>5. \A q \in Process : q # p => gate'[q] = gate[q]
    BY DEF TypeOK, SetGate, Forget, Admission, GateStep, Construct, Holds, Close, Kill,
           CheckDevice, CountLogin, ReleaseDevice, SetCooldown
  <1>6. \E g \in Gate, persist \in BOOLEAN :
           (Readable /\ Persisted(g, persist)) \/ SyncError(g, persist) \/ UNCHANGED fileVars
    BY <1>1, <1>2, <1>3
       DEF GateStep, Construct, Holds, Close, Kill,
           CheckDevice, CountLogin, ReleaseDevice, SetCooldown
  <1>7. UNCHANGED owed \/ Forget(p) \/ \E d \in Device : SetCooldown(p, d)
    BY DEF GateStep, Construct, Holds, Close, Kill, CheckDevice, CountLogin, ReleaseDevice
  <1>8. QED
    BY <1>4, <1>5, <1>6, <1>7

\* Without a file p's own memory is what keeps its cooldowns: every step of a
\* ready gate that does not end it keeps them.
LEMMA MemoryKeeps ==
    ASSUME TypeOK, ~HasFile, NEW p \in Process, GateStep(p), ~Forget(p),
           gate[p].state = "ready", NEW d \in Device, gate[p].cooldowns[d] > wall
    PROVE  gate'[p].state = "ready" /\ gate'[p].cooldowns[d] >= gate[p].cooldowns[d]
  <1> DEFINE g == gate[p]
  <1>1. g \in Gate /\ g.cooldowns \in Expiry /\ g.cooldowns[d] \in Nat
    BY DEF TypeOK, Gate, Expiry, Time
  <1>2. \A persist \in BOOLEAN : \A h : ~SyncError(h, persist)
    BY DEF SyncError
  <1>3. \A h : SetGate(p, h) => gate'[p] = h
    BY DEF SetGate, TypeOK
  <1>4. Synced(g).state = "ready" /\ Synced(g).cooldowns[d] >= g.cooldowns[d]
    BY <1>1, MergedFact DEF Synced, Gate
  <1>5. \A h \in Gate, e \in Device, a \in Login :
           /\ LoginRefused(h, e).state = h.state /\ LoginRefused(h, e).cooldowns = h.cooldowns
           /\ LoginCounted(h, e, a).state = h.state /\ LoginCounted(h, e, a).cooldowns = h.cooldowns
           /\ LoginRefused(h, e) \in Gate /\ LoginCounted(h, e, a) \in Gate
           /\ Reserved(h, e).state = h.state /\ Reserved(h, e).cooldowns = h.cooldowns
    <2>1. ASSUME NEW h \in Gate, NEW e \in Device, NEW a \in Login
          PROVE  LoginRefused(h, e) \in Gate /\ LoginCounted(h, e, a) \in Gate
      BY GateFact
    <2>2. ASSUME NEW h \in Gate, NEW e \in Device, NEW attempts
          PROVE  /\ WithAttempts(h, e, attempts).state = h.state
                 /\ WithAttempts(h, e, attempts).cooldowns = h.cooldowns
                 /\ Reserved(h, e).state = h.state /\ Reserved(h, e).cooldowns = h.cooldowns
      BY DEF WithAttempts, Reserved, Gate
    <2>3. QED
      BY <2>1, <2>2 DEF LoginRefused, LoginCounted
  <1>6. Synced(g) \in Gate
    BY <1>1, MergedFact DEF Synced, Gate
  <1>7. \A e \in Device : ThisLogin(p, e) \in Login
    BY ThisLoginType
  <1>8. CASE Holds(p)
    BY <1>2, <1>3, <1>4, <1>8 DEF Holds
  <1>9. ASSUME NEW e \in Device, NEW login \in BOOLEAN, CheckDevice(p, e, login)
        PROVE  gate'[p].state = "ready" /\ gate'[p].cooldowns[d] >= g.cooldowns[d]
    <2> DEFINE s == Synced(g)
               a == ThisLogin(p, e)
    <2>1. \/ SetGate(p, s)
          \/ SetGate(p, LoginRefused(s, e))
          \/ SetGate(p, Reserved(LoginCounted(s, e, a), e))
          \/ SetGate(p, Reserved(s, e))
      BY <1>2, <1>9 DEF CheckDevice, Admission
    <2> DEFINE c == LoginCounted(s, e, a)
    <2>2. /\ LoginRefused(s, e).state = s.state /\ LoginRefused(s, e).cooldowns = s.cooldowns
          /\ Reserved(s, e).state = s.state /\ Reserved(s, e).cooldowns = s.cooldowns
          /\ Reserved(c, e).state = s.state /\ Reserved(c, e).cooldowns = s.cooldowns
      <3>1. s \in Gate /\ a \in Login
        BY <1>6, <1>7
      <3>2. c \in Gate /\ c.state = s.state /\ c.cooldowns = s.cooldowns
        BY <1>5, <3>1
      <3>3. QED
        BY <1>5, <3>1, <3>2
    <2> HIDE DEF c, s, a
    <2>3. gate'[p].state = s.state /\ gate'[p].cooldowns = s.cooldowns
      BY <1>3, <2>1, <2>2 DEF c
    <2> USE DEF s
    <2>4. QED
      BY <1>4, <2>3
  <1>10. ASSUME NEW e \in Device, CountLogin(p, e)
         PROVE  gate'[p].state = "ready" /\ gate'[p].cooldowns[d] >= g.cooldowns[d]
    <2>1. \/ gate'[p] = LoginRefused(g, e)
          \/ gate'[p] = LoginCounted(g, e, ThisLogin(p, e))
      BY <1>3, <1>10 DEF CountLogin
    <2>2. gate'[p].state = g.state /\ gate'[p].cooldowns = g.cooldowns
      <3>1. LoginRefused(g, e).state = g.state /\ LoginRefused(g, e).cooldowns = g.cooldowns
        BY <1>1, <1>5, <1>7
      <3>2. /\ LoginCounted(g, e, ThisLogin(p, e)).state = g.state
            /\ LoginCounted(g, e, ThisLogin(p, e)).cooldowns = g.cooldowns
        BY <1>1, <1>5, <1>7
      <3>3. QED
        BY <2>1, <3>1, <3>2
    <2>3. QED
      BY <1>1, <2>2
  <1>11. ASSUME NEW e \in Device, ReleaseDevice(p, e)
         PROVE  gate'[p].state = "ready" /\ gate'[p].cooldowns[d] >= g.cooldowns[d]
    <2>1. gate'[p] = Released(g, e)
      BY <1>3, <1>11, GateFact, ThisLoginType, <1>1 DEF ReleaseDevice
    <2>2. Released(g, e).state = g.state /\ Released(g, e).cooldowns = g.cooldowns
      BY <1>1 DEF Released, Gate
    <2>3. QED
      BY <1>1, <2>1, <2>2
  <1>12. ASSUME NEW e \in Device, SetCooldown(p, e)
         PROVE  gate'[p].state = "ready" /\ gate'[p].cooldowns[d] >= g.cooldowns[d]
    <2> DEFINE h == Cooled(g, e)
    <2>1. gate'[p] = Synced(h)
      BY <1>2, <1>3, <1>12 DEF SetCooldown
    <2>2. h \in Gate
      BY <1>1, GateFact, ThisLoginType
    <2>3. h.state = "ready" /\ h.cooldowns[d] >= g.cooldowns[d]
      BY <1>1 DEF Cooled, Gate, Expiry, Time, Later, TypeOK
    <2>4. h.cooldowns[d] > wall /\ h.cooldowns \in Expiry
      BY <1>1, <2>2, <2>3 DEF Gate, Expiry, Time, TypeOK
    <2>5. Synced(h).state = "ready" /\ Synced(h).cooldowns[d] >= h.cooldowns[d]
      BY <2>2, <2>3, <2>4, MergedFact DEF Synced, Gate
    <2>6. QED
      BY <1>1, <2>1, <2>2, <2>3, <2>4, <2>5, MergedFact DEF Synced, Gate, Expiry, Time
  <1>13. ~Construct(p) /\ ~Close(p) /\ ~Kill(p)
    BY DEF Construct, Close, Kill
  <1>14. QED
    BY <1>8, <1>9, <1>10, <1>11, <1>12, <1>13 DEF GateStep

\* What is owed after p has set a cooldown: what was owed before, and to the
\* runs it binds at least the new expiry.
LEMMA SetCooldownOwes ==
    ASSUME TypeOK, NEW p \in Process, NEW d \in Device, SetCooldown(p, d)
    PROVE  \A q \in Process, e \in Device : owed'[q][e] # owed[q][e] =>
              /\ q \in Bound(p) /\ e = d
              /\ wall + CooldownSeconds > wall
              /\ owed'[q][e] = Later(owed[q][e], wall + CooldownSeconds)
              /\ HasFile => disk' = Merged(Cooled(gate[p], d).cooldowns) /\ ~invalid'
              /\ gate'[p] = Synced(Cooled(gate[p], d))
  <1> SUFFICES ASSUME NEW q \in Process, NEW e \in Device, owed'[q][e] # owed[q][e]
               PROVE  /\ q \in Bound(p) /\ e = d
                      /\ wall + CooldownSeconds > wall
                      /\ owed'[q][e] = Later(owed[q][e], wall + CooldownSeconds)
                      /\ HasFile => disk' = Merged(Cooled(gate[p], d).cooldowns) /\ ~invalid'
                      /\ gate'[p] = Synced(Cooled(gate[p], d))
    OBVIOUS
  <1> DEFINE until == wall + CooldownSeconds
  <1>1. Cooled(gate[p], d) \in Gate
    BY GateFact, ThisLoginType DEF TypeOK
  <1>2. Synced(Cooled(gate[p], d)) \in Gate
    BY <1>1, GateFact, ThisLoginType
  <1>3. CASE UNCHANGED owed
    BY <1>3
  <1>4. CASE /\ Readable
             /\ Persisted(Cooled(gate[p], d), TRUE)
             /\ SetGate(p, Synced(Cooled(gate[p], d)))
             /\ owed' = [r \in Process |->
                            IF r \in Bound(p) /\ until > wall
                            THEN [owed[r] EXCEPT ![d] = Later(@, until)]
                            ELSE owed[r]]
    <2>1. gate'[p] = Synced(Cooled(gate[p], d))
      BY <1>2, <1>4 DEF SetGate, TypeOK
    <2>2. owed[q] \in [Device -> Time]
      BY DEF TypeOK, Expiry
    <2>3. CASE q \in Bound(p) /\ until > wall
      <3>1. owed'[q] = [owed[q] EXCEPT ![d] = Later(@, until)]
        BY <1>4, <2>3
      <3>2. e # d => owed'[q][e] = owed[q][e]
        BY <2>2, <3>1
      <3>3. owed'[q][d] = Later(owed[q][d], until)
        BY <2>2, <3>1
      <3>4. HasFile => disk' = Merged(Cooled(gate[p], d).cooldowns) /\ ~invalid'
        BY <1>4 DEF Persisted, Readable, Written
      <3>5. QED
        BY <1>4, <2>1, <2>3, <3>2, <3>3, <3>4
    <2>4. CASE ~(q \in Bound(p) /\ until > wall)
      BY <1>4, <2>4
    <2>5. QED
      BY <2>3, <2>4
  <1>5. QED
    BY <1>3, <1>4 DEF SetCooldown

\* The cooldowns p's gate merges when it sets one.
LEMMA CooledFact ==
    ASSUME TypeOK, NEW p \in Process, NEW d \in Device,
           wall + CooldownSeconds > wall
    PROVE  LET c == Cooled(gate[p], d).cooldowns IN
           /\ Merged(c) \in Expiry
           /\ Merged(c)[d] >= wall + CooldownSeconds
           /\ gate[p].cooldowns[d] > wall => Merged(c)[d] >= gate[p].cooldowns[d]
           /\ \A e \in Device : HasFile /\ disk[e] > wall => Merged(c)[e] >= disk[e]
  <1> DEFINE c == Cooled(gate[p], d).cooldowns
  <1>1. gate[p] \in Gate
    BY DEF TypeOK
  <1>2. Cooled(gate[p], d) \in Gate
    BY <1>1, GateFact, ThisLoginType
  <1>3. c \in Expiry
    BY <1>2 DEF Gate
  <1>4. gate[p].cooldowns[d] \in Nat /\ wall \in Nat
    BY <1>1 DEF Gate, Expiry, Time, TypeOK
  <1>5. c[d] = Later(wall + CooldownSeconds, gate[p].cooldowns[d])
    BY <1>1 DEF Cooled, Gate, Expiry
  <1>6. c[d] \in Nat /\ c[d] >= wall + CooldownSeconds /\ c[d] >= gate[p].cooldowns[d]
    BY <1>4, <1>5 DEF Later
  <1>7. Merged(c) \in Expiry /\ Merged(c)[d] >= c[d]
    BY <1>3, <1>4, <1>6, MergedFact
  <1>8. Merged(c)[d] \in Nat
    BY <1>7 DEF Expiry, Time
  <1>9. QED
    BY <1>3, <1>4, <1>6, <1>7, <1>8, MergedFact

\* One step of one gate keeps every debt, with a file or without.
LEMMA GateStepDurable ==
    ASSUME TypeOK, CooldownDurable, NEW p \in Process, GateStep(p)
    PROVE  CooldownDurable'
  <1> SUFFICES ASSUME NEW q \in Process, NEW d \in Device, owed'[q][d] > 0
               PROVE  /\ owed'[q][d] > wall
                      /\ IF HasFile THEN disk'[d] >= owed'[q][d] /\ ~invalid'
                         ELSE gate'[q].state = "ready" /\ gate'[q].cooldowns[d] >= owed'[q][d]
    BY StepShape DEF CooldownDurable, clocks
  <1>1. owed[q][d] \in Nat /\ wall \in Nat /\ disk[d] \in Nat
    BY DEF TypeOK, Expiry, Time
  <1>2. TypeOK'
    BY GateStepType
  <1>3. disk'[d] \in Nat /\ gate[q].cooldowns[d] \in Nat /\ gate'[q].cooldowns[d] \in Nat
    BY <1>2 DEF TypeOK, Gate, Expiry, Time
  <1>4. CASE owed'[q][d] = owed[q][d]
    <2>1. owed[q][d] > wall
      BY <1>4 DEF CooldownDurable
    <2>2. CASE HasFile
      <3>1. ~invalid /\ disk[d] >= owed[q][d] /\ disk[d] > wall
        BY <1>1, <1>4, <2>1, <2>2 DEF CooldownDurable
      <3>2. disk'[d] >= disk[d] /\ ~invalid'
        BY <2>2, <3>1, StepShape, FileKeeps
      <3>3. QED
        BY <1>1, <1>3, <1>4, <2>1, <2>2, <3>1, <3>2
    <2>3. CASE ~HasFile
      <3>1. gate[q].state = "ready" /\ gate[q].cooldowns[d] >= owed[q][d]
        BY <1>4, <2>3 DEF CooldownDurable
      <3>2. gate[q].cooldowns[d] > wall
        BY <1>1, <1>3, <2>1, <3>1
      <3>3. ~(q = p /\ Forget(p))
        BY <1>4, <2>3 DEF Forget, NoCooldowns, TypeOK
      <3>4. CASE q # p
        BY <1>4, <2>1, <2>3, <3>1, <3>4, StepShape
      <3>5. CASE q = p
        <4>1. gate'[q].state = "ready" /\ gate'[q].cooldowns[d] >= gate[q].cooldowns[d]
          BY <2>3, <3>1, <3>2, <3>3, <3>5, MemoryKeeps
        <4>2. QED
          BY <1>1, <1>3, <1>4, <2>1, <2>3, <3>1, <4>1
      <3>6. QED
        BY <3>4, <3>5
    <2>4. QED
      BY <2>2, <2>3 DEF TypeOK
  <1>5. CASE owed'[q][d] # owed[q][d]
    <2>1. ~Forget(p)
      BY <1>5 DEF Forget, NoCooldowns, TypeOK, Expiry
    <2>2. PICK e \in Device : SetCooldown(p, e)
      BY <1>5, <2>1, StepShape
    <2> DEFINE until == wall + CooldownSeconds
               c == Cooled(gate[p], d).cooldowns
    <2>3. /\ q \in Bound(p) /\ d = e /\ until > wall
          /\ owed'[q][d] = Later(owed[q][d], until)
          /\ HasFile => disk' = Merged(Cooled(gate[p], d).cooldowns) /\ ~invalid'
          /\ gate'[p] = Synced(Cooled(gate[p], d))
      <3>1. d = e
        <4>1. \A r \in Process, x \in Device : owed'[r][x] # owed[r][x] => x = e
          BY <2>2, SetCooldownOwes
        <4>2. QED
          BY <1>5, <4>1
      <3>2. SetCooldown(p, d)
        BY <2>2, <3>1
      <3>3. QED
        <4>1. \A r \in Process : owed'[r][d] # owed[r][d] =>
                  /\ r \in Bound(p) /\ until > wall
                  /\ owed'[r][d] = Later(owed[r][d], until)
                  /\ HasFile => disk' = Merged(Cooled(gate[p], d).cooldowns) /\ ~invalid'
                  /\ gate'[p] = Synced(Cooled(gate[p], d))
          BY <3>2, SetCooldownOwes
        <4>2. QED
          BY <1>5, <3>1, <4>1
    <2>4. owed'[q][d] > wall
      BY <1>1, <2>3 DEF Later
    <2>5. Merged(c) \in Expiry /\ Merged(c)[d] >= until
      BY <2>3, CooledFact
    <2>6. Merged(c)[d] \in Nat
      BY <2>5 DEF Expiry, Time
    <2>7. CASE HasFile
      <3>1. disk' = Merged(c) /\ ~invalid'
        BY <2>3, <2>7
      <3>2. owed[q][d] > 0 => disk[d] >= owed[q][d] /\ disk[d] > wall
        BY <1>1, <2>7 DEF CooldownDurable
      <3>3. owed[q][d] > 0 => Merged(c)[d] >= disk[d]
        BY <2>3, <2>7, <3>2, CooledFact
      <3>4. disk'[d] >= owed'[q][d]
        BY <1>1, <2>3, <2>5, <2>6, <3>1, <3>2, <3>3 DEF Later
      <3>5. QED
        BY <2>4, <2>7, <3>1, <3>4
    <2>8. CASE ~HasFile
      <3>1. q = p
        BY <2>3, <2>8 DEF Bound
      <3>2. gate'[p].cooldowns = Merged(c) /\ gate'[p].state = "ready"
        <4>1. Cooled(gate[p], d) \in Gate
          BY GateFact, ThisLoginType DEF TypeOK
        <4>2. Cooled(gate[p], d).state = "ready"
          BY <2>2 DEF SetCooldown, Cooled, Gate, TypeOK
        <4>3. QED
          BY <2>3, <4>1, <4>2 DEF Synced, Gate
      <3>3. owed[p][d] > 0 => gate[p].cooldowns[d] >= owed[p][d] /\ gate[p].cooldowns[d] > wall
        BY <1>1, <1>3, <2>8, <3>1 DEF CooldownDurable
      <3>4. owed[p][d] > 0 => Merged(c)[d] >= gate[p].cooldowns[d]
        BY <2>3, <3>3, CooledFact
      <3>5. Merged(c)[d] >= owed'[q][d]
        BY <1>1, <1>3, <2>3, <2>5, <2>6, <3>1, <3>3, <3>4 DEF Later
      <3>6. QED
        BY <2>4, <2>8, <3>1, <3>2, <3>5
    <2>9. QED
      BY <2>7, <2>8 DEF TypeOK
  <1>6. QED
    BY <1>4, <1>5


\* The invariant the cooldown theorems rest on.
DurableInv == TypeOK /\ CooldownDurable

\* What the clock leaves outstanding is unexpired and was owed before.
LEMMA OutstandingFact ==
    ASSUME TypeOK, NEW now \in Nat, owed' = Outstanding(now),
           NEW p \in Process, NEW d \in Device, owed'[p][d] > 0
    PROVE  owed'[p][d] = owed[p][d] /\ owed[p][d] > now
  <1>1. owed[p] \in Expiry
    BY DEF TypeOK
  <1>2. owed'[p] = Pruned(owed[p], now)
    BY DEF Outstanding
  <1>3. QED
    BY <1>1, <1>2 DEF Pruned, Expiry

LEMMA DurableStep == DurableInv /\ [Next]_vars => CooldownDurable'
  <1> SUFFICES ASSUME DurableInv, [Next]_vars PROVE CooldownDurable'
    OBVIOUS
  <1> USE DEF DurableInv
  <1>1. ASSUME NEW p \in Process, GateStep(p) PROVE CooldownDurable'
    BY <1>1, GateStepDurable
  <1>2. CASE Damage
    BY <1>2 DEF Damage, CooldownDurable, NoCooldowns
  <1>3. CASE Repair
    BY <1>3 DEF Repair, CooldownDurable, clocks
  <1>4. ASSUME NEW t \in Nat, wall' = t, owed' = Outstanding(t), UNCHANGED <<gate, fileVars>>
        PROVE  CooldownDurable'
    <2> SUFFICES ASSUME NEW p \in Process, NEW d \in Device, owed'[p][d] > 0
                 PROVE  /\ owed'[p][d] > wall'
                        /\ IF HasFile THEN disk'[d] >= owed'[p][d] /\ ~invalid'
                           ELSE /\ gate'[p].state = "ready"
                                /\ gate'[p].cooldowns[d] >= owed'[p][d]
      BY DEF CooldownDurable
    <2>1. owed'[p][d] = owed[p][d] /\ owed[p][d] > t
      BY <1>4, OutstandingFact
    <2>2. QED
      BY <1>4, <2>1 DEF CooldownDurable, fileVars
  <1>5. CASE Tick
    BY <1>4, <1>5 DEF Tick, TypeOK, Time
  <1>6. ASSUME NEW t \in 0..MaxTime, SetClock(t) PROVE CooldownDurable'
    BY <1>4, <1>6 DEF SetClock
  <1>7. CASE UNCHANGED vars
    BY <1>7 DEF vars, CooldownDurable
  <1>8. QED
    BY <1>1, <1>2, <1>3, <1>5, <1>6, <1>7 DEF Next

LEMMA InitDurable == Init => CooldownDurable
  BY DEF Init, CooldownDurable, NoCooldowns

\* Every cooldown that is owed is in the file (in the gate's memory when there
\* is none) and unexpired there: no merge, write error, crash, restart, damage
\* or clock change leaves a run owing a cooldown that a _sync would not find.
THEOREM CooldownKept == Spec => []CooldownDurable
  <1>1. TypeOK /\ CooldownDurable /\ [Next]_vars => CooldownDurable'
    BY DurableStep DEF DurableInv
  <1>2. QED
    BY <1>1, InitDurable, TypeCorrect, PTL DEF Spec

\* Only check_device reserves a device, and only when what it has just synced
\* has no unexpired cooldown for it.
LEMMA AdmitsFact ==
    ASSUME TypeOK, [Next]_vars, NEW p \in Process, NEW d \in Device, Admits(p, d)
    PROVE  /\ ~(Synced(gate[p]).cooldowns[d] > wall)
           /\ gate[p].state = "ready"
           /\ Readable
  <1> DEFINE g == gate[p]
  <1>1. g \in Gate /\ gate'[p] # gate[p]
    BY DEF TypeOK, Admits
  <1>2. PICK q \in Process : GateStep(q)
    BY <1>1 DEF Next, Damage, Repair, Tick, SetClock, vars
  <1>3. q = p
    BY <1>1, <1>2, StepShape
  <1>4. \A h : SetGate(p, h) => gate'[p] = h
    BY DEF SetGate, TypeOK
  <1>5. ~Construct(p) /\ ~Holds(p) /\ ~Close(p) /\ ~Kill(p)
    <2>1. NoGate.active = {} /\ Synced(NewGate).active = {} /\ Synced(g).active = g.active
      BY <1>1 DEF NoGate, NewGate, Synced, Gate
    <2>2. Latched(g).active = g.active
      BY <1>1 DEF Latched, NoGate, Gate
    <2>3. QED
      BY <1>4, <2>1, <2>2 DEF Construct, Holds, Close, Kill, Forget, Admits
  <1>6. \A e \in Device : ~ReleaseDevice(p, e)
    BY <1>1, <1>4 DEF ReleaseDevice, Released, Admits, Gate
  <1>7. \A e \in Device : \A a :
                             /\ LoginRefused(g, e).active = g.active
                             /\ LoginCounted(g, e, a).active = g.active
    BY <1>1 DEF LoginRefused, LoginCounted, WithAttempts, Gate
  <1>8. \A e \in Device : ~CountLogin(p, e)
    BY <1>4, <1>7 DEF CountLogin, Admits
  <1>9. \A e \in Device : ~SetCooldown(p, e)
    <2> SUFFICES ASSUME NEW e \in Device, SetCooldown(p, e) PROVE FALSE
      OBVIOUS
    <2>1. Cooled(g, e) \in Gate
      BY <1>1, GateFact, ThisLoginType
    <2>2. Cooled(g, e).active = g.active \ {e}
      BY <1>1 DEF Cooled, Gate
    <2>3. Synced(Cooled(g, e)).active = g.active \ {e}
      BY <2>1, <2>2 DEF Synced, Gate
    <2>4. Latched(Cooled(g, e)).active = g.active \ {e}
      BY <2>2 DEF Latched, NoGate
    <2>5. QED
      BY <1>4, <2>3, <2>4 DEF SetCooldown, Admits
  <1>10. PICK e \in Device, login \in BOOLEAN : CheckDevice(p, e, login)
    BY <1>2, <1>3, <1>5, <1>6, <1>8, <1>9 DEF GateStep
  <1>11. Latched(g).active = g.active /\ Synced(g) \in Gate /\ Synced(g).active = g.active
    BY <1>1, GateFact, ThisLoginType DEF Latched, NoGate, Gate, Synced
  <1>12. g.state = "ready" /\ Readable /\ Admission(p, e, login, Synced(g))
    BY <1>4, <1>10, <1>11 DEF CheckDevice, Admits
  <1>13. /\ LoginRefused(Synced(g), e).active = g.active
         /\ LoginCounted(Synced(g), e, ThisLogin(p, e)).active = g.active
    BY <1>11 DEF LoginRefused, LoginCounted, WithAttempts, Gate
  <1>14. ~Refused(Synced(g), e) /\ gate'[p].active \subseteq g.active \cup {e}
    <2>1. Reserved(Synced(g), e).active = g.active \cup {e}
      BY <1>11 DEF Reserved, Gate
    <2>2. Reserved(LoginCounted(Synced(g), e, ThisLogin(p, e)), e).active = g.active \cup {e}
      BY <1>11, <1>13, GateFact, ThisLoginType DEF Reserved, Gate
    <2>3. QED
      BY <1>4, <1>11, <1>12, <1>13, <2>1, <2>2 DEF Admission, Admits
  <1>15. d = e
    BY <1>14 DEF Admits
  <1>16. QED
    BY <1>12, <1>14, <1>15 DEF Refused

\* A cooldown acknowledged in any run binds every run that shares the file:
\* while it is owed, no step of any gate reserves the device.
THEOREM CooldownsHonoured == Spec => CooldownHonoured
  <1>1. DurableInv /\ [Next]_vars =>
            \A p \in Process, d \in Device : Admits(p, d) => owed[p][d] = 0
    <2> SUFFICES ASSUME DurableInv, [Next]_vars,
                        NEW p \in Process, NEW d \in Device, Admits(p, d), owed[p][d] # 0
                 PROVE  FALSE
      OBVIOUS
    <2> USE DEF DurableInv
    <2>1. owed[p][d] > 0 /\ owed[p][d] \in Nat /\ wall \in Nat
      BY DEF TypeOK, Expiry, Time
    <2>2. gate[p] \in Gate /\ gate[p].cooldowns \in Expiry /\ disk \in Expiry
      BY DEF TypeOK, Gate
    <2>3. ~(Merged(gate[p].cooldowns)[d] > wall)
      BY <2>2, AdmitsFact DEF Synced, Gate
    <2>4. Merged(gate[p].cooldowns)[d] \in Nat
      BY <2>2, MergedFact DEF Expiry, Time
    <2>5. disk[d] \in Nat /\ gate[p].cooldowns[d] \in Nat
      BY <2>2 DEF Expiry, Time
    <2>6. CASE HasFile
      <3>1. disk[d] > wall
        BY <2>1, <2>5, <2>6 DEF CooldownDurable
      <3>2. QED
        BY <2>1, <2>2, <2>3, <2>4, <2>5, <2>6, <3>1, MergedFact
    <2>7. CASE ~HasFile
      <3>1. gate[p].cooldowns[d] > wall
        BY <2>1, <2>5, <2>7 DEF CooldownDurable
      <3>2. QED
        BY <2>1, <2>2, <2>3, <2>4, <2>5, <3>1, MergedFact
    <2>8. QED
      BY <2>6, <2>7 DEF TypeOK
  <1>2. QED
    BY <1>1, TypeCorrect, CooldownKept, PTL DEF Spec, CooldownHonoured, DurableInv
-----------------------------------------------------------------------------
(* The rate of logins                                                      *)

\* What a step does with the logins of p to d and with those p still counts.
Counts(p, d, attempts, passed) ==
    gate'[p].attempts[d] = attempts /\ logins'[p][d] = passed

SameGate(p) == gate'[p].state = gate[p].state

\* One login more, let through because the window was not full.
Passes(p, d) ==
    /\ gate[p].state = "ready" /\ gate'[p].state = "ready"
    /\ ~WindowFull(gate[p], d)
    /\ Counts(p, d, Recent(gate[p].attempts[d]) \cup {ThisLogin(p, d)},
                    logins[p][d] \cup {ThisLogin(p, d)})

LoginShape(p, d) ==
    \/ SameGate(p) /\ Counts(p, d, gate[p].attempts[d], logins[p][d])
    \/ SameGate(p) /\ Counts(p, d, Recent(gate[p].attempts[d]), logins[p][d])
    \/ Passes(p, d)
    \/ gate'[p].state = "failed" /\ logins'[p][d] = logins[p][d]
    \/ gate'[p].state = "absent" /\ Counts(p, d, {}, {})
    \/ gate[p].state = "absent" /\ Counts(p, d, {}, logins[p][d])

\* The attempts and the state of the gates the operations build.
LEMMA AttemptsFact ==
    ASSUME NEW g \in Gate, NEW e \in Device
    PROVE  /\ Synced(g).attempts = g.attempts /\ Synced(g).state = g.state
           /\ Latched(g).state = "failed"
           /\ Released(g, e).attempts = g.attempts /\ Released(g, e).state = g.state
           /\ Reserved(g, e).attempts = g.attempts /\ Reserved(g, e).state = g.state
           /\ Cooled(g, e).attempts = g.attempts /\ Cooled(g, e).state = g.state
  <1>1. /\ Synced(g).attempts = g.attempts /\ Synced(g).state = g.state
        /\ Released(g, e).attempts = g.attempts /\ Released(g, e).state = g.state
        /\ Reserved(g, e).attempts = g.attempts /\ Reserved(g, e).state = g.state
    BY DEF Synced, Released, Reserved, Gate
  <1>2. Latched(g).state = "failed" /\ Cooled(g, e).attempts = g.attempts /\ Cooled(g, e).state = g.state
    BY DEF Latched, NoGate, Cooled, Gate
  <1>3. QED
    BY <1>1, <1>2

LEMMA LoginFact ==
    ASSUME NEW g \in Gate, NEW e \in Device, NEW d \in Device, NEW a \in Login
    PROVE  /\ LoginRefused(g, e).state = g.state
           /\ LoginRefused(g, e).attempts[d] =
                 IF d = e THEN Recent(g.attempts[d]) ELSE g.attempts[d]
           /\ LoginCounted(g, e, a).state = g.state
           /\ LoginCounted(g, e, a).attempts[d] =
                 IF d = e THEN Recent(g.attempts[d]) \cup {a} ELSE g.attempts[d]
  <1>1. /\ LoginRefused(g, e).state = g.state
        /\ LoginRefused(g, e).attempts[d] =
              IF d = e THEN Recent(g.attempts[d]) ELSE g.attempts[d]
    BY DEF LoginRefused, WithAttempts, Gate
  <1>2. /\ LoginCounted(g, e, a).state = g.state
        /\ LoginCounted(g, e, a).attempts[d] =
              IF d = e THEN Recent(g.attempts[d]) \cup {a} ELSE g.attempts[d]
    BY DEF LoginCounted, WithAttempts, Gate
  <1>3. QED
    BY <1>1, <1>2

\* Every step of a gate does one of these to its logins, and nothing to those
\* of another.
LEMMA LoginsOf ==
    ASSUME TypeOK, NEW p \in Process, GateStep(p), NEW d \in Device
    PROVE  /\ LoginShape(p, d)
           /\ mono' = mono
           /\ \A q \in Process : q # p => gate'[q] = gate[q] /\ logins'[q] = logins[q]
  <1> DEFINE g == gate[p]
  <1>1. g \in Gate /\ NewGate \in Gate /\ ThisLogin(p, d) \in Login
    BY ThisLoginType DEF TypeOK, Gate, NewGate, NoGate, Expiry, Time, NoLogins, NoCooldowns
  <1>2. \A h : SetGate(p, h) => gate'[p] = h
    BY DEF SetGate, TypeOK
  <1>3. mono' = mono /\ \A q \in Process : q # p => gate'[q] = gate[q]
    BY StepShape DEF clocks
  <1>4. NoGate.state = "absent" /\ \A e \in Device : NoGate.attempts[e] = {}
    BY DEF NoGate, NoLogins
  <1>5. logins \in [Process -> [Device -> SUBSET Login]]
    BY DEF TypeOK
  <1>6. Forget(p) => /\ gate'[p].state = "absent" /\ Counts(p, d, {}, {})
                     /\ \A q \in Process : q # p => logins'[q] = logins[q]
    BY <1>2, <1>4, <1>5 DEF Forget, Counts, NoLogins
  <1>7. \A e \in Device : NoteLogin(p, e) =>
            /\ logins'[p][d] = IF d = e THEN logins[p][d] \cup {ThisLogin(p, d)} ELSE logins[p][d]
            /\ \A q \in Process : q # p => logins'[q] = logins[q]
    <2>1. SUFFICES ASSUME NEW e \in Device, NoteLogin(p, e)
                   PROVE  /\ logins'[p][d] = IF d = e THEN logins[p][d] \cup {ThisLogin(p, d)} ELSE logins[p][d]
                          /\ \A q \in Process : q # p => logins'[q] = logins[q]
      OBVIOUS
    <2>2. logins' = [logins EXCEPT ![p][e] = @ \cup {ThisLogin(p, e)}]
      BY <2>1 DEF NoteLogin
    <2>3. QED
      BY <1>5, <2>2
  <1>14. \A h \in Gate, e \in Device, a \in Login :
             Synced(h) \in Gate /\ Cooled(h, e) \in Gate /\ LoginCounted(h, e, a) \in Gate
    BY GateFact
  <1>8. CASE Construct(p)
    <2>1. Synced(NewGate).attempts[d] = {}
      BY <1>1, AttemptsFact DEF NewGate, NoGate, NoLogins
    <2>2. QED
      BY <1>2, <1>3, <1>4, <1>8, <2>1 DEF Construct, LoginShape, Counts
  <1>9. CASE Holds(p)
    BY <1>1, <1>2, <1>3, <1>9, AttemptsFact DEF Holds, LoginShape, Counts, SameGate
  <1>10. CASE Close(p) \/ Kill(p)
    BY <1>3, <1>6, <1>10 DEF Close, Kill, LoginShape
  <1>11. ASSUME NEW e \in Device, NEW login \in BOOLEAN, CheckDevice(p, e, login)
         PROVE  LoginShape(p, d) /\ \A q \in Process : q # p => logins'[q] = logins[q]
    <2>1. g.state = "ready"
      BY <1>11 DEF CheckDevice
    <2>2. PICK a \in Login : a = ThisLogin(p, e)
      BY ThisLoginType
    <2>3. PICK s \in Gate : s = Synced(g) /\ s.attempts = g.attempts /\ s.state = "ready"
      BY <1>1, <1>14, <2>1, AttemptsFact
    <2>4. PICK c \in Gate : c = LoginCounted(s, e, a)
      BY <1>14, <2>2, <2>3
    <2>5. /\ c.state = "ready"
          /\ c.attempts[d] = IF d = e THEN Recent(g.attempts[d]) \cup {a} ELSE g.attempts[d]
          /\ LoginRefused(s, e).state = "ready"
          /\ LoginRefused(s, e).attempts[d] =
                IF d = e THEN Recent(g.attempts[d]) ELSE g.attempts[d]
      <3>1. /\ LoginRefused(s, e).state = s.state
            /\ LoginRefused(s, e).attempts[d] =
                  IF d = e THEN Recent(s.attempts[d]) ELSE s.attempts[d]
            /\ LoginCounted(s, e, a).state = s.state
            /\ LoginCounted(s, e, a).attempts[d] =
                  IF d = e THEN Recent(s.attempts[d]) \cup {a} ELSE s.attempts[d]
        BY LoginFact
      <3>2. QED
        BY <2>3, <2>4, <3>1
    <2>6. Reserved(c, e).attempts = c.attempts /\ Reserved(c, e).state = "ready"
      BY <2>5, AttemptsFact
    <2>7. /\ Reserved(s, e).attempts = g.attempts /\ Reserved(s, e).state = "ready"
          /\ WindowFull(s, e) <=> WindowFull(g, e)
      BY <2>3, AttemptsFact DEF WindowFull
    <2>8. CASE SetGate(p, Latched(g)) /\ UNCHANGED logins
      BY <1>1, <1>2, <2>8, AttemptsFact DEF LoginShape
    <2>9. CASE ~WindowFull(s, e) /\ SetGate(p, Reserved(c, e)) /\ NoteLogin(p, e)
      <3>1. gate'[p].attempts = c.attempts /\ gate'[p].state = "ready"
        BY <1>2, <2>6, <2>9
      <3>2. CASE d = e
        <4>1. a = ThisLogin(p, d) /\ ~WindowFull(g, d)
          BY <2>2, <2>5, <2>7, <2>9, <3>2 DEF ThisLogin, WindowFull, Recent
        <4>2. gate'[p].attempts[d] = Recent(g.attempts[d]) \cup {a}
          BY <2>2, <2>5, <2>7, <2>9, <3>1, <3>2
        <4>3. logins'[p][d] = logins[p][d] \cup {ThisLogin(p, d)}
          BY <1>7, <2>2, <2>5, <2>7, <2>9, <3>2
        <4>4. QED
          BY <1>7, <2>1, <2>9, <3>1, <4>1, <4>2, <4>3 DEF LoginShape, Passes, Counts
      <3>3. CASE d # e
        BY <1>7, <2>1, <2>5, <2>9, <3>1, <3>3 DEF LoginShape, Counts, SameGate
      <3>4. QED
        BY <1>7, <2>9, <3>2, <3>3
    <2>10. CASE UNCHANGED logins /\ SetGate(p, LoginRefused(s, e))
      BY <1>2, <2>1, <2>5, <2>10 DEF LoginShape, Counts, SameGate
    <2>11. CASE UNCHANGED logins /\ (SetGate(p, s) \/ SetGate(p, Reserved(s, e)))
      BY <1>2, <2>1, <2>3, <2>7, <2>11 DEF LoginShape, Counts, SameGate
    <2>12. QED
      BY <1>11, <2>2, <2>3, <2>4, <2>8, <2>9, <2>10, <2>11 DEF CheckDevice, Admission
  <1>12. ASSUME NEW e \in Device, CountLogin(p, e)
         PROVE  LoginShape(p, d) /\ \A q \in Process : q # p => logins'[q] = logins[q]
    <2>1. g.state = "ready"
      BY <1>12 DEF CountLogin
    <2>2. PICK a \in Login : a = ThisLogin(p, e)
      BY ThisLoginType
    <2>3. PICK c \in Gate : c = LoginCounted(g, e, a)
      BY <1>1, <1>14, <2>2
    <2>4. /\ c.state = "ready"
          /\ c.attempts[d] = IF d = e THEN Recent(g.attempts[d]) \cup {a} ELSE g.attempts[d]
          /\ LoginRefused(g, e).state = "ready"
          /\ LoginRefused(g, e).attempts[d] =
                IF d = e THEN Recent(g.attempts[d]) ELSE g.attempts[d]
      <3>1. PICK h \in Gate : h = g
        BY <1>1
      <3>2. /\ LoginRefused(h, e).state = h.state
            /\ LoginRefused(h, e).attempts[d] =
                  IF d = e THEN Recent(h.attempts[d]) ELSE h.attempts[d]
            /\ LoginCounted(h, e, a).state = h.state
            /\ LoginCounted(h, e, a).attempts[d] =
                  IF d = e THEN Recent(h.attempts[d]) \cup {a} ELSE h.attempts[d]
        BY LoginFact
      <3>3. QED
        BY <2>1, <2>3, <3>1, <3>2
    <2>5. CASE SetGate(p, LoginRefused(g, e)) /\ UNCHANGED logins
      BY <1>2, <2>1, <2>4, <2>5 DEF LoginShape, Counts, SameGate
    <2>6. CASE ~WindowFull(g, e) /\ SetGate(p, c) /\ NoteLogin(p, e)
      <3>1. gate'[p] = c
        BY <1>2, <2>6
      <3>2. CASE d = e
        <4>1. a = ThisLogin(p, d) /\ ~WindowFull(g, d)
          BY <2>2, <2>4, <2>6, <3>2 DEF ThisLogin, WindowFull, Recent
        <4>2. gate'[p].attempts[d] = Recent(g.attempts[d]) \cup {a}
          BY <2>2, <2>4, <2>6, <3>1, <3>2
        <4>3. logins'[p][d] = logins[p][d] \cup {ThisLogin(p, d)}
          BY <1>7, <2>2, <2>4, <2>6, <3>2
        <4>4. QED
          BY <1>7, <2>1, <2>4, <2>6, <3>1, <4>1, <4>2, <4>3 DEF LoginShape, Passes, Counts
      <3>3. CASE d # e
        BY <1>7, <2>1, <2>4, <2>6, <3>1, <3>3 DEF LoginShape, Counts, SameGate
      <3>4. QED
        BY <1>7, <2>6, <3>2, <3>3
    <2>7. QED
      BY <1>12, <2>2, <2>3, <2>5, <2>6 DEF CountLogin
  <1>13. ASSUME NEW e \in Device, ReleaseDevice(p, e) \/ SetCooldown(p, e)
         PROVE  LoginShape(p, d) /\ logins' = logins
    <2>1. PICK h \in Gate : h = Cooled(g, e) /\ h.attempts = g.attempts /\ h.state = g.state
      BY <1>1, <1>14, AttemptsFact
    <2>2. /\ Synced(h).attempts = g.attempts /\ Synced(h).state = g.state
          /\ Latched(h).state = "failed"
          /\ Released(g, e).attempts = g.attempts /\ Released(g, e).state = g.state
      BY <1>1, <2>1, AttemptsFact
    <2>3. CASE ReleaseDevice(p, e)
      BY <1>2, <2>2, <2>3 DEF ReleaseDevice, LoginShape, Counts, SameGate
    <2>4. CASE SetCooldown(p, e)
      BY <1>2, <2>1, <2>2, <2>4 DEF SetCooldown, LoginShape, Counts, SameGate
    <2>5. QED
      BY <1>13, <2>3, <2>4
  <1>15. QED
    BY <1>3, <1>8, <1>9, <1>10, <1>6, <1>11, <1>12, <1>13
       DEF GateStep, Construct, Holds, Close, Kill

\* What WindowKept says of one gate and one device, and RateBound.
KeptOf(p, d) ==
    /\ \A a \in logins[p][d] : a[1] <= mono
    /\ gate[p].state = "absent" => logins[p][d] = {} /\ gate[p].attempts[d] = {}
    /\ gate[p].state # "failed" =>
          /\ gate[p].attempts[d] \subseteq logins[p][d]
          /\ Recent(logins[p][d]) \subseteq gate[p].attempts[d]
BoundOf(p, d) == \A t \in 0..mono : Cardinality(InWindow(p, d, t)) <= RateLimit

LEMMA KeptFact ==
    /\ WindowKept <=> \A p \in Process, d \in Device : KeptOf(p, d)
    /\ RateBound <=> \A p \in Process, d \in Device : BoundOf(p, d)
  BY DEF WindowKept, KeptOf, Recent, RateBound, BoundOf

\* A gate that is not full and lets a login through keeps within the limit.
LEMMA PassesKeeps ==
    ASSUME TypeOK, NEW p \in Process, NEW d \in Device, mono' = mono,
           KeptOf(p, d), BoundOf(p, d), Passes(p, d)
    PROVE  KeptOf(p, d)' /\ BoundOf(p, d)'
  <1> DEFINE a == ThisLogin(p, d)
             L == logins[p][d]
             R == Recent(gate[p].attempts[d])
  <1>1. a \in Login /\ a[1] = mono /\ mono \in Nat
    BY ThisLoginType DEF TypeOK, ThisLogin, Login, Time
  <1>2. L \subseteq Login /\ IsFiniteSet(L)
    BY DEF TypeOK
  <1>3. /\ logins'[p][d] = L \cup {a}
        /\ gate'[p].attempts[d] = R \cup {a}
        /\ gate[p].state = "ready" /\ gate'[p].state = "ready"
        /\ Cardinality(R) < RateLimit
    <2>1. R \subseteq L
      BY DEF KeptOf, Recent, Passes
    <2>2. Cardinality(R) \in Nat
      BY <1>2, <2>1, FS_Subset, FS_CardinalityType
    <2>3. QED
      BY <2>2, GateAssumption DEF Passes, Counts, WindowFull
  <1>4. R \subseteq L /\ Recent(L) \subseteq R
    BY <1>3 DEF KeptOf, Recent
  <1>5. KeptOf(p, d)'
    <2>1. Recent(logins[p][d])' \subseteq R \cup {a}
      BY <1>3, <1>4 DEF Recent
    <2>2. \A b \in L \cup {a} : b[1] <= mono
      BY <1>1, <1>3 DEF KeptOf
    <2>3. QED
      BY <1>3, <1>4, <2>1, <2>2 DEF KeptOf, Recent
  <1>6. ASSUME NEW t \in 0..mono PROVE Cardinality(InWindow(p, d, t)') <= RateLimit
    <2>1. InWindow(p, d, t)' = {b \in L \cup {a} : b[1] <= t /\ t - b[1] < Window}
      BY <1>3 DEF InWindow
    <2>2. CASE t < mono
      <3>1. InWindow(p, d, t)' = InWindow(p, d, t)
        BY <1>1, <2>1, <2>2 DEF InWindow
      <3>2. QED
        BY <3>1 DEF BoundOf
    <2>3. CASE t = mono
      <3>1. InWindow(p, d, t)' \subseteq R \cup {a}
        BY <1>4, <2>1, <2>3 DEF Recent
      <3>2. IsFiniteSet(R)
        BY <1>2, <1>4, FS_Subset
      <3>3. IsFiniteSet(R \cup {a}) /\ Cardinality(R \cup {a}) <= RateLimit
        <4>1. Cardinality(R) \in Nat
          BY <3>2, FS_CardinalityType
        <4>2. /\ IsFiniteSet(R \cup {a})
              /\ Cardinality(R \cup {a}) \in {Cardinality(R), Cardinality(R) + 1}
          BY <3>2, FS_AddElement
        <4>3. QED
          BY <1>3, <4>1, <4>2, GateAssumption
      <3>4. Cardinality(InWindow(p, d, t)') <= Cardinality(R \cup {a})
        BY <3>1, <3>3, FS_Subset
      <3>5. Cardinality(InWindow(p, d, t)') \in Nat /\ Cardinality(R \cup {a}) \in Nat
        BY <3>1, <3>3, FS_Subset, FS_CardinalityType
      <3>6. QED
        BY <3>3, <3>4, <3>5, GateAssumption
    <2>4. QED
      BY <1>1, <2>2, <2>3
  <1>7. QED
    BY <1>5, <1>6 DEF BoundOf

\* What a gate does to its logins keeps them counted and within the limit.
LEMMA ShapeKeeps ==
    ASSUME TypeOK, NEW p \in Process, NEW d \in Device, mono' = mono,
           KeptOf(p, d), BoundOf(p, d), LoginShape(p, d)
    PROVE  KeptOf(p, d)' /\ BoundOf(p, d)'
  <1>1. CASE Passes(p, d)
    BY <1>1, PassesKeeps
  <1>2. CASE ~Passes(p, d)
    <2>1. logins'[p][d] = logins[p][d] \/ logins'[p][d] = {}
      BY <1>2 DEF LoginShape, Counts
    <2>2. KeptOf(p, d)'
      BY <1>2, <2>1 DEF LoginShape, Counts, SameGate, KeptOf, Recent
    <2>3. ASSUME NEW t \in 0..mono PROVE Cardinality(InWindow(p, d, t)') <= RateLimit
      <3>1. CASE logins'[p][d] = logins[p][d]
        <4>1. InWindow(p, d, t)' = InWindow(p, d, t)
          BY <3>1 DEF InWindow
        <4>2. QED
          BY <4>1 DEF BoundOf
      <3>2. CASE logins'[p][d] = {}
        <4>1. InWindow(p, d, t)' = {}
          BY <3>2 DEF InWindow
        <4>2. QED
          BY <4>1, FS_EmptySet, GateAssumption
      <3>3. QED
        BY <2>1, <3>1, <3>2
    <2>4. QED
      BY <2>2, <2>3 DEF BoundOf
  <1>3. QED
    BY <1>1, <1>2

\* A gate whose attempts and logins stay as they are keeps both as time passes.
LEMMA TimeKeeps ==
    ASSUME TypeOK, NEW p \in Process, NEW d \in Device, mono' \in {mono, mono + 1},
           gate'[p] = gate[p], logins'[p] = logins[p], KeptOf(p, d), BoundOf(p, d)
    PROVE  KeptOf(p, d)' /\ BoundOf(p, d)'
  <1>1. mono \in Nat /\ \A a \in logins[p][d] : a[1] \in Nat /\ a[1] <= mono
    BY DEF TypeOK, Login, Time, KeptOf
  <1>2. Recent(logins[p][d])' \subseteq Recent(logins[p][d])
    BY <1>1, GateAssumption DEF Recent
  <1>3. KeptOf(p, d)'
    BY <1>1, <1>2 DEF KeptOf, Recent
  <1>4. ASSUME NEW t \in 0..mono' PROVE Cardinality(InWindow(p, d, t)') <= RateLimit
    <2>1. InWindow(p, d, t)' = InWindow(p, d, t)
      BY DEF InWindow
    <2>2. CASE t <= mono
      BY <1>1, <2>1, <2>2 DEF BoundOf
    <2>3. CASE t = mono + 1
      <3>1. InWindow(p, d, t) \subseteq InWindow(p, d, mono)
        BY <1>1, <2>3, GateAssumption DEF InWindow
      <3>2. IsFiniteSet(InWindow(p, d, mono))
        BY FS_Subset DEF InWindow, TypeOK
      <3>3. Cardinality(InWindow(p, d, t)) <= Cardinality(InWindow(p, d, mono))
        BY <3>1, <3>2, FS_Subset
      <3>4. /\ Cardinality(InWindow(p, d, t)) \in Nat
            /\ Cardinality(InWindow(p, d, mono)) \in Nat
        BY <3>1, <3>2, FS_Subset, FS_CardinalityType
      <3>5. Cardinality(InWindow(p, d, mono)) <= RateLimit
        BY <1>1 DEF BoundOf
      <3>6. QED
        BY <2>1, <3>3, <3>4, <3>5, GateAssumption
    <2>4. QED
      BY <1>1, <2>2, <2>3
  <1>5. QED
    BY <1>3, <1>4 DEF BoundOf

RateInv == TypeOK /\ WindowKept /\ RateBound

LEMMA RateStep == RateInv /\ [Next]_vars => WindowKept' /\ RateBound'
  <1> SUFFICES ASSUME RateInv, [Next]_vars, NEW p \in Process, NEW d \in Device
               PROVE  KeptOf(p, d)' /\ BoundOf(p, d)'
    BY DEF WindowKept, KeptOf, RateBound, BoundOf, Recent
  <1>1. TypeOK /\ KeptOf(p, d) /\ BoundOf(p, d)
    BY KeptFact DEF RateInv
  <1>2. ASSUME NEW q \in Process, GateStep(q) PROVE KeptOf(p, d)' /\ BoundOf(p, d)'
    <2>1. CASE q = p
      BY <1>1, <1>2, <2>1, LoginsOf, ShapeKeeps
    <2>2. CASE q # p
      BY <1>1, <1>2, <2>2, LoginsOf, TimeKeeps
    <2>3. QED
      BY <2>1, <2>2
  <1>3. CASE UNCHANGED vars \/ Damage \/ Repair \/ Tick \/ \E t \in 0..MaxTime : SetClock(t)
    <2>1. mono' \in {mono, mono + 1} /\ gate'[p] = gate[p] /\ logins'[p] = logins[p]
      BY <1>3 DEF vars, Damage, Repair, Tick, SetClock, clocks
    <2>2. QED
      BY <1>1, <2>1, TimeKeeps
  <1>4. QED
    BY <1>2, <1>3 DEF Next

LEMMA RateInit == Init => WindowKept /\ RateBound
  <1> SUFFICES ASSUME Init PROVE WindowKept /\ RateBound
    OBVIOUS
  <1>1. \A p \in Process, d \in Device : logins[p][d] = {} /\ gate[p].attempts[d] = {}
    BY DEF Init, NoGate, NoLogins
  <1>2. WindowKept
    BY <1>1 DEF WindowKept
  <1>3. \A p \in Process, d \in Device, t \in 0..mono : InWindow(p, d, t) = {}
    BY <1>1 DEF InWindow
  <1>4. QED
    BY <1>2, <1>3, FS_EmptySet, GateAssumption DEF RateBound

\* However the clocks run and whatever else the run does, one run's logins to
\* one device, at the start of a task or inside one, never exceed the limit in
\* any window.
THEOREM RatesBounded == Spec => []RateBound
  <1>1. Init => RateInv
    BY InitType, RateInit DEF RateInv
  <1>2. TypeOK /\ TypeOK' /\ RateInv /\ [Next]_vars => RateInv'
    BY RateStep DEF RateInv
  <1>3. RateInv => RateBound
    BY DEF RateInv
  <1>4. QED
    BY <1>1, <1>2, <1>3, TypeCorrect, PTL DEF Spec
-----------------------------------------------------------------------------
(* Failing closed                                                          *)

FileInv == TypeOK /\ (~HasFile => ~marker /\ ~invalid)

\* What a step of a gate does to the file while the marker stands: nothing.
LEMMA MarkedFile ==
    ASSUME FileInv, NEW p \in Process, GateStep(p)
    PROVE  /\ marker /\ marker' => disk' = disk
           /\ ~HasFile => ~marker' /\ ~invalid'
  <1>1. ASSUME NEW g \in Gate, NEW persist \in BOOLEAN, SyncError(g, persist)
        PROVE  HasFile /\ (marker /\ marker' => disk' = disk)
    BY <1>1 DEF SyncError, fileVars, Readable
  <1>2. ASSUME NEW g \in Gate, NEW persist \in BOOLEAN, Readable, Persisted(g, persist)
        PROVE  /\ marker' = marker /\ invalid' = invalid
               /\ ~HasFile => disk' = disk
               /\ HasFile => ~marker
    BY <1>2 DEF Persisted, Readable
  <1>3. QED
    BY <1>1, <1>2, StepShape DEF FileInv, fileVars

\* While the marker of a damaged file stands, every gate refuses, and nothing
\* overwrites what the file held.
THEOREM GateFailsClosed == Spec => FailsClosed
  <1>1. Init => FileInv
    BY InitType DEF FileInv, Init
  <1>2. FileInv /\ TypeOK' /\ [Next]_vars => FileInv'
    <2> SUFFICES ASSUME FileInv, TypeOK', [Next]_vars PROVE FileInv'
      OBVIOUS
    <2>1. CASE \E p \in Process : GateStep(p)
      BY <2>1, MarkedFile DEF FileInv
    <2>2. CASE UNCHANGED vars \/ Damage \/ Repair \/ Tick \/ \E t \in 0..MaxTime : SetClock(t)
      BY <2>2 DEF FileInv, vars, fileVars, Damage, Repair, Tick, SetClock
    <2>3. QED
      BY <2>1, <2>2 DEF Next
  <1>3. FileInv /\ [Next]_vars =>
            [/\ (marker /\ marker') => disk' = disk
             /\ \A p \in Process, d \in Device :
                  Admits(p, d) => ~marker /\ ~invalid /\ gate[p].state = "ready"]_vars
    <2> SUFFICES ASSUME FileInv, [Next]_vars
                 PROVE  /\ (marker /\ marker') => disk' = disk
                        /\ \A p \in Process, d \in Device :
                             Admits(p, d) => ~marker /\ ~invalid /\ gate[p].state = "ready"
      OBVIOUS
    <2>1. (marker /\ marker') => disk' = disk
      <3>1. CASE \E p \in Process : GateStep(p)
        BY <3>1, MarkedFile
      <3>2. CASE UNCHANGED vars \/ Damage \/ Repair \/ Tick \/ \E t \in 0..MaxTime : SetClock(t)
        BY <3>2 DEF vars, fileVars, Damage, Repair, Tick, SetClock
      <3>3. QED
        BY <3>1, <3>2 DEF Next
    <2>2. ASSUME NEW p \in Process, NEW d \in Device, Admits(p, d)
          PROVE  ~marker /\ ~invalid /\ gate[p].state = "ready"
      BY <2>2, AdmitsFact DEF FileInv, Readable
    <2>3. QED
      BY <2>1, <2>2
  <1>4. QED
    BY <1>1, <1>2, <1>3, TypeCorrect, PTL DEF Spec, FailsClosed

-----------------------------------------------------------------------------
(* Memory before the file                                                  *)

\* A step of p's gate, still in use, that brings a later cooldown to its memory
\* leaves it in the file.
LEMMA MemoryOnFile ==
    ASSUME TypeOK, HasFile, NEW p \in Process, GateStep(p),
           gate[p].state = "ready", gate'[p].state = "ready",
           NEW d \in Device, gate'[p].cooldowns[d] > gate[p].cooldowns[d]
    PROVE  disk'[d] >= gate'[p].cooldowns[d]
  <1> DEFINE g == gate[p]
  <1>1. g \in Gate /\ g.cooldowns \in Expiry /\ g.cooldowns[d] \in Nat /\ disk \in Expiry /\ disk[d] \in Nat
    BY DEF TypeOK, Gate, Expiry, Time
  <1>2. \A h : SetGate(p, h) => gate'[p] = h
    BY DEF SetGate, TypeOK
  <1>3. ~ (g.cooldowns[d] > g.cooldowns[d])
    BY <1>1
  <1>4. \A h : ~SetGate(p, Latched(h)) /\ ~SetGate(p, NoGate)
    <2>1. NoGate.state = "absent"
      BY DEF NoGate
    <2>2. ~SetGate(p, NoGate)
      BY <1>2, <2>1
    <2>3. TAKE h
    <2>4. ~SetGate(p, Latched(h))
      <3>1. CASE Latched(h).state # "ready"
        BY <1>2, <3>1
      <3>2. QED
        BY <3>1 DEF Latched, NoGate
    <2>5. QED
      BY <2>2, <2>4
  <1>5. Synced(g) \in Gate /\ Synced(g).cooldowns = Merged(g.cooldowns)
    BY <1>1, MergedFact DEF Synced, Gate
  <1>6. ASSUME Synced(g).cooldowns[d] > g.cooldowns[d]
        PROVE  disk[d] >= Synced(g).cooldowns[d]
    BY <1>1, <1>5, <1>6 DEF Merged, Pruned, Later
  <1>7. CASE Holds(p)
    <2>1. gate'[p] = Synced(g) /\ disk' = disk
      BY <1>2, <1>4, <1>7 DEF Holds, Persisted
    <2>2. QED
      BY <1>6, <2>1
  <1>8. ASSUME NEW e \in Device, NEW a \in Login, NEW h \in Gate
        PROVE  /\ LoginRefused(h, e).cooldowns = h.cooldowns
               /\ LoginCounted(h, e, a).cooldowns = h.cooldowns
               /\ Reserved(h, e).cooldowns = h.cooldowns
               /\ Reserved(LoginCounted(h, e, a), e).cooldowns = h.cooldowns
               /\ Released(h, e).cooldowns = h.cooldowns
    <2>1. LoginCounted(h, e, a) \in Gate
      BY GateFact
    <2>2. \A attempts : WithAttempts(h, e, attempts).cooldowns = h.cooldowns
      BY DEF WithAttempts, Gate
    <2>3. \A k \in Gate : Reserved(k, e).cooldowns = k.cooldowns /\ Released(k, e).cooldowns = k.cooldowns
      BY DEF Reserved, Released, Gate
    <2>4. QED
      BY <2>1, <2>2, <2>3 DEF LoginRefused, LoginCounted
  <1>9. \A e \in Device : ThisLogin(p, e) \in Login
    BY ThisLoginType
  <1>10. ASSUME NEW e \in Device, NEW login \in BOOLEAN, CheckDevice(p, e, login)
         PROVE  disk'[d] >= gate'[p].cooldowns[d]
    <2>1. Admission(p, e, login, Synced(g)) /\ disk' = disk
      BY <1>4, <1>10 DEF CheckDevice, Persisted
    <2>2. gate'[p].cooldowns = Synced(g).cooldowns
      BY <1>2, <1>5, <1>8, <1>9, <2>1 DEF Admission
    <2>3. QED
      BY <1>6, <2>1, <2>2
  <1>11. ASSUME NEW e \in Device, CountLogin(p, e) \/ ReleaseDevice(p, e)
         PROVE  gate'[p].cooldowns = g.cooldowns
    <2>1. \/ gate'[p] = LoginRefused(g, e) \/ gate'[p] = LoginCounted(g, e, ThisLogin(p, e))
          \/ gate'[p] = Released(g, e)
      BY <1>2, <1>11 DEF CountLogin, ReleaseDevice
    <2>2. QED
      BY <1>1, <1>8, <1>9, <2>1
  <1>12. ASSUME NEW e \in Device, SetCooldown(p, e)
         PROVE  disk'[d] >= gate'[p].cooldowns[d]
    <2>1. PICK h \in Gate : h = Cooled(g, e)
      BY <1>1, GateFact, ThisLoginType
    <2>2. gate'[p] = Synced(h) /\ Persisted(h, TRUE)
      BY <1>2, <1>4, <1>12, <2>1 DEF SetCooldown
    <2>3. Synced(h) \in Gate /\ Synced(h).cooldowns = Merged(h.cooldowns)
      BY <2>1, MergedFact DEF Synced, Gate
    <2>4. disk' = gate'[p].cooldowns
      BY <2>2, <2>3 DEF Persisted, Written
    <2>5. gate'[p].cooldowns[d] \in Nat
      BY <2>2, <2>3 DEF Gate, Expiry, Time
    <2>6. QED
      BY <2>4, <2>5
  <1>13. ~Construct(p) /\ ~Close(p) /\ ~Kill(p)
    BY <1>4 DEF Construct, Close, Kill, Forget
  <1>14. QED
    BY <1>3, <1>7, <1>10, <1>11, <1>12, <1>13 DEF GateStep

\* Of a gate that goes on, no cooldown is in the memory alone: SafetyGate's
\* set_cooldown changes the memory first, and whatever error the persist meets,
\* the gate is out of use unless the file has it.
THEOREM CooldownsOnFile == Spec => NeverInMemoryAlone
  <1> DEFINE Kept == HasFile => \A p \in Process, d \in Device :
                        (/\ gate[p].state = "ready" /\ gate'[p].state = "ready"
                         /\ gate'[p].cooldowns[d] > gate[p].cooldowns[d])
                        => disk'[d] >= gate'[p].cooldowns[d]
  <1>1. TypeOK /\ [Next]_vars => [Kept]_vars
    <2> SUFFICES ASSUME TypeOK, [Next]_vars, HasFile, NEW p \in Process, NEW d \in Device,
                        gate[p].state = "ready", gate'[p].state = "ready",
                        gate'[p].cooldowns[d] > gate[p].cooldowns[d]
                 PROVE  disk'[d] >= gate'[p].cooldowns[d]
      OBVIOUS
    <2>1. gate[p].cooldowns[d] \in Nat
      BY DEF TypeOK, Gate, Expiry, Time
    <2>2. gate'[p] # gate[p]
      BY <2>1
    <2>3. PICK q \in Process : GateStep(q)
      BY <2>2 DEF Next, vars, Damage, Repair, Tick, SetClock
    <2>4. q = p
      BY <2>2, <2>3, StepShape
    <2>5. QED
      BY <2>3, <2>4, MemoryOnFile
  <1>2. QED
    BY <1>1, TypeCorrect, PTL DEF Spec, NeverInMemoryAlone
=============================================================================
