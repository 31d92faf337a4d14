------------------------ MODULE SessionManagerProofs ------------------------
(***************************************************************************)
(* What holds of SessionManager wherever asyncio.wait_for runs the acquire *)
(* it bounds, in a task of its own or in the caller's, whatever the        *)
(* borrowers, keys, sessions and limits.                                   *)
(***************************************************************************)
EXTENDS SessionManager, FiniteSetTheorems, SequenceTheorems, TLAPS

USE ManagerAssumption

-----------------------------------------------------------------------------
(* The list of idle keys                                                   *)

Elements(seq) == {seq[i] : i \in DOMAIN seq}
Unique(seq) == \A i, j \in DOMAIN seq : seq[i] = seq[j] => i = j

LEMMA WithoutFact ==
    ASSUME NEW idle \in Seq(Key), Unique(idle), NEW k \in Key
    PROVE  /\ Without(idle, k) \in Seq(Key)
           /\ Unique(Without(idle, k))
           /\ Elements(Without(idle, k)) = Elements(idle) \ {k}
           /\ Len(Without(idle, k)) <= Len(idle)
  <1> DEFINE n == Len(idle)
  <1>1. n \in Nat /\ DOMAIN idle = 1..n /\ \A i \in 1..n : idle[i] \in Key
    OBVIOUS
  <1>2. CASE \A i \in DOMAIN idle : idle[i] # k
    <2>1. Without(idle, k) = idle
      BY <1>2 DEF Without
    <2>2. k \notin Elements(idle)
      BY <1>2 DEF Elements
    <2>3. QED
      BY <1>1, <2>1, <2>2
  <1>3. CASE \E i \in DOMAIN idle : idle[i] = k
    <2> DEFINE at == CHOOSE i \in DOMAIN idle : idle[i] = k
               w == [i \in 1..(n - 1) |-> idle[IF i < at THEN i ELSE i + 1]]
    <2>1. at \in 1..n /\ idle[at] = k
      BY <1>1, <1>3
    <2>2. Without(idle, k) = w
      BY <1>3 DEF Without
    <2> HIDE DEF at
    <2>3. n - 1 \in Nat
      BY <1>1, <2>1
    <2>4. \A i \in 1..(n - 1) : w[i] \in Key /\ w[i] # k
      BY <1>1, <2>1 DEF Unique
    <2>5. w \in Seq(Key) /\ Len(w) = n - 1 /\ DOMAIN w = 1..(n - 1)
      BY <2>3, <2>4
    <2>6. Unique(w)
      <3> DEFINE g(i) == IF i < at THEN i ELSE i + 1
      <3>1. ASSUME NEW i \in 1..(n - 1), NEW j \in 1..(n - 1), w[i] = w[j]
            PROVE  i = j
        <4>1. g(i) \in 1..n /\ g(j) \in 1..n /\ (g(i) = g(j) => i = j)
          BY <1>1, <2>1
        <4>2. w[i] = idle[g(i)] /\ w[j] = idle[g(j)]
          OBVIOUS
        <4>3. QED
          BY <1>1, <3>1, <4>1, <4>2 DEF Unique
      <3>2. QED
        BY <2>5, <3>1 DEF Unique
    <2>7. ASSUME NEW x \in Elements(idle), x # k PROVE x \in Elements(w)
      <3>1. PICK i \in 1..n : idle[i] = x
        BY <1>1, <2>7 DEF Elements
      <3>2. CASE i < at
        <4>1. i \in 1..(n - 1) /\ w[i] = x
          BY <1>1, <2>1, <3>1, <3>2
        <4>2. QED
          BY <2>5, <4>1 DEF Elements
      <3>3. CASE i > at
        <4>1. i - 1 \in 1..(n - 1) /\ w[i - 1] = x
          BY <1>1, <2>1, <3>1, <3>3
        <4>2. QED
          BY <2>5, <4>1 DEF Elements
      <3>4. QED
        BY <1>1, <2>1, <2>7, <3>1, <3>2, <3>3
    <2>8. ASSUME NEW x \in Elements(w) PROVE x \in Elements(idle) /\ x # k
      <3>1. PICK i \in 1..(n - 1) : w[i] = x
        BY <2>5 DEF Elements
      <3>2. w[i] = idle[IF i < at THEN i ELSE i + 1]
        OBVIOUS
      <3>3. (IF i < at THEN i ELSE i + 1) \in 1..n
        BY <1>1, <2>1
      <3>4. QED
        BY <1>1, <2>4, <3>1, <3>2, <3>3 DEF Elements
    <2>9. QED
      BY <1>1, <2>2, <2>3, <2>5, <2>6, <2>7, <2>8
  <1>4. QED
    BY <1>2, <1>3

LEMMA AppendFact ==
    ASSUME NEW idle \in Seq(Key), Unique(idle), NEW k \in Key, k \notin Elements(idle)
    PROVE  /\ Append(idle, k) \in Seq(Key)
           /\ Unique(Append(idle, k))
           /\ Elements(Append(idle, k)) = Elements(idle) \cup {k}
  <1> DEFINE n == Len(idle)
             w == Append(idle, k)
  <1>1. n \in Nat /\ DOMAIN idle = 1..n /\ \A i \in 1..n : idle[i] \in Key
    OBVIOUS
  <1>2. /\ w \in Seq(Key) /\ DOMAIN w = 1..(n + 1) /\ w[n + 1] = k
        /\ \A i \in 1..n : w[i] = idle[i]
    BY <1>1, AppendProperties
  <1> HIDE DEF w
  <1>3. \A i \in 1..n : idle[i] # k
    BY <1>1 DEF Elements
  <1>4. Unique(w)
    BY <1>1, <1>2, <1>3 DEF Unique
  <1>5. 1..(n + 1) = (1..n) \cup {n + 1}
    BY <1>1
  <1>6. Elements(w) = Elements(idle) \cup {k}
    BY <1>1, <1>2, <1>5 DEF Elements
  <1>7. QED
    BY <1>2, <1>4, <1>6 DEF w

LEMMA SuffixFact ==
    ASSUME NEW idle \in Seq(Key), Unique(idle), NEW n \in 0..Len(idle)
    PROVE  /\ SubSeq(idle, n + 1, Len(idle)) \in Seq(Key)
           /\ Unique(SubSeq(idle, n + 1, Len(idle)))
           /\ Elements(SubSeq(idle, n + 1, Len(idle))) = Elements(idle) \ {idle[i] : i \in 1..n}
           /\ Len(SubSeq(idle, n + 1, Len(idle))) = Len(idle) - n
  <1> DEFINE w == SubSeq(idle, n + 1, Len(idle))
  <1>1. /\ Len(idle) \in Nat /\ DOMAIN idle = 1..Len(idle)
        /\ \A i \in 1..Len(idle) : idle[i] \in Key
    OBVIOUS
  <1>2. /\ w \in Seq(Key) /\ Len(w) = Len(idle) - n /\ DOMAIN w = 1..(Len(idle) - n)
        /\ \A i \in 1..(Len(idle) - n) : w[i] = idle[n + i]
    <2>1. n + 1 \in 1..(Len(idle) + 1) /\ Len(idle) \in n..Len(idle)
      BY <1>1
    <2>2. \A i \in (n + 1)..Len(idle) : idle[i] \in Key
      BY <1>1
    <2>3. /\ w \in Seq(Key)
          /\ Len(w) = IF n + 1 <= Len(idle) THEN Len(idle) - (n + 1) + 1 ELSE 0
          /\ \A i \in 1..(Len(idle) - (n + 1) + 1) : w[i] = idle[n + 1 + i - 1]
      BY <1>1, <2>1, <2>2, SubSeqProperties
    <2> HIDE DEF w
    <2>4. Len(w) = Len(idle) - n /\ Len(w) \in Nat
      <3>1. n \in Int /\ 0 <= n /\ n <= Len(idle)
        BY <1>1
      <3>2. CASE n + 1 <= Len(idle)
        BY <1>1, <2>3, <3>1, <3>2
      <3>3. CASE n = Len(idle)
        BY <1>1, <2>3, <3>1, <3>3
      <3>4. n + 1 <= Len(idle) \/ n = Len(idle)
        <4>1. \A x, y \in Int : x <= y => x + 1 <= y \/ x = y
          OBVIOUS
        <4>2. Len(idle) \in Int
          BY <1>1
        <4>3. QED
          BY <3>1, <4>1, <4>2
      <3>5. QED
        BY <3>2, <3>3, <3>4
    <2>5. \A i \in 1..(Len(idle) - n) : i \in 1..(Len(idle) - (n + 1) + 1) /\ n + 1 + i - 1 = n + i
      BY <1>1
    <2>6. QED
      BY <2>3, <2>4, <2>5
  <1> HIDE DEF w
  <1>3. \A i \in 1..(Len(idle) - n) : n + i \in 1..Len(idle) /\ n + i \notin 1..n
    BY <1>1
  <1>4. Unique(w)
    <2>1. ASSUME NEW i \in 1..(Len(idle) - n), NEW j \in 1..(Len(idle) - n), w[i] = w[j]
          PROVE  i = j
      <3>1. idle[n + i] = idle[n + j]
        BY <1>2, <2>1
      <3>2. n + i = n + j
        BY <1>1, <1>3, <3>1 DEF Unique
      <3>3. QED
        BY <3>2
    <2>2. QED
      BY <1>2, <2>1 DEF Unique
  <1>5. ASSUME NEW x \in Elements(w) PROVE x \in Elements(idle) \ {idle[i] : i \in 1..n}
    <2>1. PICK i \in 1..(Len(idle) - n) : w[i] = x
      BY <1>2 DEF Elements
    <2>2. x = idle[n + i] /\ n + i \in 1..Len(idle) /\ n + i \notin 1..n
      BY <1>2, <1>3, <2>1
    <2>3. \A j \in 1..n : j \in 1..Len(idle) /\ j # n + i
      BY <1>1, <2>2
    <2>4. \A j \in 1..n : idle[j] # x
      BY <1>1, <2>2, <2>3 DEF Unique
    <2>5. QED
      BY <1>1, <2>2, <2>4 DEF Elements
  <1>6. ASSUME NEW x \in Elements(idle) \ {idle[i] : i \in 1..n} PROVE x \in Elements(w)
    <2>1. PICK i \in 1..Len(idle) : idle[i] = x /\ i > n
      BY <1>1, <1>6 DEF Elements
    <2>2. i - n \in 1..(Len(idle) - n) /\ w[i - n] = x
      BY <1>1, <1>2, <2>1
    <2>3. QED
      BY <1>2, <2>2 DEF Elements
  <1>7. QED
    BY <1>2, <1>4, <1>5, <1>6 DEF w

-----------------------------------------------------------------------------
(* What the manager's methods do to it                                     *)

\* Who is idle has a session and nobody works on it.
IdleFree(m) ==
    \A k \in IdleKeys(m) : m.slot[k].there /\ m.slot[k].ses # NoSession /\ m.slot[k].owner = NoOne

Sound(m) == m \in Manager /\ Unique(m.idle) /\ IdleFree(m)

LEMMA SoundParts ==
    ASSUME NEW m, Sound(m)
    PROVE  /\ m.slot \in [Key -> Entry] /\ m.idle \in Seq(Key) /\ Unique(m.idle)
           /\ m.waiters \in SUBSET Borrower /\ m.listed \in BOOLEAN
           /\ m.status \in [Session -> {"none", "open", "closing"}]
           /\ m.counted \in SUBSET Session
           /\ IdleKeys(m) = Elements(m.idle) /\ IdleKeys(m) \subseteq Key
           /\ \A k \in Key : /\ m.slot[k] \in Entry
                             /\ m.slot[k].ses \in Session \cup {NoSession}
                             /\ m.slot[k].owner \in Borrower \cup {NoOne}
                             /\ m.slot[k].there \in BOOLEAN
                             /\ ~m.slot[k].there => m.slot[k] = NoEntry
                             /\ k \in IdleKeys(m) => /\ m.slot[k].there
                                                    /\ m.slot[k].ses \in Session
                                                    /\ m.slot[k].owner = NoOne
  <1>1. m.slot \in [Key -> Entry] /\ m.idle \in Seq(Key)
    BY DEF Sound, Manager
  <1>2. /\ Unique(m.idle)
        /\ m.waiters \in SUBSET Borrower /\ m.listed \in BOOLEAN
        /\ m.status \in [Session -> {"none", "open", "closing"}]
        /\ m.counted \in SUBSET Session
    BY DEF Sound, Manager
  <1>3. IdleKeys(m) = Elements(m.idle) /\ IdleKeys(m) \subseteq Key
    BY <1>1 DEF IdleKeys, Elements
  <1>4. ASSUME NEW k \in Key
        PROVE  /\ m.slot[k] \in Entry
               /\ m.slot[k].ses \in Session \cup {NoSession}
               /\ m.slot[k].owner \in Borrower \cup {NoOne}
               /\ m.slot[k].there \in BOOLEAN
               /\ ~m.slot[k].there => m.slot[k] = NoEntry
    <2>1. m.slot[k] \in Entry
      BY <1>1
    <2>2. CASE m.slot[k] = NoEntry
      BY <2>1, <2>2 DEF NoEntry, NoSession
    <2>3. CASE m.slot[k] # NoEntry
      <3>1. m.slot[k] \in [owner : Borrower \cup {NoOne}, ses : Session \cup {NoSession}, there : {TRUE}]
        BY <2>1, <2>3 DEF Entry
      <3>2. QED
        BY <2>1, <3>1
    <2>4. QED
      BY <2>2, <2>3
  <1>5. ASSUME NEW k \in Key, k \in IdleKeys(m)
        PROVE  m.slot[k].there /\ m.slot[k].ses \in Session /\ m.slot[k].owner = NoOne
    BY <1>4, <1>5 DEF Sound, IdleFree
  <1>6. QED
    BY <1>1, <1>2, <1>3, <1>4, <1>5

LEMMA EntryThere ==
    ASSUME NEW slot \in [Key -> Entry], NEW k \in Key, NEW l \in Key, NEW s
    PROVE  /\ [slot EXCEPT ![k].owner = s][l].there = slot[l].there
           /\ [slot EXCEPT ![k].owner = s][l].ses = slot[l].ses
           /\ [slot EXCEPT ![k].ses = s][l].there = slot[l].there
           /\ [slot EXCEPT ![k].ses = s][l].owner = slot[l].owner
           /\ [slot EXCEPT ![k].owner = s][k].owner = s
           /\ [slot EXCEPT ![k].ses = s][k].ses = s
  BY DEF Entry, NoEntry

\* An entry that is there stays one when its owner or its session changes.
LEMMA EntryChanged ==
    ASSUME NEW slot \in [Key -> Entry], NEW k \in Key,
           slot[k].there \/ slot[k].owner \in Borrower
    PROVE  /\ [slot EXCEPT ![k].owner = NoOne] \in [Key -> Entry]
           /\ \A s \in Session \cup {NoSession} : [slot EXCEPT ![k].ses = s] \in [Key -> Entry]
  <1>1. slot[k] # NoEntry
    BY DEF NoEntry
  <1>2. slot[k] \in [owner : Borrower \cup {NoOne}, ses : Session \cup {NoSession}, there : {TRUE}]
    BY <1>1 DEF Entry
  <1>3. [slot[k] EXCEPT !.owner = NoOne] \in Entry
    BY <1>2 DEF Entry
  <1>4. \A s \in Session \cup {NoSession} : [slot[k] EXCEPT !.ses = s] \in Entry
    BY <1>2 DEF Entry
  <1>5. QED
    BY <1>3, <1>4

\* What each method leaves of the manager's fields.
LEMMA DroppedFact ==
    ASSUME NEW m, Sound(m), NEW k \in Key
    PROVE  /\ Sound(Dropped(m, k))
           /\ Dropped(m, k).slot = [m.slot EXCEPT ![k] = NoEntry]
           /\ IdleKeys(Dropped(m, k)) = IdleKeys(m) \ {k}
           /\ Len(Dropped(m, k).idle) <= Len(m.idle)
           /\ Dropped(m, k).waiters = {}
           /\ Dropped(m, k).status = m.status
  <1> DEFINE n == Dropped(m, k)
  <1>1. /\ m.slot \in [Key -> Entry] /\ m.idle \in Seq(Key) /\ Unique(m.idle)
        /\ m \in Manager /\ IdleKeys(m) = Elements(m.idle)
    BY SoundParts DEF Sound
  <1>2. /\ n.slot = [m.slot EXCEPT ![k] = NoEntry]
        /\ n.idle = Without(m.idle, k)
        /\ n.waiters = {} /\ n.status = m.status
    BY <1>1 DEF Dropped, Manager
  <1>3. [m.slot EXCEPT ![k] = NoEntry] \in [Key -> Entry]
    BY <1>1 DEF Entry
  <1>4. /\ Without(m.idle, k) \in Seq(Key) /\ Unique(Without(m.idle, k))
        /\ Elements(Without(m.idle, k)) = Elements(m.idle) \ {k}
        /\ Len(Without(m.idle, k)) <= Len(m.idle)
    BY <1>1, WithoutFact
  <1>5. n \in Manager
    BY <1>1, <1>3, <1>4 DEF Dropped, Manager
  <1>6. IdleKeys(n) = Elements(n.idle)
    BY DEF IdleKeys, Elements
  <1>7. IdleFree(n)
    <2>1. \A l \in IdleKeys(n) : l \in IdleKeys(m) /\ l # k /\ l \in Key
      BY <1>1, <1>2, <1>4, <1>6, SoundParts
    <2>2. \A l \in IdleKeys(n) : n.slot[l] = m.slot[l]
      BY <1>1, <1>2, <2>1
    <2>3. QED
      BY <2>1, <2>2 DEF Sound, IdleFree
  <1>8. QED
    BY <1>1, <1>2, <1>4, <1>5, <1>6, <1>7 DEF Sound

LEMMA TornFact ==
    ASSUME NEW m, Sound(m), NEW s \in Session
    PROVE  /\ Sound(Torn(m, s))
           /\ Torn(m, s).slot = m.slot
           /\ IdleKeys(Torn(m, s)) = IdleKeys(m)
           /\ Torn(m, s).idle = m.idle
           /\ Torn(m, s).waiters = m.waiters
           /\ Torn(m, s).status = [m.status EXCEPT ![s] = "closing"]
  <1> DEFINE n == Torn(m, s)
  <1>1. m \in Manager /\ Unique(m.idle)
    BY DEF Sound
  <1>2. /\ n.slot = m.slot /\ n.idle = m.idle /\ n.waiters = m.waiters
        /\ n.status = [m.status EXCEPT ![s] = "closing"]
    BY <1>1 DEF Torn, Manager
  <1>3. n \in Manager
    <2>1. [m.status EXCEPT ![s] = "closing"] \in [Session -> {"none", "open", "closing"}]
      BY <1>1 DEF Manager
    <2>2. m.counted \cup {s} \in SUBSET Session
      BY <1>1 DEF Manager
    <2>3. QED
      BY <1>1, <2>1, <2>2 DEF Torn, Manager
  <1>4. QED
    BY <1>1, <1>2, <1>3 DEF Sound, IdleFree, IdleKeys

LEMMA TakenFact ==
    ASSUME NEW m, Sound(m), NEW b \in Borrower, NEW k \in Key
    PROVE  /\ Sound(Taken(m, b, k))
           /\ Taken(m, b, k).slot =
                 [m.slot EXCEPT ![k] = [owner |-> b, ses |-> m.slot[k].ses, there |-> TRUE]]
           /\ IdleKeys(Taken(m, b, k)) = IdleKeys(m) \ {k}
           /\ Len(Taken(m, b, k).idle) <= Len(m.idle)
           /\ Taken(m, b, k).waiters = m.waiters
           /\ Taken(m, b, k).status = m.status
  <1> DEFINE n == Taken(m, b, k)
             e == [owner |-> b, ses |-> m.slot[k].ses, there |-> TRUE]
  <1>1. /\ m.slot \in [Key -> Entry] /\ m.idle \in Seq(Key) /\ Unique(m.idle)
        /\ m \in Manager /\ IdleKeys(m) = Elements(m.idle)
        /\ m.slot[k].ses \in Session \cup {NoSession}
    BY SoundParts DEF Sound
  <1>2. /\ n.slot = [m.slot EXCEPT ![k] = e]
        /\ n.idle = Without(m.idle, k)
        /\ n.waiters = m.waiters /\ n.status = m.status
    BY <1>1 DEF Taken, Manager
  <1>3. [m.slot EXCEPT ![k] = e] \in [Key -> Entry]
    <2>1. e \in Entry
      BY <1>1 DEF Entry
    <2>2. QED
      BY <1>1, <2>1
  <1>4. /\ Without(m.idle, k) \in Seq(Key) /\ Unique(Without(m.idle, k))
        /\ Elements(Without(m.idle, k)) = Elements(m.idle) \ {k}
        /\ Len(Without(m.idle, k)) <= Len(m.idle)
    BY <1>1, WithoutFact
  <1>5. n \in Manager
    BY <1>1, <1>3, <1>4 DEF Taken, Manager
  <1>6. IdleKeys(n) = Elements(n.idle)
    BY DEF IdleKeys, Elements
  <1>7. IdleFree(n)
    <2>1. \A l \in IdleKeys(n) : l \in IdleKeys(m) /\ l # k /\ l \in Key
      BY <1>1, <1>2, <1>4, <1>6, SoundParts
    <2>2. \A l \in IdleKeys(n) : n.slot[l] = m.slot[l]
      BY <1>1, <1>2, <2>1
    <2>3. QED
      BY <2>1, <2>2 DEF Sound, IdleFree
  <1>8. QED
    BY <1>1, <1>2, <1>4, <1>5, <1>6, <1>7 DEF Sound

LEMMA LeftFact ==
    ASSUME NEW m, Sound(m), NEW b \in Borrower, NEW k \in Key
    PROVE  /\ Sound(Left(m, b, k))
           /\ IdleKeys(Left(m, b, k)) = IdleKeys(m)
           /\ Left(m, b, k).idle = m.idle
           /\ Left(m, b, k).waiters = m.waiters
           /\ Left(m, b, k).status = m.status
  <1>1. m.slot \in [Key -> Entry] /\ m \in Manager /\ Unique(m.idle)
    BY SoundParts DEF Sound
  <1>2. CASE m.slot[k].owner = b
    <2> DEFINE n == [m EXCEPT !.slot[k].owner = NoOne]
    <2>1. /\ n.slot = [m.slot EXCEPT ![k].owner = NoOne] /\ n.idle = m.idle
          /\ n.waiters = m.waiters /\ n.status = m.status
      BY <1>1 DEF Manager
    <2>2. [m.slot EXCEPT ![k].owner = NoOne] \in [Key -> Entry]
      BY <1>1, <1>2, EntryChanged
    <2>3. n \in Manager
      BY <1>1, <2>2 DEF Manager
    <2>4. IdleKeys(n) = IdleKeys(m)
      BY <2>1 DEF IdleKeys
    <2>5. IdleFree(n)
      <3>1. k \notin IdleKeys(m)
        BY <1>2 DEF Sound, IdleFree
      <3>2. \A l \in IdleKeys(m) : l \in Key /\ l # k
        BY <3>1, SoundParts
      <3>3. \A l \in IdleKeys(n) : n.slot[l] = m.slot[l]
        BY <1>1, <2>1, <2>4, <3>2
      <3>4. QED
        BY <2>4, <3>3 DEF Sound, IdleFree
    <2> HIDE DEF n
    <2>6. Left(m, b, k) = n
      BY <1>2 DEF Left, n
    <2>7. QED
      BY <1>1, <1>2, <2>1, <2>3, <2>4, <2>5, <2>6 DEF Sound
  <1>3. CASE m.slot[k].owner # b
    BY <1>3 DEF Left
  <1>4. QED
    BY <1>2, <1>3

LEMMA LeftSlot ==
    ASSUME NEW m, Sound(m), NEW b \in Borrower, NEW k \in Key
    PROVE  /\ m.slot[k].owner = b => Left(m, b, k).slot = [m.slot EXCEPT ![k].owner = NoOne]
           /\ m.slot[k].owner # b => Left(m, b, k).slot = m.slot
  BY DEF Left, Sound, Manager

LEMMA WithSessionFact ==
    ASSUME NEW m, Sound(m), NEW b \in Borrower, NEW k \in Key, NEW s \in Session \cup {NoSession}
    PROVE  /\ Sound(WithSession(m, b, k, s))
           /\ IdleKeys(WithSession(m, b, k, s)) = IdleKeys(m)
           /\ WithSession(m, b, k, s).idle = m.idle
           /\ WithSession(m, b, k, s).waiters = m.waiters
           /\ WithSession(m, b, k, s).status = m.status
  <1>1. m.slot \in [Key -> Entry] /\ m \in Manager /\ Unique(m.idle)
    BY SoundParts DEF Sound
  <1>2. CASE m.slot[k].owner = b
    <2> DEFINE n == [m EXCEPT !.slot[k].ses = s]
    <2>1. /\ n.slot = [m.slot EXCEPT ![k].ses = s] /\ n.idle = m.idle
          /\ n.waiters = m.waiters /\ n.status = m.status
      BY <1>1 DEF Manager
    <2>2. [m.slot EXCEPT ![k].ses = s] \in [Key -> Entry]
      BY <1>1, <1>2, EntryChanged
    <2>3. n \in Manager
      BY <1>1, <2>2 DEF Manager
    <2>4. IdleKeys(n) = IdleKeys(m)
      BY <2>1 DEF IdleKeys
    <2>5. IdleFree(n)
      <3>1. k \notin IdleKeys(m)
        BY <1>2 DEF Sound, IdleFree
      <3>2. \A l \in IdleKeys(m) : l \in Key /\ l # k
        BY <3>1, SoundParts
      <3>3. \A l \in IdleKeys(n) : n.slot[l] = m.slot[l]
        BY <1>1, <2>1, <2>4, <3>2
      <3>4. QED
        BY <2>4, <3>3 DEF Sound, IdleFree
    <2> HIDE DEF n
    <2>6. WithSession(m, b, k, s) = n
      BY <1>2 DEF WithSession, n
    <2>7. QED
      BY <1>1, <1>2, <2>1, <2>3, <2>4, <2>5, <2>6 DEF Sound
  <1>3. CASE m.slot[k].owner # b
    BY <1>3 DEF WithSession
  <1>4. QED
    BY <1>2, <1>3

LEMMA WithSessionSlot ==
    ASSUME NEW m, Sound(m), NEW b \in Borrower, NEW k \in Key, NEW s
    PROVE  /\ m.slot[k].owner = b => WithSession(m, b, k, s).slot = [m.slot EXCEPT ![k].ses = s]
           /\ m.slot[k].owner # b => WithSession(m, b, k, s).slot = m.slot
  BY DEF WithSession, Sound, Manager

LEMMA OpenedFact ==
    ASSUME NEW m, Sound(m), NEW s \in Session
    PROVE  LET n == [m EXCEPT !.status[s] = "open"]
           IN  /\ Sound(n) /\ IdleKeys(n) = IdleKeys(m)
               /\ n.slot = m.slot /\ n.idle = m.idle /\ n.waiters = m.waiters
               /\ n.status = [m.status EXCEPT ![s] = "open"]
  <1> DEFINE n == [m EXCEPT !.status[s] = "open"]
  <1>1. m \in Manager /\ Unique(m.idle)
    BY DEF Sound
  <1>2. /\ n.slot = m.slot /\ n.idle = m.idle /\ n.waiters = m.waiters
        /\ n.status = [m.status EXCEPT ![s] = "open"]
    BY <1>1 DEF Manager
  <1>3. n \in Manager
    BY <1>1 DEF Manager
  <1>4. QED
    BY <1>1, <1>2, <1>3 DEF Sound, IdleFree, IdleKeys

LEMMA WaitersFact ==
    ASSUME NEW m, Sound(m), NEW W \in SUBSET Borrower
    PROVE  LET n == [m EXCEPT !.waiters = W]
           IN  /\ Sound(n) /\ IdleKeys(n) = IdleKeys(m)
               /\ n.slot = m.slot /\ n.idle = m.idle /\ n.waiters = W /\ n.status = m.status
  <1> DEFINE n == [m EXCEPT !.waiters = W]
  <1>1. m \in Manager /\ Unique(m.idle)
    BY DEF Sound
  <1>2. n.slot = m.slot /\ n.idle = m.idle /\ n.waiters = W /\ n.status = m.status
    BY <1>1 DEF Manager
  <1>3. n \in Manager
    BY <1>1 DEF Manager
  <1>4. QED
    BY <1>1, <1>2, <1>3 DEF Sound, IdleFree, IdleKeys

LEMMA OfferedFact ==
    ASSUME NEW m, Sound(m), NEW k \in Key, NEW s \in Session
    PROVE  /\ Sound(Offered(m, k, s))
           /\ Offered(m, k, s).slot = IF m.slot[k].ses = s /\ m.slot[k].there
                                      THEN [m.slot EXCEPT ![k].owner = NoOne] ELSE m.slot
           /\ IdleKeys(Offered(m, k, s)) = IF m.slot[k].ses = s /\ m.slot[k].there
                                           THEN IdleKeys(m) \cup {k} ELSE IdleKeys(m)
           /\ Offered(m, k, s).waiters = {}
           /\ Offered(m, k, s).status = m.status
  <1>1. /\ m.slot \in [Key -> Entry] /\ m.idle \in Seq(Key) /\ Unique(m.idle)
        /\ m \in Manager /\ IdleKeys(m) = Elements(m.idle)
    BY SoundParts DEF Sound
  <1>2. CASE m.slot[k].ses = s /\ m.slot[k].there
    <2> DEFINE w == Append(Without(m.idle, k), k)
               n == [m EXCEPT !.slot[k].owner = NoOne, !.idle = Append(Without(@, k), k),
                              !.waiters = {}]
    <2>1. /\ Without(m.idle, k) \in Seq(Key) /\ Unique(Without(m.idle, k))
          /\ Elements(Without(m.idle, k)) = Elements(m.idle) \ {k}
      BY <1>1, WithoutFact
    <2>2. w \in Seq(Key) /\ Unique(w) /\ Elements(w) = Elements(m.idle) \cup {k}
      BY <2>1, AppendFact
    <2>3. /\ n.slot = [m.slot EXCEPT ![k].owner = NoOne] /\ n.idle = w
          /\ n.waiters = {} /\ n.status = m.status
      BY <1>1 DEF Manager
    <2>4. [m.slot EXCEPT ![k].owner = NoOne] \in [Key -> Entry]
      BY <1>1, <1>2, EntryChanged
    <2>5. n \in Manager
      BY <1>1, <2>2, <2>4 DEF Manager
    <2>6. Offered(m, k, s) = n
      BY <1>2 DEF Offered
    <2>7. IdleKeys(n) = Elements(n.idle)
      BY DEF IdleKeys, Elements
    <2>8. IdleFree(n)
      <3>1. \A l \in IdleKeys(m) : l \in Key /\ m.slot[l].owner = NoOne
        BY SoundParts
      <3>2. n.slot[k].there /\ n.slot[k].ses # NoSession /\ n.slot[k].owner = NoOne
        <4>1. m.slot[k] # NoEntry
          BY <1>2 DEF NoEntry
        <4>2. m.slot[k] \in [owner : Borrower \cup {NoOne}, ses : Session \cup {NoSession}, there : {TRUE}]
          BY <1>1, <4>1 DEF Entry
        <4>3. n.slot[k] = [m.slot[k] EXCEPT !.owner = NoOne]
          BY <1>1, <2>3
        <4>4. n.slot[k].there /\ n.slot[k].ses = s /\ n.slot[k].owner = NoOne
          BY <1>2, <4>2, <4>3
        <4>5. QED
          BY <4>4 DEF NoSession
      <3>3. \A l \in Key : l # k => n.slot[l] = m.slot[l]
        BY <1>1, <2>3
      <3>4. \A l \in IdleKeys(n) : l = k \/ l \in IdleKeys(m)
        BY <1>1, <2>2, <2>3, <2>7
      <3>5. QED
        BY <3>1, <3>2, <3>3, <3>4 DEF Sound, IdleFree
    <2> HIDE DEF n, w
    <2>9. QED
      BY <1>1, <1>2, <2>2, <2>3, <2>5, <2>6, <2>7, <2>8 DEF Sound
  <1>3. CASE ~(m.slot[k].ses = s /\ m.slot[k].there)
    BY <1>3, WaitersFact DEF Offered
  <1>4. QED
    BY <1>2, <1>3

\* The keys room() closes.
TrimmedKeys(m) == {m.idle[i] : i \in 1..Short(m)}

LEMMA ShortFact ==
    ASSUME NEW m, Sound(m)
    PROVE  /\ Short(m) \in 0..Len(m.idle)
           /\ Len(m.idle) - Short(m) <= Keep
           /\ TrimmedKeys(m) \subseteq IdleKeys(m)
  <1>1. m.idle \in Seq(Key) /\ m.counted \in SUBSET Session
    BY SoundParts
  <1>2. Len(m.idle) \in Nat /\ DOMAIN m.idle = 1..Len(m.idle)
    BY <1>1
  <1>3. Cardinality(m.counted) \in Nat
    BY <1>1, FS_Subset, FS_CardinalityType
  <1>4. Keep \in Nat
    OBVIOUS
  <1>5. Short(m) \in 0..Len(m.idle) /\ Len(m.idle) - Short(m) <= Keep
    BY <1>2, <1>3, <1>4 DEF Short, Kept
  <1>6. QED
    BY <1>2, <1>5 DEF TrimmedKeys, IdleKeys

LEMMA TrimmedFact ==
    ASSUME NEW m, Sound(m)
    PROVE  /\ Sound(Trimmed(m))
           /\ Trimmed(m).slot = [k \in Key |-> IF k \in TrimmedKeys(m) THEN NoEntry ELSE m.slot[k]]
           /\ IdleKeys(Trimmed(m)) = IdleKeys(m) \ TrimmedKeys(m)
           /\ Len(Trimmed(m).idle) <= Keep
           /\ Trimmed(m).waiters = m.waiters
           /\ Trimmed(m).status = [s \in Session |-> IF s \in {m.slot[k].ses : k \in TrimmedKeys(m)}
                                                     THEN "closing" ELSE m.status[s]]
  <1> DEFINE n == Trimmed(m)
             out == TrimmedKeys(m)
             gone == {m.slot[k].ses : k \in out}
             w == SubSeq(m.idle, Short(m) + 1, Len(m.idle))
  <1>1. /\ m.slot \in [Key -> Entry] /\ m.idle \in Seq(Key) /\ Unique(m.idle)
        /\ m \in Manager /\ IdleKeys(m) = Elements(m.idle)
        /\ m.status \in [Session -> {"none", "open", "closing"}]
        /\ m.waiters \in SUBSET Borrower /\ m.counted \in SUBSET Session /\ m.listed \in BOOLEAN
    BY SoundParts DEF Sound
  <1>2. /\ n.slot = [k \in Key |-> IF k \in out THEN NoEntry ELSE m.slot[k]]
        /\ n.idle = w /\ n.waiters = m.waiters
        /\ n.status = [s \in Session |-> IF s \in gone THEN "closing" ELSE m.status[s]]
        /\ n.counted = m.counted \cup gone
        /\ n.listed = (m.listed \/ gone # {})
    BY DEF Trimmed, TrimmedKeys
  <1>3. /\ w \in Seq(Key) /\ Unique(w) /\ Elements(w) = Elements(m.idle) \ out
        /\ Len(w) = Len(m.idle) - Short(m)
    BY <1>1, ShortFact, SuffixFact DEF TrimmedKeys
  <1>4. n.slot \in [Key -> Entry]
    <2>1. \A k \in Key : (IF k \in out THEN NoEntry ELSE m.slot[k]) \in Entry
      BY <1>1 DEF Entry
    <2>2. QED
      BY <1>2, <2>1
  <1>5. out \subseteq IdleKeys(m)
    BY ShortFact
  <1>6. gone \in SUBSET Session
    BY <1>5, SoundParts
  <1>7. n.status \in [Session -> {"none", "open", "closing"}]
    BY <1>1, <1>2
  <1>8. n \in Manager
    <2>1. n = [slot |-> n.slot, idle |-> n.idle, waiters |-> n.waiters,
               status |-> n.status, counted |-> n.counted, listed |-> n.listed]
      BY DEF Trimmed
    <2> HIDE DEF n
    <2>2. n.counted \in SUBSET Session /\ n.listed \in BOOLEAN
      BY <1>1, <1>2, <1>6
    <2>3. QED
      BY <1>1, <1>2, <1>3, <1>4, <1>7, <2>1, <2>2 DEF Manager
  <1>9. IdleKeys(n) = IdleKeys(m) \ out
    BY <1>1, <1>2, <1>3 DEF IdleKeys, Elements
  <1>10. IdleFree(n)
    <2>1. \A l \in IdleKeys(n) : l \in IdleKeys(m) /\ l \in Key /\ n.slot[l] = m.slot[l]
      BY <1>2, <1>9, SoundParts
    <2>2. QED
      BY <2>1 DEF Sound, IdleFree
  <1>11. Len(n.idle) <= Keep
    BY <1>2, <1>3, ShortFact
  <1>12. QED
    BY <1>2, <1>3, <1>8, <1>9, <1>10, <1>11 DEF Sound

\* release(discard = TRUE) and the seeded sessions of room() are made of these.
LEMMA DiscardedFact ==
    ASSUME NEW m, Sound(m), NEW k \in Key
    PROVE  /\ Sound(Discarded(m, k))
           /\ Discarded(m, k).slot = [m.slot EXCEPT ![k] = NoEntry]
           /\ IdleKeys(Discarded(m, k)) = IdleKeys(m) \ {k}
           /\ Len(Discarded(m, k).idle) <= Len(m.idle)
           /\ Discarded(m, k).waiters = {}
           /\ Discarded(m, k).status = IF m.slot[k].ses = NoSession THEN m.status
                                       ELSE [m.status EXCEPT ![m.slot[k].ses] = "closing"]
  <1>1. CASE m.slot[k].ses = NoSession
    BY <1>1, DroppedFact DEF Discarded
  <1>2. CASE m.slot[k].ses # NoSession
    <2>1. m.slot[k].ses \in Session
      BY <1>2, SoundParts
    <2>2. Discarded(m, k) = Torn(Dropped(m, k), m.slot[k].ses)
      BY <1>2 DEF Discarded
    <2>3. Sound(Dropped(m, k))
      BY DroppedFact
    <2>4. /\ Sound(Torn(Dropped(m, k), m.slot[k].ses))
          /\ Torn(Dropped(m, k), m.slot[k].ses).slot = Dropped(m, k).slot
          /\ IdleKeys(Torn(Dropped(m, k), m.slot[k].ses)) = IdleKeys(Dropped(m, k))
          /\ Torn(Dropped(m, k), m.slot[k].ses).idle = Dropped(m, k).idle
          /\ Torn(Dropped(m, k), m.slot[k].ses).waiters = Dropped(m, k).waiters
          /\ Torn(Dropped(m, k), m.slot[k].ses).status =
                [Dropped(m, k).status EXCEPT ![m.slot[k].ses] = "closing"]
      BY <2>1, <2>3, TornFact
    <2>5. QED
      BY <1>2, <2>2, <2>4, DroppedFact
  <1>3. QED
    BY <1>1, <1>2

-----------------------------------------------------------------------------
(* Who waits is told: from manager m to manager n                          *)

Tells(m, n) ==
    \/ n.waiters = {}
    \/ /\ n.waiters \subseteq m.waiters
       /\ \A k \in Key : InUse(m, k) => InUse(n, k)

LEMMA TellsTransitive ==
    ASSUME NEW m, NEW n, NEW o, Tells(m, n), Tells(n, o)
    PROVE  Tells(m, o)
  BY DEF Tells

LEMMA MethodsTell ==
    ASSUME NEW m, Sound(m), NEW b \in Borrower, NEW k \in Key
    PROVE  /\ Tells(m, m)
           /\ Tells(m, Dropped(m, k))
           /\ Tells(m, Discarded(m, k))
           /\ Tells(m, Taken(m, b, k))
           /\ Tells(m, Left(m, b, k))
           /\ Tells(m, Trimmed(m))
           /\ \A s \in Session : Tells(m, Torn(m, s)) /\ Tells(m, Offered(m, k, s))
           /\ \A s \in Session \cup {NoSession} : Tells(m, WithSession(m, b, k, s))
  <1>1. /\ m.slot \in [Key -> Entry] /\ IdleKeys(m) \subseteq Key
        /\ \A l \in Key : m.slot[l] \in Entry
    BY SoundParts
  <1>2. Tells(m, m)
    BY DEF Tells
  <1>3. Tells(m, Dropped(m, k)) /\ Tells(m, Discarded(m, k))
    BY DroppedFact, DiscardedFact DEF Tells
  <1>4. Tells(m, Taken(m, b, k))
    <2> DEFINE n == Taken(m, b, k)
    <2>1. /\ n.slot = [m.slot EXCEPT ![k] = [owner |-> b, ses |-> m.slot[k].ses, there |-> TRUE]]
          /\ IdleKeys(n) = IdleKeys(m) \ {k} /\ n.waiters = m.waiters
      BY TakenFact
    <2> HIDE DEF n
    <2>2. \A l \in Key : InUse(m, l) => InUse(n, l)
      BY <1>1, <2>1 DEF InUse
    <2>3. QED
      BY <2>1, <2>2 DEF Tells, n
  <1>5. Tells(m, Left(m, b, k))
    <2> DEFINE n == Left(m, b, k)
    <2>1. /\ n.slot = [m.slot EXCEPT ![k].owner = NoOne] \/ n.slot = m.slot
          /\ IdleKeys(n) = IdleKeys(m) /\ n.waiters = m.waiters
      <3>1. n.slot = [m.slot EXCEPT ![k].owner = NoOne] \/ n.slot = m.slot
        <4>1. /\ m.slot[k].owner = b => n.slot = [m.slot EXCEPT ![k].owner = NoOne]
              /\ m.slot[k].owner # b => n.slot = m.slot
          BY LeftSlot
        <4>2. QED
          BY <4>1
      <3>2. IdleKeys(n) = IdleKeys(m) /\ n.waiters = m.waiters
        BY LeftFact
      <3>3. QED
        BY <3>1, <3>2
    <2> HIDE DEF n
    <2>2. \A l \in Key : n.slot[l].there = m.slot[l].there
      <3>1. \A l \in Key : [m.slot EXCEPT ![k].owner = NoOne][l].there = m.slot[l].there
        BY <1>1, EntryThere
      <3>2. QED
        BY <2>1, <3>1
    <2>3. \A l \in Key : InUse(m, l) => InUse(n, l)
      BY <2>1, <2>2 DEF InUse
    <2>4. QED
      BY <2>1, <2>3 DEF Tells, n
  <1>6. Tells(m, Trimmed(m))
    <2> DEFINE n == Trimmed(m)
    <2>1. /\ n.slot = [l \in Key |-> IF l \in TrimmedKeys(m) THEN NoEntry ELSE m.slot[l]]
          /\ IdleKeys(n) = IdleKeys(m) \ TrimmedKeys(m) /\ n.waiters = m.waiters
      BY TrimmedFact
    <2> HIDE DEF n
    <2>2. TrimmedKeys(m) \subseteq IdleKeys(m)
      BY ShortFact
    <2>3. \A l \in Key : InUse(m, l) => InUse(n, l)
      BY <2>1, <2>2 DEF InUse
    <2>4. QED
      BY <2>1, <2>3 DEF Tells, n
  <1>7. ASSUME NEW s \in Session PROVE Tells(m, Torn(m, s)) /\ Tells(m, Offered(m, k, s))
    <2>1. Tells(m, Torn(m, s))
      BY TornFact DEF Tells, InUse
    <2>2. Offered(m, k, s).waiters = {}
      BY OfferedFact
    <2>3. QED
      BY <2>1, <2>2 DEF Tells
  <1>8. ASSUME NEW s \in Session \cup {NoSession} PROVE Tells(m, WithSession(m, b, k, s))
    <2> DEFINE n == WithSession(m, b, k, s)
    <2>1. /\ n.slot = [m.slot EXCEPT ![k].ses = s] \/ n.slot = m.slot
          /\ IdleKeys(n) = IdleKeys(m) /\ n.waiters = m.waiters
      <3>1. n.slot = [m.slot EXCEPT ![k].ses = s] \/ n.slot = m.slot
        BY WithSessionSlot
      <3>2. IdleKeys(n) = IdleKeys(m) /\ n.waiters = m.waiters
        BY WithSessionFact
      <3>3. QED
        BY <3>1, <3>2
    <2> HIDE DEF n
    <2>2. \A l \in Key : n.slot[l].there = m.slot[l].there
      <3>1. \A l \in Key : [m.slot EXCEPT ![k].ses = s][l].there = m.slot[l].there
        BY <1>1, EntryThere
      <3>2. QED
        BY <2>1, <3>1
    <2>3. \A l \in Key : InUse(m, l) => InUse(n, l)
      BY <2>1, <2>2 DEF InUse
    <2>4. QED
      BY <2>1, <2>3 DEF Tells, n
  <1>9. QED
    BY <1>2, <1>3, <1>4, <1>5, <1>6, <1>7, <1>8

-----------------------------------------------------------------------------
(* A step of borrower b that starts from manager m                         *)

\* Whoever calls a communicator with a session has one.
HasSession(t) == t.pc \in {"checking", "using", "cleaning"} => t.held # NoSession
\* An acquire that can come to a login has paid for it, unless it runs in a task of its own.
Paid(t) == InTask \/ t.paid
HasPaid(t) == t.pc \in {"starting", "waiting", "rooming", "opening"} => Paid(t)

Follows(b, m) ==
    /\ task' \in [Borrower -> Task]
    /\ \A c \in Borrower \ {b} : task'[c] = task[c]
    /\ HasSession(task'[b]) /\ HasPaid(task'[b])
    /\ Sound(mgr')
    /\ Len(m.idle) <= Keep => Len(mgr'.idle) <= Keep
    /\ Tells(m, mgr')

\* b waits for its key, which is in use.
Waits(b, m) ==
    /\ InUse(m, KeyOf[b])
    /\ mgr' = [m EXCEPT !.waiters = @ \cup {b}]
    /\ \E t \in Task : t.pc = "waiting" /\ Paid(t) /\ Put(b, t)

LEMMA FollowsLater ==
    ASSUME NEW b \in Borrower, NEW m, Sound(m), NEW n, Tells(m, n), Len(n.idle) <= Len(m.idle), Sound(n),
           Follows(b, n)
    PROVE  Follows(b, m)
  <1>1. Tells(m, mgr')
    BY TellsTransitive DEF Follows
  <1>2. Len(n.idle) \in Nat /\ Len(m.idle) \in Nat /\ Len(mgr'.idle) \in Nat
    BY SoundParts DEF Follows
  <1>3. Len(m.idle) <= Keep => Len(mgr'.idle) <= Keep
    BY <1>2 DEF Follows
  <1>4. QED
    BY <1>1, <1>3 DEF Follows

LEMMA TaskParts ==
    ASSUME NEW t \in Task
    PROVE  /\ t.pc \in Acquiring \cup {"idle", "returning", "using", "cleaning"}
           /\ t.held \in Session \cup {NoSession}
           /\ t.fresh \in BOOLEAN /\ t.paid \in BOOLEAN /\ t.left \in 0..Commands
  BY DEF Task

LEMMA NoTaskFact == NoTask \in Task /\ NoTask.pc = "idle" /\ HasSession(NoTask) /\ HasPaid(NoTask)
  BY DEF Task, NoTask, HasSession, HasPaid

LEMMA ActingFact ==
    ASSUME NEW t \in Task, NEW place \in Acquiring \cup {"returning"},
           NEW s \in Session \cup {NoSession}
    PROVE  /\ Acting(t, place, s) \in Task
           /\ Acting(t, place, s).pc = place
           /\ Acting(t, place, s).held = s
           /\ Acting(t, place, s).paid = t.paid
           /\ Acting(t, place, s).fresh = t.fresh
  BY DEF Task, Acting

\* A task on its way back, whatever session it holds.
LEMMA ReturningFact ==
    ASSUME NEW t \in Task, NEW s \in Session \cup {NoSession}
    PROVE  Acting(t, "returning", s) \in Task /\ Acting(t, "returning", s).pc = "returning"
  BY DEF Task, Acting

LEMMA PutFact ==
    ASSUME task \in [Borrower -> Task], NEW b \in Borrower, NEW t \in Task, Put(b, t)
    PROVE  /\ task' \in [Borrower -> Task]
           /\ task'[b] = t
           /\ \A c \in Borrower \ {b} : task'[c] = task[c]
  BY DEF Put

\* b's step leaves a manager that m tells about.
LEMMA PutFollows ==
    ASSUME task \in [Borrower -> Task], NEW b \in Borrower, NEW t \in Task, Put(b, t),
           HasSession(t), HasPaid(t),
           NEW m, Sound(mgr'), Tells(m, mgr'), Len(m.idle) <= Keep => Len(mgr'.idle) <= Keep
    PROVE  Follows(b, m)
  BY PutFact DEF Follows

LEMMA RoomForFollows ==
    ASSUME task \in [Borrower -> Task], NEW b \in Borrower, NEW t \in Task, Paid(t),
           NEW m, Sound(m), RoomFor(b, m, t)
    PROVE  Follows(b, m)
  <1> DEFINE place == IF Trimmed(m).listed THEN "rooming" ELSE "opening"
             u == Acting(t, place, NoSession)
  <1>1. place \in {"rooming", "opening"} /\ place \in Acquiring \cup {"returning"}
    BY DEF Acquiring
  <1>a. mgr' = Trimmed(m) /\ Put(b, u)
    BY DEF RoomFor
  <1>b. NoSession \in Session \cup {NoSession}
    OBVIOUS
  <1> HIDE DEF place
  <1>2. u \in Task /\ u.pc = place /\ u.paid = t.paid
    BY <1>1, <1>b, ActingFact
  <1>3. mgr' = Trimmed(m) /\ Put(b, u)
    BY <1>a
  <1>4. HasSession(u) /\ HasPaid(u)
    BY <1>1, <1>2 DEF HasSession, HasPaid, Paid
  <1> HIDE DEF u
  <1>5. Sound(mgr') /\ Tells(m, mgr') /\ Len(mgr'.idle) <= Keep
    <2>1. \A b1 \in Borrower, k \in Key : Tells(m, Trimmed(m))
      BY MethodsTell
    <2>2. KeyOf[b] \in Key
      OBVIOUS
    <2>3. Tells(m, Trimmed(m))
      BY <2>1, <2>2
    <2>4. Sound(Trimmed(m)) /\ Len(Trimmed(m).idle) <= Keep
      BY TrimmedFact
    <2>5. QED
      BY <1>3, <2>3, <2>4
  <1>6. QED
    BY <1>2, <1>3, <1>4, <1>5, PutFollows

LEMMA EnterFollows ==
    ASSUME task \in [Borrower -> Task], NEW b \in Borrower, NEW t \in Task,
           NEW m, Sound(m), Paid(t) \/ Pooled(m, KeyOf[b]), Enter(b, m, t)
    PROVE  Follows(b, m) \/ Waits(b, m)
  <1> DEFINE k == KeyOf[b]
  <1>1. k \in Key
    OBVIOUS
  <1> HIDE DEF k
  <1>2. CASE InUse(m, k) /\ mgr' = [m EXCEPT !.waiters = @ \cup {b}]
             /\ Put(b, Acting(t, "waiting", NoSession))
    <2> DEFINE u == Acting(t, "waiting", NoSession)
    <2>1. u \in Task /\ u.pc = "waiting" /\ u.paid = t.paid
      BY ActingFact DEF Acquiring
    <2>2. Paid(t)
      BY <1>2 DEF Pooled, InUse, k
    <2>3. Put(b, u)
      BY <1>2
    <2> HIDE DEF u
    <2>4. Paid(u)
      BY <2>1, <2>2 DEF Paid
    <2>5. QED
      BY <1>2, <2>1, <2>3, <2>4 DEF Waits, k
  <1>3. CASE ~m.slot[k].there /\ RoomFor(b, Taken(m, b, k), t)
    <2>1. Paid(t)
      BY <1>3 DEF Pooled, k
    <2>2. Sound(Taken(m, b, k)) /\ Tells(m, Taken(m, b, k)) /\ Len(Taken(m, b, k).idle) <= Len(m.idle)
      BY <1>1, TakenFact, MethodsTell
    <2>3. Follows(b, Taken(m, b, k))
      BY <1>3, <2>1, <2>2, RoomForFollows
    <2>4. QED
      BY <2>2, <2>3, FollowsLater
  <1>4. CASE Pooled(m, k) /\ mgr' = Taken(m, b, k) /\ Put(b, Acting(t, "checking", m.slot[k].ses))
    <2> DEFINE u == Acting(t, "checking", m.slot[k].ses)
    <2>1. m.slot[k].ses \in Session /\ m.slot[k].ses \in Session \cup {NoSession}
      BY <1>1, <1>4, SoundParts DEF Pooled
    <2>2. u \in Task /\ u.pc = "checking" /\ u.held = m.slot[k].ses
      <3>1. PICK s \in Session \cup {NoSession} : s = m.slot[k].ses
        BY <2>1
      <3>2. u = Acting(t, "checking", s)
        BY <3>1
      <3>3. "checking" \in Acquiring \cup {"returning"}
        BY DEF Acquiring
      <3> HIDE DEF u
      <3>4. QED
        BY <3>1, <3>2, <3>3, ActingFact
    <2>3. Put(b, u)
      BY <1>4
    <2> HIDE DEF u
    <2>4. HasSession(u) /\ HasPaid(u)
      BY <2>1, <2>2 DEF HasSession, HasPaid, NoSession
    <2>5. Sound(Taken(m, b, k)) /\ Tells(m, Taken(m, b, k)) /\ Len(Taken(m, b, k).idle) <= Len(m.idle)
      BY <1>1, TakenFact, MethodsTell
    <2>6. Len(m.idle) \in Nat /\ Len(Taken(m, b, k).idle) \in Nat
      BY <2>5, SoundParts
    <2>7. QED
      BY <1>4, <2>2, <2>3, <2>4, <2>5, <2>6, PutFollows
  <1>5. QED
    BY <1>2, <1>3, <1>4 DEF Enter, k

LEMMA RaisedFollows ==
    ASSUME task \in [Borrower -> Task], NEW b \in Borrower, NEW m, Sound(m), Raised(b, m)
    PROVE  Follows(b, m)
  <1>1. Put(b, NoTask) /\ (mgr' = m \/ mgr' = Discarded(m, KeyOf[b]))
    BY DEF Raised
  <1>2. KeyOf[b] \in Key
    OBVIOUS
  <1>3. Sound(mgr') /\ Tells(m, mgr') /\ Len(mgr'.idle) <= Len(m.idle)
    <2>1. Len(m.idle) <= Len(m.idle)
      BY SoundParts
    <2>2. Tells(m, m) /\ Tells(m, Discarded(m, KeyOf[b]))
      BY <1>2, MethodsTell
    <2>3. Sound(Discarded(m, KeyOf[b])) /\ Len(Discarded(m, KeyOf[b]).idle) <= Len(m.idle)
      BY <1>2, DiscardedFact
    <2>4. QED
      BY <1>1, <2>1, <2>2, <2>3
  <1>4. Len(m.idle) \in Nat /\ Len(mgr'.idle) \in Nat
    BY <1>3, SoundParts
  <1>5. QED
    BY <1>1, <1>3, <1>4, NoTaskFact, PutFollows

LEMMA UsingFollows ==
    ASSUME task \in [Borrower -> Task], NEW b \in Borrower, NEW s \in Session,
           NEW m, Sound(m), Using(b, s), mgr' = m
    PROVE  Follows(b, m)
  <1> DEFINE u == [NoTask EXCEPT !.pc = "using", !.held = s, !.left = task[b].left]
  <1>1. task[b].left \in 0..Commands
    BY TaskParts
  <1>2. u \in Task /\ u.pc = "using" /\ u.held = s
    BY <1>1 DEF Task, NoTask
  <1>3. Put(b, u)
    BY DEF Using
  <1> HIDE DEF u
  <1>4. HasSession(u) /\ HasPaid(u)
    BY <1>2 DEF HasSession, HasPaid, NoSession
  <1>5. Tells(m, m)
    BY DEF Tells
  <1>6. QED
    BY <1>2, <1>3, <1>4, <1>5, PutFollows

LEMMA EndedFollows ==
    ASSUME task \in [Borrower -> Task], NEW b \in Borrower, NEW s \in Session \cup {NoSession},
           NEW m, Sound(m), Ended(b, m, s)
    PROVE  Follows(b, m)
  <1>1. CASE mgr' = m /\ Put(b, Acting(task[b], "returning", s))
    <2> DEFINE u == Acting(task[b], "returning", s)
    <2>1. PICK t \in Task : t = task[b]
      OBVIOUS
    <2>2. u \in Task /\ u.pc = "returning"
      <3>1. u = Acting(t, "returning", s)
        BY <2>1
      <3>2. Acting(t, "returning", s) \in Task /\ Acting(t, "returning", s).pc = "returning"
        BY ReturningFact
      <3> HIDE DEF u
      <3>3. QED
        BY <3>1, <3>2
    <2>3. Put(b, u)
      BY <1>1
    <2> HIDE DEF u
    <2>4. HasSession(u) /\ HasPaid(u)
      BY <2>2 DEF HasSession, HasPaid
    <2>5. Tells(m, m)
      BY DEF Tells
    <2>6. QED
      BY <1>1, <2>2, <2>3, <2>4, <2>5, PutFollows
  <1>2. CASE s # NoSession /\ mgr' = m /\ Using(b, s)
    BY <1>2, UsingFollows
  <1>3. CASE Raised(b, m)
    BY <1>3, RaisedFollows
  <1>4. QED
    BY <1>1, <1>2, <1>3 DEF Ended

LEMMA CallFollows ==
    ASSUME task \in [Borrower -> Task], NEW b \in Borrower, NEW t \in Task,
           NEW m, Sound(m), Paid(t) \/ Pooled(m, KeyOf[b]), Call(b, m, t)
    PROVE  Follows(b, m) \/ Waits(b, m)
  <1>1. CASE InTask /\ mgr' = m /\ Put(b, Acting(t, "starting", NoSession))
    <2> DEFINE u == Acting(t, "starting", NoSession)
    <2>1. u \in Task /\ u.pc = "starting" /\ u.paid = t.paid
      <3>1. "starting" \in Acquiring \cup {"returning"} /\ NoSession \in Session \cup {NoSession}
        BY DEF Acquiring
      <3>2. QED
        BY <3>1, ActingFact
    <2>2. Put(b, u)
      BY <1>1
    <2> HIDE DEF u
    <2>3. HasSession(u) /\ HasPaid(u)
      BY <1>1, <2>1 DEF HasSession, HasPaid, Paid
    <2>4. Tells(m, m)
      BY DEF Tells
    <2>5. QED
      BY <1>1, <2>1, <2>2, <2>3, <2>4, PutFollows
  <1>2. CASE Enter(b, m, t)
    BY <1>2, EnterFollows
  <1>3. QED
    BY <1>1, <1>2 DEF Call

LEMMA ReleaseFollows ==
    ASSUME task \in [Borrower -> Task], NEW b \in Borrower, NEW discard, NEW m, Sound(m),
           Release(b, m, discard)
    PROVE  Follows(b, m)
  <1> DEFINE k == KeyOf[b]
             s == m.slot[k].ses
  <1>1. k \in Key
    OBVIOUS
  <1> HIDE DEF k
  <1>2. CASE mgr' = Discarded(m, k) /\ Put(b, NoTask)
    <2>1. /\ Sound(Discarded(m, k)) /\ Tells(m, Discarded(m, k))
          /\ Len(Discarded(m, k).idle) <= Len(m.idle)
      BY <1>1, DiscardedFact, MethodsTell
    <2>2. Len(m.idle) \in Nat /\ Len(Discarded(m, k).idle) \in Nat
      BY <2>1, SoundParts
    <2>3. QED
      BY <1>2, <2>1, <2>2, NoTaskFact, PutFollows
  <1>3. CASE /\ s # NoSession /\ mgr' = m
             /\ Put(b, [NoTask EXCEPT !.pc = "cleaning", !.held = s])
    <2> DEFINE u == [NoTask EXCEPT !.pc = "cleaning", !.held = s]
    <2>1. s \in Session
      BY <1>1, <1>3, SoundParts
    <2>2. Put(b, u)
      BY <1>3
    <2> HIDE DEF s
    <2>3. u \in Task /\ u.pc = "cleaning" /\ u.held = s
      <3>1. 0 \in 0..Commands
        OBVIOUS
      <3>2. QED
        BY <2>1, <3>1 DEF Task, NoTask
    <2> HIDE DEF u
    <2>4. HasSession(u) /\ HasPaid(u)
      BY <1>3, <2>3 DEF HasSession, HasPaid
    <2>5. Tells(m, m)
      BY DEF Tells
    <2>6. QED
      BY <1>3, <2>2, <2>3, <2>4, <2>5, PutFollows
  <1>4. QED
    BY <1>2, <1>3 DEF Release, k, s

-----------------------------------------------------------------------------
(* The invariant, wherever acquire runs                                    *)

PaidInv == \A b \in Borrower : HasPaid(task[b])

GInv ==
    /\ TypeOK /\ Sound(mgr)
    /\ \A b \in Borrower : HasSession(task[b])
    /\ KeptFits /\ WaitsForUse /\ PaidInv

LEMMA GInvParts ==
    ASSUME GInv, NEW b \in Borrower
    PROVE  /\ task \in [Borrower -> Task] /\ task[b] \in Task
           /\ mgr \in Manager /\ Sound(mgr) /\ HasSession(task[b])
           /\ KeyOf[b] \in Key
           /\ task[b].pc \in {"checking", "using", "cleaning"} => task[b].held \in Session
           /\ late \subseteq Session
  BY TaskParts DEF GInv, TypeOK, HasSession

LEMMA GaveUpWaiting ==
    ASSUME NEW m, Sound(m), NEW b \in Borrower
    PROVE  LET n == [m EXCEPT !.waiters = @ \ {b}]
           IN  /\ Sound(n) /\ Tells(m, n) /\ b \notin n.waiters
               /\ n.idle = m.idle /\ n.slot = m.slot
               /\ n.status = m.status /\ IdleKeys(n) = IdleKeys(m)
  <1> DEFINE n == [m EXCEPT !.waiters = m.waiters \ {b}]
  <1>1. m.waiters \ {b} \in SUBSET Borrower
    BY SoundParts
  <1>2. /\ Sound(n) /\ IdleKeys(n) = IdleKeys(m) /\ n.slot = m.slot
        /\ n.idle = m.idle /\ n.waiters = m.waiters \ {b} /\ n.status = m.status
    BY <1>1, WaitersFact
  <1>3. Tells(m, n)
    BY <1>2 DEF Tells, InUse
  <1>4. QED
    BY <1>2, <1>3

\* The session goes, and the entry is empty or gone.
LEMMA GoneFact ==
    ASSUME NEW m, Sound(m), NEW b \in Borrower, NEW k \in Key, NEW s \in Session
    PROVE  /\ Sound(WithSession(Torn(m, s), b, k, NoSession))
           /\ Tells(m, WithSession(Torn(m, s), b, k, NoSession))
           /\ WithSession(Torn(m, s), b, k, NoSession).idle = m.idle
           /\ Sound(Dropped(WithSession(Torn(m, s), b, k, NoSession), k))
           /\ Tells(m, Dropped(WithSession(Torn(m, s), b, k, NoSession), k))
           /\ Len(Dropped(WithSession(Torn(m, s), b, k, NoSession), k).idle) <= Len(m.idle)
           /\ Sound(Torn(Dropped(m, k), s))
           /\ Tells(m, Torn(Dropped(m, k), s))
           /\ Len(Torn(Dropped(m, k), s).idle) <= Len(m.idle)
  <1> DEFINE n == Torn(m, s)
             o == WithSession(n, b, k, NoSession)
             d == Dropped(m, k)
  <1>1. Sound(n) /\ Tells(m, n) /\ n.idle = m.idle
    BY TornFact, MethodsTell
  <1>2. NoSession \in Session \cup {NoSession}
    OBVIOUS
  <1> HIDE DEF n
  <1>3. Sound(o) /\ Tells(n, o) /\ o.idle = n.idle
    <2>1. Sound(o) /\ o.idle = n.idle
      <3>1. PICK t \in Session \cup {NoSession} : t = NoSession
        BY <1>2
      <3>2. o = WithSession(n, b, k, t)
        BY <3>1
      <3> HIDE DEF o
      <3>3. QED
        BY <1>1, <3>1, <3>2, WithSessionFact
    <2>2. \A t \in Session \cup {NoSession} : Tells(n, WithSession(n, b, k, t))
      BY <1>1, MethodsTell
    <2>3. QED
      BY <1>2, <2>1, <2>2
  <1> HIDE DEF o
  <1>4. Sound(Dropped(o, k)) /\ Tells(o, Dropped(o, k)) /\ Len(Dropped(o, k).idle) <= Len(o.idle)
    BY <1>3, DroppedFact, MethodsTell
  <1>5. Tells(m, o) /\ Tells(m, Dropped(o, k))
    BY <1>1, <1>3, <1>4, TellsTransitive
  <1>6. Sound(d) /\ Tells(m, d) /\ Len(d.idle) <= Len(m.idle)
    BY DroppedFact, MethodsTell
  <1> HIDE DEF d
  <1>7. Sound(Torn(d, s)) /\ Tells(d, Torn(d, s)) /\ Torn(d, s).idle = d.idle
    BY <1>6, TornFact, MethodsTell
  <1>8. Tells(m, Torn(d, s))
    BY <1>6, <1>7, TellsTransitive
  <1>9. QED
    BY <1>1, <1>3, <1>4, <1>5, <1>6, <1>7, <1>8 DEF n, o, d

LEMMA ResumeFollows ==
    ASSUME GInv, NEW b \in Borrower, Resume(b)
    PROVE  Follows(b, mgr) \/ Waits(b, mgr)
  <1>1. /\ task \in [Borrower -> Task] /\ task[b] \in Task /\ Sound(mgr)
        /\ task[b].held \in Session \cup {NoSession}
    BY GInvParts, TaskParts
  <1>2. CASE task[b].pc \in {"starting", "waiting"} /\ Enter(b, mgr, task[b])
    <2>1. Paid(task[b]) \/ Pooled(mgr, KeyOf[b])
      BY <1>2 DEF GInv, PaidInv, HasPaid
    <2>2. QED
      BY <1>1, <1>2, <2>1, EnterFollows
  <1>3. CASE task[b].held # NoSession /\ Using(b, task[b].held) /\ mgr' = mgr
    <2>1. task[b].held \in Session
      BY <1>1, <1>3
    <2>2. QED
      BY <1>1, <1>3, <2>1, UsingFollows
  <1>4. CASE Raised(b, mgr)
    BY <1>1, <1>4, RaisedFollows
  <1>5. QED
    BY <1>2, <1>3, <1>4 DEF Resume, Returned

LEMMA AcquireFollows ==
    ASSUME GInv, NEW b \in Borrower,
           \/ Vouched(b) \/ NotVouched(b, TRUE) \/ NotVouched(b, FALSE) \/ RoomJoined(b)
           \/ Opened(b) \/ OpenFails(b)
    PROVE  Follows(b, mgr)
  <1> DEFINE k == KeyOf[b]
  <1>1. /\ task \in [Borrower -> Task] /\ task[b] \in Task /\ Sound(mgr) /\ k \in Key
        /\ task[b].pc = "checking" => task[b].held \in Session
    BY GInvParts
  <1> HIDE DEF k
  <1>2. NoSession \in Session \cup {NoSession}
    OBVIOUS
  <1>3. CASE Vouched(b)
    BY <1>1, <1>3, EndedFollows DEF Vouched
  <1>4. ASSUME NEW over, NotVouched(b, over) PROVE Follows(b, mgr)
    <2> DEFINE m == WithSession(Torn(mgr, task[b].held), b, k, NoSession)
    <2>1. task[b].held \in Session
      BY <1>1, <1>4 DEF NotVouched
    <2>2. /\ Sound(m) /\ Tells(mgr, m) /\ m.idle = mgr.idle
          /\ Sound(Dropped(m, k)) /\ Tells(mgr, Dropped(m, k))
          /\ Len(Dropped(m, k).idle) <= Len(mgr.idle)
      BY <1>1, <2>1, GoneFact
    <2>3. RoomFor(b, m, [task[b] EXCEPT !.paid = TRUE]) \/ Ended(b, Dropped(m, k), NoSession)
      BY <1>4 DEF NotVouched, k
    <2> HIDE DEF m
    <2>4. CASE RoomFor(b, m, [task[b] EXCEPT !.paid = TRUE])
      <3>1. /\ [task[b] EXCEPT !.paid = TRUE] \in Task
            /\ Paid([task[b] EXCEPT !.paid = TRUE])
        BY <1>1 DEF Task, Paid
      <3>2. Follows(b, m)
        BY <1>1, <2>2, <2>4, <3>1, RoomForFollows
      <3>3. Len(m.idle) <= Len(mgr.idle)
        BY <1>1, <2>2, SoundParts
      <3>4. QED
        BY <1>1, <2>2, <3>2, <3>3, FollowsLater
    <2>5. CASE Ended(b, Dropped(m, k), NoSession)
      <3>1. Follows(b, Dropped(m, k))
        BY <1>1, <1>2, <2>2, <2>5, EndedFollows
      <3>2. QED
        BY <1>1, <2>2, <3>1, FollowsLater
    <2>6. QED
      BY <2>3, <2>4, <2>5
  <1>5. CASE RoomJoined(b)
    <2> DEFINE u == Acting(task[b], "opening", NoSession)
    <2>1. task[b].pc = "rooming" /\ mgr' = mgr /\ Put(b, u)
      BY <1>5 DEF RoomJoined
    <2>2. Paid(task[b])
      BY <2>1 DEF GInv, PaidInv, HasPaid
    <2>3. u \in Task /\ u.pc = "opening" /\ u.paid = task[b].paid
      <3>1. PICK t \in Task : t = task[b]
        BY <1>1
      <3>2. "opening" \in Acquiring \cup {"returning"}
        BY DEF Acquiring
      <3>3. u = Acting(t, "opening", NoSession)
        BY <3>1
      <3> HIDE DEF u
      <3>4. QED
        BY <1>2, <3>1, <3>2, <3>3, ActingFact
    <2> HIDE DEF u
    <2>4. HasSession(u) /\ HasPaid(u)
      BY <2>2, <2>3 DEF HasSession, HasPaid, Paid
    <2>5. Tells(mgr, mgr)
      BY DEF Tells
    <2>6. QED
      BY <1>1, <2>1, <2>3, <2>4, <2>5, PutFollows
  <1>6. CASE Opened(b)
    <2> DEFINE n == [mgr EXCEPT !.status[NewSession] = "open"]
               o == WithSession(n, b, k, NewSession)
    <2>1. NewSession \in Session
      BY <1>6 DEF Opened, NewSession
    <2>2. Ended(b, o, NewSession)
      BY <1>6 DEF Opened, k
    <2>3. /\ Sound(n) /\ IdleKeys(n) = IdleKeys(mgr) /\ n.slot = mgr.slot
          /\ n.idle = mgr.idle /\ n.waiters = mgr.waiters
      BY <1>1, <2>1, OpenedFact
    <2> HIDE DEF n
    <2>4. Tells(mgr, n)
      BY <2>3 DEF Tells, InUse
    <2>5. NewSession \in Session \cup {NoSession}
      BY <2>1
    <2>6. Sound(o) /\ o.idle = n.idle
      BY <1>1, <2>3, <2>5, WithSessionFact
    <2>7. Tells(n, o)
      BY <1>1, <2>3, <2>5, MethodsTell
    <2> HIDE DEF o
    <2>8. Tells(mgr, o)
      BY <2>4, <2>7, TellsTransitive
    <2>9. Follows(b, o)
      BY <1>1, <2>2, <2>5, <2>6, EndedFollows
    <2>10. Len(o.idle) <= Len(mgr.idle)
      BY <1>1, <2>3, <2>6, SoundParts
    <2>11. QED
      BY <1>1, <2>6, <2>8, <2>9, <2>10, FollowsLater
  <1>7. CASE OpenFails(b)
    <2>1. Sound(Dropped(mgr, k)) /\ Tells(mgr, Dropped(mgr, k)) /\ Len(Dropped(mgr, k).idle) <= Len(mgr.idle)
      BY <1>1, DroppedFact, MethodsTell
    <2>2. Follows(b, Dropped(mgr, k))
      BY <1>1, <1>2, <1>7, <2>1, EndedFollows DEF OpenFails, k
    <2>3. QED
      BY <1>1, <2>1, <2>2, FollowsLater
  <1>8. QED
    BY <1>3, <1>4, <1>5, <1>6, <1>7

LEMMA AbandonFollows ==
    ASSUME GInv, NEW b \in Borrower, Abandon(b)
    PROVE  Follows(b, mgr) /\ b \notin mgr'.waiters
  <1> DEFINE k == KeyOf[b]
             m == [mgr EXCEPT !.waiters = @ \ {b}]
  <1>1. task \in [Borrower -> Task] /\ Sound(mgr) /\ k \in Key
    BY GInvParts
  <1>2. NoSession \in Session \cup {NoSession}
    OBVIOUS
  <1>3. \/ Ended(b, m, NoSession) \/ Ended(b, Left(m, b, k), NoSession)
        \/ Ended(b, Dropped(m, k), NoSession)
    BY DEF Abandon
  <1> HIDE DEF k
  <1>4. Sound(m) /\ Tells(mgr, m) /\ m.idle = mgr.idle /\ b \notin m.waiters
    BY <1>1, GaveUpWaiting
  <1> HIDE DEF m
  <1>5. Len(m.idle) <= Len(mgr.idle)
    BY <1>1, <1>4, SoundParts
  <1>6. Follows(b, m)
    <2>1. CASE Ended(b, m, NoSession)
      BY <1>1, <1>2, <1>4, <2>1, EndedFollows
    <2>2. CASE Ended(b, Left(m, b, k), NoSession)
      <3>1. Sound(Left(m, b, k)) /\ Tells(m, Left(m, b, k)) /\ Left(m, b, k).idle = m.idle
        BY <1>1, <1>4, LeftFact, MethodsTell
      <3>2. Len(Left(m, b, k).idle) <= Len(m.idle)
        BY <1>4, <3>1, SoundParts
      <3>3. Follows(b, Left(m, b, k))
        BY <1>1, <1>2, <2>2, <3>1, EndedFollows
      <3>4. QED
        BY <1>4, <3>1, <3>2, <3>3, FollowsLater
    <2>3. CASE Ended(b, Dropped(m, k), NoSession)
      <3>1. Sound(Dropped(m, k)) /\ Tells(m, Dropped(m, k)) /\ Len(Dropped(m, k).idle) <= Len(m.idle)
        BY <1>1, <1>4, DroppedFact, MethodsTell
      <3>2. Follows(b, Dropped(m, k))
        BY <1>1, <1>2, <2>3, <3>1, EndedFollows
      <3>3. QED
        BY <1>4, <3>1, <3>2, FollowsLater
    <2>4. QED
      BY <1>3, <2>1, <2>2, <2>3
  <1>7. b \notin mgr'.waiters
    BY <1>4, <1>6 DEF Follows, Tells
  <1>8. QED
    BY <1>1, <1>4, <1>5, <1>6, <1>7, FollowsLater

LEMMA UseFollows ==
    ASSUME GInv, NEW b \in Borrower,
           \/ CommandDone(b) \/ InDoubt(b, TRUE) \/ InDoubt(b, FALSE)
           \/ Fresh(b, TRUE) \/ Fresh(b, FALSE)
    PROVE  Follows(b, mgr) \/ Waits(b, mgr)
  <1> DEFINE k == KeyOf[b]
  <1>1. task \in [Borrower -> Task] /\ task[b] \in Task /\ Sound(mgr) /\ k \in Key
    BY GInvParts
  <1> HIDE DEF k
  <1>2. CASE CommandDone(b)
    <2>1. CASE Release(b, mgr, FALSE)
      BY <1>1, <2>1, ReleaseFollows
    <2>2. CASE /\ task[b].pc = "using" /\ task[b].left > 1
               /\ Put(b, [task[b] EXCEPT !.left = @ - 1]) /\ mgr' = mgr
      <3> DEFINE u == [task[b] EXCEPT !.left = task[b].left - 1]
      <3>1. task[b].left - 1 \in 0..Commands
        BY <1>1, <2>2, TaskParts
      <3>2. u \in Task /\ u.pc = "using" /\ u.held = task[b].held
        BY <1>1, <2>2, <3>1 DEF Task
      <3>3. Put(b, u)
        BY <2>2
      <3> HIDE DEF u
      <3>4. HasSession(u) /\ HasPaid(u)
        BY <2>2, <3>2 DEF GInv, HasSession, HasPaid
      <3>5. Tells(mgr, mgr)
        BY DEF Tells
      <3>6. QED
        BY <1>1, <2>2, <3>2, <3>3, <3>4, <3>5, PutFollows
    <2>3. QED
      BY <1>2, <2>1, <2>2 DEF CommandDone
  <1>3. CASE InDoubt(b, TRUE) \/ InDoubt(b, FALSE)
    BY <1>1, <1>3, ReleaseFollows DEF InDoubt
  <1>4. ASSUME NEW over, Fresh(b, over) PROVE Follows(b, mgr)
    <2> DEFINE m == Discarded(mgr, k)
               t == [task[b] EXCEPT !.fresh = TRUE, !.paid = TRUE, !.left = task[b].left - 1]
    <2>1. Release(b, m, TRUE) \/ Call(b, m, t)
      BY <1>4 DEF Fresh, k
    <2>2. task[b].left > 1
      BY <1>4 DEF Fresh
    <2>3. task[b].left - 1 \in 0..Commands
      BY <1>1, <2>2, TaskParts
    <2>4. t \in Task /\ Paid(t)
      BY <1>1, <2>3 DEF Task, Paid
    <2> HIDE DEF t
    <2>5. /\ Sound(m) /\ Tells(mgr, m) /\ Len(m.idle) <= Len(mgr.idle)
          /\ m.slot = [mgr.slot EXCEPT ![k] = NoEntry]
      BY <1>1, DiscardedFact, MethodsTell
    <2> HIDE DEF m
    <2>6. ~InUse(m, k)
      BY <1>1, <2>5, SoundParts DEF InUse, NoEntry
    <2>7. Follows(b, m)
      <3>1. CASE Release(b, m, TRUE)
        BY <1>1, <2>5, <3>1, ReleaseFollows
      <3>2. CASE Call(b, m, t)
        <4>1. Follows(b, m) \/ Waits(b, m)
          BY <1>1, <2>4, <2>5, <3>2, CallFollows
        <4>2. QED
          BY <2>6, <4>1 DEF Waits, k
      <3>3. QED
        BY <2>1, <3>1, <3>2
    <2>8. QED
      BY <1>1, <2>5, <2>7, FollowsLater
  <1>5. QED
    BY <1>2, <1>3, <1>4

LEMMA CleanFollows ==
    ASSUME GInv, NEW b \in Borrower,
           \/ Cleaned(b) \/ NotCleaned(b, TRUE) \/ NotCleaned(b, FALSE) \/ CleaningCancelled(b)
    PROVE  Follows(b, mgr)
  <1> DEFINE k == KeyOf[b]
             s == task[b].held
  <1>1. /\ task \in [Borrower -> Task] /\ Sound(mgr) /\ k \in Key
        /\ task[b].pc = "cleaning" => s \in Session
    BY GInvParts
  <1>2. task[b].pc = "cleaning" /\ Put(b, NoTask)
    BY DEF Cleaned, NotCleaned, CleaningCancelled
  <1>3. \/ mgr' = Trimmed(Offered(mgr, k, s)) \/ mgr' = Torn(Dropped(mgr, k), s)
        \/ mgr' = Left(mgr, b, k)
    BY DEF Cleaned, NotCleaned, CleaningCancelled
  <1>4. s \in Session
    BY <1>1, <1>2
  <1> HIDE DEF k, s
  <1>5. Sound(mgr') /\ Tells(mgr, mgr') /\ (Len(mgr.idle) <= Keep => Len(mgr'.idle) <= Keep)
    <2>1. CASE mgr' = Trimmed(Offered(mgr, k, s))
      <3> DEFINE n == Offered(mgr, k, s)
      <3>1. Sound(n) /\ Tells(mgr, n)
        BY <1>1, <1>4, OfferedFact, MethodsTell
      <3> HIDE DEF n
      <3>2. Sound(Trimmed(n)) /\ Len(Trimmed(n).idle) <= Keep
        BY <3>1, TrimmedFact
      <3>3. Tells(n, Trimmed(n))
        <4>1. b \in Borrower /\ k \in Key
          BY <1>1
        <4>2. QED
          BY <3>1, <4>1, MethodsTell
      <3>4. Tells(mgr, Trimmed(n))
        BY <3>1, <3>3, TellsTransitive
      <3>5. QED
        BY <2>1, <3>2, <3>4 DEF n
    <2>2. CASE mgr' = Torn(Dropped(mgr, k), s)
      <3> DEFINE n == Torn(Dropped(mgr, k), s)
      <3>1. Sound(n) /\ Tells(mgr, n) /\ Len(n.idle) <= Len(mgr.idle)
        BY <1>1, <1>4, GoneFact
      <3> HIDE DEF n
      <3>2. Len(n.idle) \in Nat /\ Len(mgr.idle) \in Nat
        BY <1>1, <3>1, SoundParts
      <3>3. QED
        BY <2>2, <3>1, <3>2 DEF n
    <2>3. CASE mgr' = Left(mgr, b, k)
      <3>1. Sound(Left(mgr, b, k)) /\ Tells(mgr, Left(mgr, b, k)) /\ Left(mgr, b, k).idle = mgr.idle
        BY <1>1, LeftFact, MethodsTell
      <3>2. QED
        BY <2>3, <3>1
    <2>4. QED
      BY <1>3, <2>1, <2>2, <2>3
  <1>6. QED
    BY <1>1, <1>2, <1>5, NoTaskFact, PutFollows

ThreadsTyped == late' \subseteq Session /\ adrift' \in BOOLEAN /\ orphaned' \in BOOLEAN

LEMMA FollowsKeeps ==
    ASSUME GInv, NEW b \in Borrower, Follows(b, mgr), ThreadsTyped,
           task[b].pc # "waiting" \/ b \notin mgr.waiters \/ b \notin mgr'.waiters
    PROVE  GInv'
  <1>1. /\ task' \in [Borrower -> Task] /\ \A c \in Borrower \ {b} : task'[c] = task[c]
        /\ HasSession(task'[b]) /\ HasPaid(task'[b]) /\ Sound(mgr') /\ Tells(mgr, mgr')
    BY DEF Follows
  <1>2. TypeOK'
    BY <1>1 DEF TypeOK, ThreadsTyped, Sound
  <1>3. KeptFits'
    BY DEF Follows, GInv, KeptFits
  <1>4. ASSUME NEW c \in Borrower PROVE HasSession(task'[c])
    BY <1>1 DEF GInv
  <1>5. ASSUME NEW c \in Borrower PROVE HasPaid(task'[c])
    BY <1>1 DEF GInv, PaidInv
  <1>6. ASSUME NEW c \in mgr'.waiters PROVE task'[c].pc = "waiting" /\ InUse(mgr', KeyOf[c])
    <2>1. c \in mgr.waiters /\ \A k \in Key : InUse(mgr, k) => InUse(mgr', k)
      BY <1>1, <1>6 DEF Tells
    <2>2. task[c].pc = "waiting" /\ InUse(mgr, KeyOf[c]) /\ c \in Borrower /\ KeyOf[c] \in Key
      BY <2>1, SoundParts DEF GInv, WaitsForUse
    <2>3. c # b
      BY <1>6, <2>1, <2>2
    <2>4. QED
      BY <1>1, <2>1, <2>2, <2>3
  <1>7. WaitsForUse'
    BY <1>6 DEF WaitsForUse, InUse
  <1>8. PaidInv'
    BY <1>5 DEF PaidInv, HasPaid, Paid
  <1>9. QED
    BY <1>1, <1>2, <1>3, <1>4, <1>7, <1>8 DEF GInv, Sound, IdleFree, IdleKeys, Unique, HasSession

LEMMA WaitsKeeps ==
    ASSUME GInv, NEW b \in Borrower, Waits(b, mgr), ThreadsTyped
    PROVE  GInv'
  <1>1. PICK t \in Task : t.pc = "waiting" /\ Paid(t) /\ Put(b, t)
    BY DEF Waits
  <1>2. task \in [Borrower -> Task] /\ Sound(mgr) /\ KeyOf[b] \in Key
    BY GInvParts
  <1>3. /\ task' \in [Borrower -> Task] /\ task'[b] = t
        /\ \A c \in Borrower \ {b} : task'[c] = task[c]
    BY <1>1, <1>2, PutFact
  <1>4. mgr.waiters \cup {b} \in SUBSET Borrower
    BY <1>2, SoundParts
  <1>5. mgr' = [mgr EXCEPT !.waiters = mgr.waiters \cup {b}]
    BY DEF Waits
  <1>6. /\ Sound(mgr') /\ IdleKeys(mgr') = IdleKeys(mgr) /\ mgr'.slot = mgr.slot
        /\ mgr'.idle = mgr.idle /\ mgr'.waiters = mgr.waiters \cup {b}
    BY <1>2, <1>4, <1>5, WaitersFact
  <1>7. TypeOK'
    BY <1>3, <1>6 DEF TypeOK, ThreadsTyped, Sound
  <1>8. KeptFits'
    BY <1>6 DEF GInv, KeptFits
  <1>9. ASSUME NEW c \in Borrower PROVE HasSession(task'[c]) /\ HasPaid(task'[c])
    <2>1. CASE c = b
      BY <1>1, <1>3, <2>1 DEF HasSession, HasPaid
    <2>2. CASE c # b
      BY <1>3, <2>2 DEF GInv, PaidInv
    <2>3. QED
      BY <2>1, <2>2
  <1>10. \A k \in Key : InUse(mgr, k) <=> InUse(mgr', k)
    BY <1>6 DEF InUse
  <1>11. ASSUME NEW c \in mgr'.waiters PROVE task'[c].pc = "waiting" /\ InUse(mgr', KeyOf[c])
    <2>1. CASE c = b
      BY <1>1, <1>2, <1>3, <1>10, <2>1 DEF Waits
    <2>2. CASE c # b
      <3>1. task[c].pc = "waiting" /\ InUse(mgr, KeyOf[c]) /\ c \in Borrower /\ KeyOf[c] \in Key
        BY <1>2, <1>6, <1>11, <2>2, SoundParts DEF GInv, WaitsForUse
      <3>2. QED
        BY <1>3, <1>10, <2>2, <3>1
    <2>3. QED
      BY <2>1, <2>2
  <1>12. WaitsForUse'
    BY <1>11 DEF WaitsForUse, InUse
  <1>13. PaidInv'
    BY <1>9 DEF PaidInv, HasPaid, Paid
  <1>14. QED
    BY <1>6, <1>7, <1>8, <1>9, <1>12, <1>13 DEF GInv, Sound, IdleFree, IdleKeys, Unique, HasSession

\* A step beside the borrowers that leaves the tables as they are.
LEMMA BesideKeeps ==
    ASSUME GInv, task' = task, mgr' \in Manager, mgr'.slot = mgr.slot, mgr'.idle = mgr.idle,
           mgr'.waiters = mgr.waiters, ThreadsTyped
    PROVE  GInv'
  <1>1. IdleKeys(mgr') = IdleKeys(mgr)
    BY DEF IdleKeys
  <1>2. Sound(mgr')
    BY <1>1 DEF GInv, Sound, IdleFree
  <1>3. \A k \in Key : (InUse(mgr, k) <=> InUse(mgr', k)) /\ (Pooled(mgr, k) <=> Pooled(mgr', k))
    BY <1>1 DEF InUse, Pooled
  <1>4. \A b \in Borrower : KeyOf[b] \in Key
    OBVIOUS
  <1>5. TypeOK' /\ KeptFits'
    BY DEF GInv, TypeOK, ThreadsTyped, KeptFits
  <1>6. \A b \in mgr'.waiters : task'[b].pc = "waiting" /\ InUse(mgr', KeyOf[b])
    <2>1. \A b \in mgr.waiters : b \in Borrower
      BY SoundParts DEF GInv
    <2>2. QED
      BY <1>3, <1>4, <2>1 DEF GInv, WaitsForUse
  <1>7. WaitsForUse'
    BY <1>6 DEF WaitsForUse, InUse
  <1>8. PaidInv'
    BY DEF GInv, PaidInv, HasPaid, Paid
  <1>9. QED
    BY <1>2, <1>5, <1>7, <1>8 DEF GInv, Sound, IdleFree, IdleKeys, Unique, HasSession

\* The task that a run hands to its attempt's first acquire.
LEMMA BeginTask ==
    ASSUME NEW b \in Borrower
    PROVE  \E t \in Task : /\ t = [NoTask EXCEPT !.left = Commands, !.paid = ~Pooled(mgr, KeyOf[b])]
                           /\ t.paid = ~Pooled(mgr, KeyOf[b]) /\ ~t.fresh
  <1>1. PICK p \in BOOLEAN : p = ~Pooled(mgr, KeyOf[b])
    OBVIOUS
  <1>2. PICK t : t = [NoTask EXCEPT !.left = Commands, !.paid = ~Pooled(mgr, KeyOf[b])]
    OBVIOUS
  <1>3. t = [pc |-> "idle", held |-> NoSession, fresh |-> FALSE, paid |-> p, left |-> Commands]
    <2>1. t = [NoTask EXCEPT !.left = Commands, !.paid = p]
      BY <1>1, <1>2
    <2>2. QED
      BY <2>1 DEF NoTask
  <1>4. Commands \in 0..Commands /\ "idle" \in Acquiring \cup {"idle", "returning", "using", "cleaning"}
    OBVIOUS
  <1>5. NoSession \in Session \cup {NoSession} /\ FALSE \in BOOLEAN
    OBVIOUS
  <1>6. t \in Task /\ t.paid = p
    BY <1>1, <1>3, <1>4, <1>5 DEF Task
  <1>7. ~t.fresh
    BY <1>3
  <1>8. t.paid = ~Pooled(mgr, KeyOf[b])
    BY <1>1, <1>6
  <1>9. t \in Task
    BY <1>6
  <1>10. QED
    BY <1>2, <1>7, <1>8, <1>9, Zenon

LEMMA BeginFollows ==
    ASSUME GInv, NEW b \in Borrower, Begin(b)
    PROVE  Follows(b, mgr) \/ Waits(b, mgr)
  <1>1. task \in [Borrower -> Task] /\ Sound(mgr)
    BY GInvParts
  <1>2. PICK t \in Task : /\ t = [NoTask EXCEPT !.left = Commands, !.paid = ~Pooled(mgr, KeyOf[b])]
                          /\ t.paid = ~Pooled(mgr, KeyOf[b]) /\ ~t.fresh
    BY BeginTask
  <1>3. Call(b, mgr, t)
    BY <1>2 DEF Begin
  <1>4. Paid(t) \/ Pooled(mgr, KeyOf[b])
    BY <1>2, Zenon DEF Paid
  <1>5. QED
    BY <1>1, <1>3, <1>4, CallFollows

LEMMA BeginKeeps ==
    ASSUME GInv, NEW b \in Borrower, Begin(b)
    PROVE  GInv'
  <1>1. task[b].pc = "idle" /\ ThreadsTyped
    BY DEF Begin, ThreadsTyped, threads, GInv, TypeOK
  <1>2. Follows(b, mgr) \/ Waits(b, mgr)
    BY BeginFollows
  <1>3. QED
    BY <1>1, <1>2, FollowsKeeps, WaitsKeeps

LEMMA ThreadsStayTyped ==
    ASSUME GInv, NEW b \in Borrower,
           \/ Resume(b) \/ CallReturns(b) \/ BudgetOver(b) \/ Abandon(b) \/ CleaningCancelled(b)
    PROVE  ThreadsTyped
  <1>1. /\ late \subseteq Session /\ adrift \in BOOLEAN /\ orphaned \in BOOLEAN
        /\ task[b].pc \in {"checking", "using", "cleaning"} => task[b].held \in Session
    BY GInvParts DEF GInv, TypeOK
  <1>2. CASE UNCHANGED threads
    BY <1>1, <1>2 DEF threads, ThreadsTyped
  <1>3. CASE /\ late' \in {late, late \cup {task[b].held}}
             /\ task[b].pc \in {"checking", "using", "cleaning"}
             /\ UNCHANGED <<adrift, orphaned>>
    BY <1>1, <1>3 DEF ThreadsTyped
  <1>4. CASE adrift' = TRUE /\ UNCHANGED <<late, orphaned>>
    BY <1>1, <1>4 DEF ThreadsTyped
  <1>5. CASE Resume(b)
    BY <1>2, <1>5 DEF Resume
  <1>6. CASE CallReturns(b)
    <2>1. CASE Vouched(b) \/ Opened(b) \/ OpenFails(b) \/ CommandDone(b) \/ Cleaned(b)
      BY <1>2, <2>1 DEF Vouched, Opened, OpenFails, CommandDone, Cleaned
    <2>2. CASE NotVouched(b, FALSE) \/ InDoubt(b, FALSE) \/ Fresh(b, FALSE) \/ NotCleaned(b, FALSE)
      BY <1>3, <2>2 DEF NotVouched, InDoubt, Fresh, NotCleaned, CallOver
    <2>3. QED
      BY <1>6, <2>1, <2>2 DEF CallReturns
  <1>7. CASE BudgetOver(b)
    <2>1. CASE RoomJoined(b)
      BY <1>2, <2>1 DEF RoomJoined, threads
    <2>2. CASE NotVouched(b, TRUE) \/ InDoubt(b, TRUE) \/ Fresh(b, TRUE) \/ NotCleaned(b, TRUE)
      BY <1>3, <2>2 DEF NotVouched, InDoubt, Fresh, NotCleaned, CallOver, GiveUp
    <2>3. QED
      BY <1>7, <2>1, <2>2 DEF BudgetOver
  <1>8. CASE Abandon(b)
    BY <1>2, <1>3, <1>4, <1>8 DEF Abandon, GiveUp
  <1>9. CASE CleaningCancelled(b)
    BY <1>3, <1>9 DEF CleaningCancelled, GiveUp
  <1>10. QED
    BY <1>5, <1>6, <1>7, <1>8, <1>9

LEMMA TasksKeep ==
    ASSUME GInv, Tasks
    PROVE  GInv'
  <1>1. PICK b \in Borrower :
            Resume(b) \/ CallReturns(b) \/ BudgetOver(b) \/ Abandon(b) \/ CleaningCancelled(b)
    BY DEF Tasks
  <1>2. ThreadsTyped
    BY <1>1, ThreadsStayTyped
  <1>3. CASE Resume(b)
    <2>1. task[b].pc # "waiting" \/ b \notin mgr.waiters
      BY <1>3 DEF Resume, Returned
    <2>2. Follows(b, mgr) \/ Waits(b, mgr)
      BY <1>3, ResumeFollows
    <2>3. QED
      BY <1>2, <2>1, <2>2, FollowsKeeps, WaitsKeeps
  <1>4. CASE Abandon(b)
    BY <1>2, <1>4, AbandonFollows, FollowsKeeps
  <1>5. CASE CleaningCancelled(b)
    <2>1. Follows(b, mgr)
      BY <1>5, CleanFollows
    <2>2. QED
      BY <1>2, <1>5, <2>1, FollowsKeeps DEF CleaningCancelled
  <1>6. CASE CallReturns(b) \/ BudgetOver(b)
    <2>1. task[b].pc # "waiting"
      BY <1>6 DEF CallReturns, BudgetOver, Vouched, NotVouched, Opened, OpenFails, CommandDone,
                  InDoubt, Fresh, Cleaned, NotCleaned, RoomJoined
    <2>2. Follows(b, mgr) \/ Waits(b, mgr)
      BY <1>6, AcquireFollows, UseFollows, CleanFollows DEF CallReturns, BudgetOver
    <2>3. QED
      BY <1>2, <2>1, <2>2, FollowsKeeps, WaitsKeeps
  <1>7. QED
    BY <1>1, <1>3, <1>4, <1>5, <1>6

LEMMA ThreadsKeep ==
    ASSUME GInv, Threads \/ RunEnd
    PROVE  GInv'
  <1>1. /\ late \subseteq Session /\ adrift \in BOOLEAN /\ orphaned \in BOOLEAN
        /\ mgr \in Manager /\ Sound(mgr)
    BY DEF GInv, TypeOK
  <1>2. CASE LateOpen
    BY <1>1, <1>2, BesideKeeps DEF LateOpen, ThreadsTyped
  <1>3. ASSUME NEW s \in Session, LateReturns(s) PROVE GInv'
    BY <1>1, <1>3, BesideKeeps DEF LateReturns, ThreadsTyped
  <1>4. ASSUME NEW s \in Session, CloseDone(s) PROVE GInv'
    <2>1. mgr' = [mgr EXCEPT !.status = [mgr.status EXCEPT ![s] = "none"], !.counted = mgr.counted \ {s}]
      BY <1>1, <1>4 DEF CloseDone, Manager
    <2>2. /\ [mgr.status EXCEPT ![s] = "none"] \in [Session -> {"none", "open", "closing"}]
          /\ mgr.counted \ {s} \in SUBSET Session
      BY <1>1, SoundParts
    <2>3. mgr' \in Manager /\ mgr'.slot = mgr.slot /\ mgr'.idle = mgr.idle /\ mgr'.waiters = mgr.waiters
      BY <1>1, <2>1, <2>2 DEF Manager
    <2>4. task' = task /\ ThreadsTyped
      BY <1>1, <1>4 DEF CloseDone, ThreadsTyped, threads
    <2>5. QED
      BY <2>3, <2>4, BesideKeeps
  <1>5. CASE RunEnd
    <2>1. mgr' \in Manager /\ mgr'.slot = mgr.slot /\ mgr'.idle = mgr.idle /\ mgr'.waiters = mgr.waiters
      BY <1>1, <1>5 DEF RunEnd, Manager
    <2>2. task' = task /\ ThreadsTyped
      BY <1>1, <1>5 DEF RunEnd, ThreadsTyped, threads
    <2>3. QED
      BY <2>1, <2>2, BesideKeeps
  <1>6. QED
    BY <1>2, <1>3, <1>4, <1>5 DEF Threads

LEMMA EmptyFact ==
    ASSUME NEW m, NEW status \in [Session -> {"none", "open", "closing"}],
           m = [slot |-> [k \in Key |-> NoEntry], idle |-> <<>>, waiters |-> {},
                status |-> status, counted |-> {}, listed |-> FALSE]
    PROVE  /\ Sound(m) /\ m.idle = <<>> /\ m.waiters = {} /\ m.status = status
           /\ m.slot = [k \in Key |-> NoEntry] /\ IdleKeys(m) = {}
  <1>1. [k \in Key |-> NoEntry] \in [Key -> Entry] /\ <<>> \in Seq(Key)
    BY DEF Entry
  <1>2. m \in Manager
    BY <1>1 DEF Manager
  <1>3. IdleKeys(m) = {} /\ Unique(m.idle)
    BY DEF IdleKeys, Unique
  <1>4. QED
    BY <1>2, <1>3 DEF Sound, IdleFree

LEMMA CloseAllKeeps ==
    ASSUME GInv, CloseAll
    PROVE  GInv'
  <1> DEFINE gone == {mgr.slot[k].ses : k \in Key} \ {NoSession}
             status == [s \in Session |-> IF s \in gone THEN "closing" ELSE mgr.status[s]]
  <1>1. Sound(mgr) /\ task \in [Borrower -> Task] /\ \A b \in Borrower : task[b].pc = "idle"
    BY DEF GInv, TypeOK, CloseAll, NobodyBorrows
  <1>2. status \in [Session -> {"none", "open", "closing"}]
    BY <1>1, SoundParts
  <1>3. mgr' = [slot |-> [k \in Key |-> NoEntry], idle |-> <<>>, waiters |-> {},
                status |-> status, counted |-> {}, listed |-> FALSE]
    BY DEF CloseAll
  <1> HIDE DEF status
  <1>4. Sound(mgr') /\ mgr'.idle = <<>> /\ mgr'.waiters = {}
    BY <1>2, <1>3, EmptyFact
  <1>5. task' = task /\ ThreadsTyped
    BY DEF CloseAll, ThreadsTyped, threads, GInv, TypeOK
  <1>6. TypeOK' /\ KeptFits' /\ WaitsForUse'
    BY <1>1, <1>4, <1>5 DEF TypeOK, ThreadsTyped, Sound, KeptFits, WaitsForUse
  <1>7. \A b \in Borrower : HasSession(task'[b])
    BY <1>1, <1>5 DEF HasSession
  <1>8. PaidInv'
    BY <1>1, <1>5 DEF PaidInv, HasPaid, Paid
  <1>9. QED
    BY <1>4, <1>6, <1>7, <1>8 DEF GInv, Sound, IdleFree, IdleKeys, Unique, HasSession

LEMMA GInvInit == Init => GInv
  <1> SUFFICES ASSUME Init PROVE GInv
    OBVIOUS
  <1> DEFINE status == [s \in Session |-> "none"]
  <1>1. status \in [Session -> {"none", "open", "closing"}]
    OBVIOUS
  <1>2. mgr = [slot |-> [k \in Key |-> NoEntry], idle |-> <<>>, waiters |-> {},
               status |-> status, counted |-> {}, listed |-> FALSE]
    BY DEF Init
  <1> HIDE DEF status
  <1>3. Sound(mgr) /\ mgr.idle = <<>> /\ mgr.waiters = {}
    BY <1>1, <1>2, EmptyFact
  <1>4. task \in [Borrower -> Task] /\ \A b \in Borrower : HasSession(task[b]) /\ HasPaid(task[b])
    BY NoTaskFact DEF Init
  <1>5. TypeOK
    BY <1>3, <1>4 DEF TypeOK, Sound, Init
  <1>6. KeptFits /\ WaitsForUse /\ PaidInv
    BY <1>3, <1>4 DEF KeptFits, WaitsForUse, PaidInv
  <1>7. QED
    BY <1>3, <1>4, <1>5, <1>6 DEF GInv

LEMMA GInvStep == GInv /\ [Next]_vars => GInv'
  <1> SUFFICES ASSUME GInv, [Next]_vars PROVE GInv'
    OBVIOUS
  <1>1. CASE Borrows
    BY <1>1, BeginKeeps DEF Borrows
  <1>2. CASE Tasks
    BY <1>2, TasksKeep
  <1>3. CASE Threads \/ RunEnd
    BY <1>3, ThreadsKeep
  <1>4. CASE CloseAll
    BY <1>4, CloseAllKeeps
  <1>5. CASE UNCHANGED vars
    <2>1. mgr' \in Manager /\ task' = task /\ mgr' = mgr /\ ThreadsTyped
      BY <1>5 DEF vars, ThreadsTyped, GInv, TypeOK
    <2>2. QED
      BY <2>1, BesideKeeps
  <1>6. QED
    BY <1>1, <1>2, <1>3, <1>4, <1>5 DEF Next

LEMMA GInvAlways == Spec => []GInv
  <1>1. Init => GInv
    BY GInvInit
  <1>2. GInv /\ [Next]_vars => GInv'
    BY GInvStep
  <1>3. QED
    BY <1>1, <1>2, PTL DEF Spec

\* The manager's tables, the borrowers' tasks and the abandoned calls keep
\* their types, whoever borrows and wherever acquire runs.
THEOREM ManagerTyped == Spec => []TypeOK
  <1>1. GInv => TypeOK
    BY DEF GInv
  <1>2. QED
    BY <1>1, GInvAlways, PTL

\* No wakeup of SessionManager.acquire is lost: whoever waits on the condition
\* without a notification waits for a key somebody has in use.
THEOREM NoWakeupLost == Spec => []WaitsForUse
  <1>1. GInv => WaitsForUse
    BY DEF GInv
  <1>2. QED
    BY <1>1, GInvAlways, PTL

\* Whenever the loop is free, room() has left no more idle sessions than the
\* descriptor limit has room for.
THEOREM KeptWithinLimit == Spec => []KeptFits
  <1>1. GInv => KeptFits
    BY DEF GInv
  <1>2. QED
    BY <1>1, GInvAlways, PTL

\* Where wait_for runs acquire in the caller's task (Python 3.12 on), the gate has
\* counted a login before a communicator opens a connection, with stale sessions, fresh
\* sessions, interrupts and closes in between, in whatever order the loop takes the tasks.
THEOREM EveryLoginCounted == ~InTask => (Spec => []LoginCounted)
  <1> SUFFICES ASSUME ~InTask PROVE Spec => []LoginCounted
    OBVIOUS
  <1>1. GInv => LoginCounted
    BY DEF GInv, PaidInv, HasPaid, Paid, LoginCounted
  <1>2. QED
    BY <1>1, GInvAlways, PTL
=============================================================================
