----------------------- MODULE SessionOwnershipProofs -----------------------
(***************************************************************************)
(* Who owns a session, proved of SessionManager where asyncio.wait_for     *)
(* runs the acquire it bounds in the caller's task (Python 3.12 and later).*)
(* Before that a borrower can be given another's session: the claims below *)
(* are then false.                                                         *)
(***************************************************************************)
EXTENDS SessionManagerProofs

USE ManagerAssumption

-----------------------------------------------------------------------------
(* The sessions of the tables                                              *)

\* The open sessions are those of the entries, one each.
Entries(m) ==
    /\ \A k \in Key : m.slot[k].ses # NoSession => m.status[m.slot[k].ses] = "open"
    /\ \A k, l \in Key : m.slot[k].ses = m.slot[l].ses /\ m.slot[k].ses # NoSession => k = l
    /\ \A s \in Session : m.status[s] = "open" => \E k \in Key : m.slot[k].ses = s

Whole(m) == Sound(m) /\ Entries(m)

\* From m to n some entries lose their sessions, which are closed.
Shrinks(m, n) ==
    /\ \A k \in Key : n.slot[k].ses \in {m.slot[k].ses, NoSession}
    /\ \A k \in Key : m.slot[k].ses # NoSession =>
          n.status[m.slot[k].ses] = IF n.slot[k].ses = NoSession THEN "closing"
                                                                 ELSE m.status[m.slot[k].ses]
    /\ \A s \in Session : n.status[s] \in {m.status[s], "closing"}

LEMMA EntriesShrink ==
    ASSUME NEW m, Whole(m), NEW n, Shrinks(m, n)
    PROVE  Entries(n)
  <1>1. \A k \in Key : m.slot[k].ses \in Session \cup {NoSession}
    BY SoundParts DEF Whole
  <1>2. ASSUME NEW k \in Key, n.slot[k].ses # NoSession PROVE n.status[n.slot[k].ses] = "open"
    <2>1. n.slot[k].ses = m.slot[k].ses /\ n.status[n.slot[k].ses] = m.status[m.slot[k].ses]
      BY <1>2 DEF Shrinks
    <2>2. m.status[m.slot[k].ses] = "open"
      BY <1>2, <2>1 DEF Whole, Entries
    <2>3. QED
      BY <2>1, <2>2
  <1>3. ASSUME NEW k \in Key, NEW l \in Key, n.slot[k].ses = n.slot[l].ses, n.slot[k].ses # NoSession
        PROVE  k = l
    BY <1>3 DEF Whole, Entries, Shrinks
  <1>4. ASSUME NEW s \in Session, n.status[s] = "open" PROVE \E k \in Key : n.slot[k].ses = s
    <2>1. m.status[s] = "open"
      BY <1>4 DEF Shrinks
    <2>2. PICK k \in Key : m.slot[k].ses = s
      BY <2>1 DEF Whole, Entries
    <2>3. s # NoSession
      BY DEF NoSession
    <2>4. n.slot[k].ses = s
      BY <1>4, <2>2, <2>3 DEF Shrinks
    <2>5. QED
      BY <2>4
  <1>5. QED
    BY <1>2, <1>3, <1>4 DEF Entries

\* Nothing happens to the sessions.
LEMMA EntriesSame ==
    ASSUME NEW m, Whole(m), NEW n, \A k \in Key : n.slot[k].ses = m.slot[k].ses,
           n.status = m.status
    PROVE  Entries(n)
  <1>1. Shrinks(m, n)
    <2>1. \A k \in Key : m.slot[k].ses \in Session \cup {NoSession}
      BY SoundParts DEF Whole
    <2>2. \A k \in Key : m.slot[k].ses # NoSession => m.status[m.slot[k].ses] = "open"
      BY DEF Whole, Entries
    <2>3. QED
      BY <2>1, <2>2 DEF Shrinks
  <1>2. QED
    BY <1>1, EntriesShrink

\* From m to n the entries of other keys than k stay, but for idle ones that go.
Frame(m, n, k) ==
    \A l \in Key \ {k} :
        /\ n.slot[l] = m.slot[l] \/ (l \in IdleKeys(m) /\ n.slot[l] = NoEntry)
        /\ l \in IdleKeys(n) => l \in IdleKeys(m)

LEMMA FrameTransitive ==
    ASSUME NEW m, NEW n, NEW o, NEW k, Frame(m, n, k), Frame(n, o, k)
    PROVE  Frame(m, o, k)
  BY DEF Frame

LEMMA TakenWhole ==
    ASSUME NEW m, Sound(m), Entries(m), NEW b \in Borrower, NEW k \in Key
    PROVE  /\ Whole(Taken(m, b, k)) /\ Frame(m, Taken(m, b, k), k)
           /\ Taken(m, b, k).slot[k].owner = b /\ k \notin IdleKeys(Taken(m, b, k))
           /\ Taken(m, b, k).slot[k].ses = m.slot[k].ses
           /\ Taken(m, b, k).slot[k].there
  <1> DEFINE n == Taken(m, b, k)
  <1>1. /\ Sound(n) /\ IdleKeys(n) = IdleKeys(m) \ {k} /\ n.status = m.status
        /\ n.slot = [m.slot EXCEPT ![k] = [owner |-> b, ses |-> m.slot[k].ses, there |-> TRUE]]
    <2>2. /\ n.slot = [m.slot EXCEPT ![k] = [owner |-> b, ses |-> m.slot[k].ses, there |-> TRUE]]
          /\ IdleKeys(n) = IdleKeys(m) \ {k} /\ n.status = m.status
      BY TakenFact
    <2>3. Sound(n)
      BY TakenFact
    <2>4. QED
      BY <2>2, <2>3
  <1> HIDE DEF n
  <1>2. m.slot \in [Key -> Entry]
    BY SoundParts DEF Whole
  <1>3. /\ \A l \in Key : n.slot[l].ses = m.slot[l].ses
        /\ \A l \in Key \ {k} : n.slot[l] = m.slot[l]
        /\ n.slot[k].owner = b /\ n.slot[k].there
    BY <1>1, <1>2
  <1>4. Whole(n) /\ Frame(m, n, k)
    <2>1. Entries(n)
      <3>1. Whole(m)
        BY DEF Whole
      <3>2. QED
        BY <1>1, <1>3, <3>1, EntriesSame
    <2>2. Frame(m, n, k)
      BY <1>1, <1>3 DEF Frame
    <2>3. QED
      BY <1>1, <1>3, <2>1, <2>2 DEF Whole
  <1>5. QED
    BY <1>1, <1>3, <1>4 DEF n

LEMMA LeftWhole ==
    ASSUME NEW m, Whole(m), NEW b \in Borrower, NEW k \in Key, m.slot[k].owner = b
    PROVE  /\ Whole(Left(m, b, k)) /\ Frame(m, Left(m, b, k), k)
           /\ Left(m, b, k).slot[k].owner = NoOne
           /\ k \in IdleKeys(Left(m, b, k)) => k \in IdleKeys(m)
  <1> DEFINE n == Left(m, b, k)
  <1>1. /\ Sound(n) /\ IdleKeys(n) = IdleKeys(m) /\ n.status = m.status
        /\ n.slot = [m.slot EXCEPT ![k].owner = NoOne]
    <2>1. Sound(m)
      BY DEF Whole
    <2>2. Sound(n) /\ IdleKeys(n) = IdleKeys(m) /\ n.status = m.status
      BY <2>1, LeftFact
    <2>3. n.slot = [m.slot EXCEPT ![k].owner = NoOne]
      BY <2>1, LeftSlot
    <2>4. QED
      BY <2>2, <2>3
  <1> HIDE DEF n
  <1>2. m.slot \in [Key -> Entry]
    BY SoundParts DEF Whole
  <1>3. /\ \A l \in Key : n.slot[l].ses = m.slot[l].ses
        /\ n.slot[k].owner = NoOne
    BY <1>1, <1>2, EntryThere
  <1>4. \A l \in Key \ {k} : n.slot[l] = m.slot[l]
    BY <1>1, <1>2
  <1>5. Whole(n) /\ Frame(m, n, k)
    <2>1. Entries(n)
      BY <1>1, <1>3, <1>4, EntriesSame
    <2>2. Frame(m, n, k)
      BY <1>1, <1>3, <1>4 DEF Frame
    <2>3. QED
      BY <1>1, <1>3, <1>4, <2>1, <2>2 DEF Whole
  <1>6. QED
    BY <1>1, <1>3, <1>5 DEF n

LEMMA WaitersWhole ==
    ASSUME NEW m, Whole(m), NEW n, Sound(n), n.slot = m.slot, n.status = m.status,
           IdleKeys(n) = IdleKeys(m), NEW k
    PROVE  Whole(n) /\ Frame(m, n, k)
  <1>1. Entries(n)
    BY EntriesSame
  <1>2. Frame(m, n, k)
    BY DEF Frame
  <1>3. QED
    BY <1>1, <1>2 DEF Whole

LEMMA OfferedWhole ==
    ASSUME NEW m, Whole(m), NEW k \in Key, NEW s \in Session, m.slot[k].ses = s
    PROVE  /\ Whole(Offered(m, k, s)) /\ Frame(m, Offered(m, k, s), k)
           /\ Offered(m, k, s).slot[k].owner = NoOne
           /\ Offered(m, k, s).slot[k].ses = s
  <1> DEFINE n == Offered(m, k, s)
  <1>1. m.slot \in [Key -> Entry] /\ m.slot[k].there
    <2>1. m.slot[k].ses # NoSession
      BY DEF NoSession
    <2>2. QED
      BY <2>1, SoundParts DEF Whole, NoEntry
  <1>2. /\ Sound(n) /\ n.status = m.status
    BY OfferedFact DEF Whole
  <1>3. n.slot = [m.slot EXCEPT ![k].owner = NoOne]
    BY <1>1, OfferedFact DEF Whole
  <1>4. IdleKeys(n) = IdleKeys(m) \cup {k}
    BY <1>1, OfferedFact DEF Whole
  <1> HIDE DEF n
  <1>5. /\ \A l \in Key : n.slot[l].ses = m.slot[l].ses
        /\ n.slot[k].owner = NoOne
    BY <1>1, <1>3, EntryThere
  <1>6. \A l \in Key \ {k} : n.slot[l] = m.slot[l]
    BY <1>1, <1>3
  <1>7. Whole(n) /\ Frame(m, n, k)
    <2>1. Entries(n)
      BY <1>2, <1>4, <1>5, <1>6, EntriesSame
    <2>2. Frame(m, n, k)
      BY <1>2, <1>4, <1>5, <1>6 DEF Frame
    <2>3. QED
      BY <1>2, <1>4, <1>5, <1>6, <2>1, <2>2 DEF Whole
  <1>8. QED
    BY <1>5, <1>7 DEF n

LEMMA DroppedWhole ==
    ASSUME NEW m, Whole(m), NEW k \in Key, m.slot[k].ses = NoSession
    PROVE  /\ Whole(Dropped(m, k)) /\ Frame(m, Dropped(m, k), k)
           /\ Dropped(m, k).slot[k] = NoEntry /\ k \notin IdleKeys(Dropped(m, k))
  <1> DEFINE n == Dropped(m, k)
  <1>1. /\ Sound(n) /\ IdleKeys(n) = IdleKeys(m) \ {k} /\ n.status = m.status
        /\ n.slot = [m.slot EXCEPT ![k] = NoEntry]
    BY DroppedFact DEF Whole
  <1> HIDE DEF n
  <1>2. m.slot \in [Key -> Entry]
    BY SoundParts DEF Whole
  <1>3. n.slot[k] = NoEntry /\ \A l \in Key \ {k} : n.slot[l] = m.slot[l]
    BY <1>1, <1>2
  <1>4. \A l \in Key : n.slot[l].ses = m.slot[l].ses
    BY <1>3 DEF NoEntry
  <1>5. Whole(n) /\ Frame(m, n, k)
    <2>1. Entries(n)
      BY <1>1, <1>3, <1>4, EntriesSame
    <2>2. Frame(m, n, k)
      BY <1>1, <1>3, <1>4 DEF Frame
    <2>3. QED
      BY <1>1, <1>3, <1>4, <2>1, <2>2 DEF Whole
  <1>6. QED
    BY <1>1, <1>3, <1>5 DEF n

LEMMA DiscardedWhole ==
    ASSUME NEW m, Whole(m), NEW k \in Key
    PROVE  /\ Whole(Discarded(m, k)) /\ Frame(m, Discarded(m, k), k)
           /\ Discarded(m, k).slot[k] = NoEntry /\ k \notin IdleKeys(Discarded(m, k))
  <1> DEFINE n == Discarded(m, k)
  <1>1. /\ Sound(n) /\ IdleKeys(n) = IdleKeys(m) \ {k}
        /\ n.slot = [m.slot EXCEPT ![k] = NoEntry]
        /\ n.status = IF m.slot[k].ses = NoSession THEN m.status
                      ELSE [m.status EXCEPT ![m.slot[k].ses] = "closing"]
    BY DiscardedFact DEF Whole
  <1> HIDE DEF n
  <1>2. /\ m.slot \in [Key -> Entry] /\ m.status \in [Session -> {"none", "open", "closing"}]
        /\ m.slot[k].ses \in Session \cup {NoSession}
    BY SoundParts DEF Whole
  <1>3. n.slot[k] = NoEntry /\ \A l \in Key \ {k} : n.slot[l] = m.slot[l]
    BY <1>1, <1>2
  <1>4. \A l \in Key : n.slot[l].ses \in {m.slot[l].ses, NoSession}
    BY <1>3 DEF NoEntry
  <1>5. \A l \in Key \ {k} : m.slot[l].ses # NoSession => m.slot[l].ses # m.slot[k].ses
    BY DEF Whole, Entries
  <1>6. \A s \in Session : n.status[s] = IF s = m.slot[k].ses THEN "closing" ELSE m.status[s]
    BY <1>1, <1>2 DEF NoSession
  <1>7. Entries(n)
    <2>1. \A l \in Key : m.slot[l].ses \in Session \cup {NoSession}
      BY SoundParts DEF Whole
    <2>2. ASSUME NEW l \in Key, m.slot[l].ses # NoSession
          PROVE  n.status[m.slot[l].ses] = IF n.slot[l].ses = NoSession THEN "closing"
                                                                        ELSE m.status[m.slot[l].ses]
      <3>1. CASE l = k
        BY <1>3, <1>6, <2>1, <2>2, <3>1 DEF NoEntry
      <3>2. CASE l # k
        BY <1>3, <1>5, <1>6, <2>1, <2>2, <3>2
      <3>3. QED
        BY <3>1, <3>2
    <2>3. Shrinks(m, n)
      BY <1>4, <1>6, <2>2 DEF Shrinks
    <2>4. QED
      BY <2>3, EntriesShrink
  <1>8. Whole(n) /\ Frame(m, n, k)
    <2>1. Frame(m, n, k)
      BY <1>1, <1>3 DEF Frame
    <2>2. QED
      BY <1>1, <1>7, <2>1 DEF Whole
  <1>9. QED
    BY <1>1, <1>3, <1>8 DEF n

LEMMA TrimmedWhole ==
    ASSUME NEW m, Whole(m)
    PROVE  /\ Whole(Trimmed(m))
           /\ \A k \in Key : \/ Trimmed(m).slot[k] = m.slot[k]
                             \/ k \in IdleKeys(m) /\ Trimmed(m).slot[k] = NoEntry
           /\ IdleKeys(Trimmed(m)) \subseteq IdleKeys(m)
           /\ \A k : Frame(m, Trimmed(m), k)
  <1> DEFINE n == Trimmed(m)
             out == TrimmedKeys(m)
             gone == {m.slot[k].ses : k \in out}
  <1>0. Sound(m) /\ Entries(m)
    BY DEF Whole
  <1>1. /\ Sound(n) /\ IdleKeys(n) = IdleKeys(m) \ out
        /\ n.slot = [k \in Key |-> IF k \in out THEN NoEntry ELSE m.slot[k]]
        /\ n.status = [s \in Session |-> IF s \in gone THEN "closing" ELSE m.status[s]]
    BY <1>0, TrimmedFact
  <1>2. out \subseteq IdleKeys(m)
    BY <1>0, ShortFact
  <1>3. \A k \in Key : m.slot[k].ses \in Session \cup {NoSession}
    BY <1>0, SoundParts
  <1>4. IdleKeys(m) \subseteq Key
    BY <1>0, SoundParts
  <1> HIDE DEF n, out
  <1>5. \A k \in Key : /\ k \in out => n.slot[k] = NoEntry
                       /\ k \notin out => n.slot[k] = m.slot[k]
    BY <1>1
  <1>6. ASSUME NEW k \in Key, m.slot[k].ses # NoSession
        PROVE  /\ m.slot[k].ses \in gone <=> k \in out
               /\ n.slot[k].ses = NoSession <=> k \in out
    <2>1. m.slot[k].ses \in gone => k \in out
      <3>1. SUFFICES ASSUME m.slot[k].ses \in gone PROVE k \in out
        OBVIOUS
      <3>2. PICK l \in out : m.slot[k].ses = m.slot[l].ses
        BY <3>1
      <3>3. l \in Key
        BY <1>2, <1>4, <3>2
      <3>4. k = l
        BY <1>0, <1>6, <3>2, <3>3 DEF Entries
      <3>5. QED
        BY <3>2, <3>4
    <2>2. k \in out => m.slot[k].ses \in gone
      OBVIOUS
    <2>3. n.slot[k].ses = NoSession <=> k \in out
      BY <1>5, <1>6 DEF NoEntry
    <2>4. QED
      BY <2>1, <2>2, <2>3
  <1> HIDE DEF gone
  <1>7. Shrinks(m, n)
    <2>1. \A k \in Key : n.slot[k].ses \in {m.slot[k].ses, NoSession}
      BY <1>5 DEF NoEntry
    <2>2. ASSUME NEW k \in Key, m.slot[k].ses # NoSession
          PROVE  n.status[m.slot[k].ses] = IF n.slot[k].ses = NoSession THEN "closing"
                                                                        ELSE m.status[m.slot[k].ses]
      <3>1. m.slot[k].ses \in Session
        BY <1>3, <2>2
      <3>2. /\ m.slot[k].ses \in gone => n.status[m.slot[k].ses] = "closing"
            /\ m.slot[k].ses \notin gone => n.status[m.slot[k].ses] = m.status[m.slot[k].ses]
        BY <1>1, <3>1
      <3>3. m.slot[k].ses \in gone <=> n.slot[k].ses = NoSession
        BY <1>6, <2>2
      <3>4. QED
        BY <3>2, <3>3
    <2>3. \A s \in Session : n.status[s] \in {m.status[s], "closing"}
      BY <1>1
    <2>4. QED
      BY <2>1, <2>2, <2>3 DEF Shrinks
  <1>8. Whole(n)
    <2>1. Entries(n)
      BY <1>7, EntriesShrink
    <2>2. QED
      BY <1>1, <2>1 DEF Whole
  <1>9. \A k \in Key : n.slot[k] = m.slot[k] \/ (k \in IdleKeys(m) /\ n.slot[k] = NoEntry)
    BY <1>2, <1>5
  <1>10. IdleKeys(n) \subseteq IdleKeys(m)
    BY <1>1
  <1>11. \A k : Frame(m, n, k)
    BY <1>9, <1>10 DEF Frame
  <1>12. QED
    BY <1>8, <1>9, <1>10, <1>11 DEF n

\* The session of b's entry goes into a close and the entry stays, without one.
LEMMA GoneWhole ==
    ASSUME NEW m, Whole(m), NEW b \in Borrower, NEW k \in Key, NEW s \in Session,
           m.slot[k].owner = b, m.slot[k].ses = s
    PROVE  LET n == WithSession(Torn(m, s), b, k, NoSession)
           IN  /\ Whole(n) /\ Frame(m, n, k)
               /\ n.slot[k].owner = b /\ n.slot[k].ses = NoSession
               /\ IdleKeys(n) = IdleKeys(m)
  <1> DEFINE o == Torn(m, s)
             n == WithSession(o, b, k, NoSession)
  <1>1. Sound(m) /\ Entries(m)
    BY DEF Whole
  <1>2. /\ Sound(o) /\ o.slot = m.slot /\ IdleKeys(o) = IdleKeys(m)
        /\ o.status = [m.status EXCEPT ![s] = "closing"]
    BY <1>1, TornFact
  <1> HIDE DEF o
  <1>3. /\ Sound(n) /\ IdleKeys(n) = IdleKeys(o) /\ n.status = o.status
    BY <1>2, WithSessionFact
  <1>4. n.slot = [m.slot EXCEPT ![k].ses = NoSession]
    BY <1>2, WithSessionSlot
  <1> HIDE DEF n
  <1>5. /\ m.slot \in [Key -> Entry] /\ m.status \in [Session -> {"none", "open", "closing"}]
        /\ \A l \in Key : m.slot[l].ses \in Session \cup {NoSession}
    BY <1>1, SoundParts
  <1>6. n.slot[k].owner = b /\ n.slot[k].ses = NoSession
    BY <1>4, <1>5, EntryThere
  <1>7. \A l \in Key \ {k} : n.slot[l] = m.slot[l]
    BY <1>4, <1>5
  <1>8. Shrinks(m, n)
    <2>1. \A l \in Key : n.slot[l].ses \in {m.slot[l].ses, NoSession}
      BY <1>6, <1>7
    <2>2. ASSUME NEW l \in Key, m.slot[l].ses # NoSession
          PROVE  n.status[m.slot[l].ses] = IF n.slot[l].ses = NoSession THEN "closing"
                                                                        ELSE m.status[m.slot[l].ses]
      <3>1. CASE l = k
        BY <1>2, <1>3, <1>5, <1>6, <3>1
      <3>2. CASE l # k
        <4>1. m.slot[l].ses # s
          BY <1>1, <2>2, <3>2 DEF Entries
        <4>2. QED
          BY <1>2, <1>3, <1>5, <1>7, <2>2, <3>2, <4>1
      <3>3. QED
        BY <3>1, <3>2
    <2>3. \A u \in Session : n.status[u] \in {m.status[u], "closing"}
      BY <1>2, <1>3, <1>5
    <2>4. QED
      BY <2>1, <2>2, <2>3 DEF Shrinks
  <1>9. Entries(n)
    BY <1>8, EntriesShrink
  <1>10. Frame(m, n, k)
    BY <1>2, <1>3, <1>7 DEF Frame
  <1>11. Whole(n)
    BY <1>3, <1>9 DEF Whole
  <1>12. QED
    BY <1>2, <1>3, <1>6, <1>10, <1>11 DEF n, o

\* A new session comes to b's entry.
LEMMA OpenedWhole ==
    ASSUME NEW m, Whole(m), NEW b \in Borrower, NEW k \in Key, NEW s \in Session,
           m.slot[k].owner = b, m.slot[k].ses = NoSession,
           \A l \in Key : m.slot[l].ses # s
    PROVE  LET n == WithSession([m EXCEPT !.status[s] = "open"], b, k, s)
           IN  /\ Whole(n) /\ Frame(m, n, k)
               /\ n.slot[k].owner = b /\ n.slot[k].ses = s
               /\ IdleKeys(n) = IdleKeys(m)
  <1> DEFINE o == [m EXCEPT !.status[s] = "open"]
             n == WithSession(o, b, k, s)
  <1>1. Sound(m) /\ Entries(m)
    BY DEF Whole
  <1>2. /\ Sound(o) /\ o.slot = m.slot /\ IdleKeys(o) = IdleKeys(m)
        /\ o.status = [m.status EXCEPT ![s] = "open"]
    BY <1>1, OpenedFact
  <1> HIDE DEF o
  <1>3. /\ Sound(n) /\ IdleKeys(n) = IdleKeys(o) /\ n.status = o.status
    BY <1>2, WithSessionFact
  <1>4. n.slot = [m.slot EXCEPT ![k].ses = s]
    BY <1>2, WithSessionSlot
  <1> HIDE DEF n
  <1>5. /\ m.slot \in [Key -> Entry] /\ m.status \in [Session -> {"none", "open", "closing"}]
        /\ \A l \in Key : m.slot[l].ses \in Session \cup {NoSession}
    BY <1>1, SoundParts
  <1>6. n.slot[k].owner = b /\ n.slot[k].ses = s
    BY <1>4, <1>5, EntryThere
  <1>7. \A l \in Key \ {k} : n.slot[l] = m.slot[l]
    BY <1>4, <1>5
  <1>8. \A u \in Session : n.status[u] = IF u = s THEN "open" ELSE m.status[u]
    BY <1>2, <1>3, <1>5
  <1>9. ASSUME NEW l \in Key, n.slot[l].ses # NoSession PROVE n.status[n.slot[l].ses] = "open"
    <2>1. CASE l = k
      BY <1>6, <1>8, <2>1
    <2>2. CASE l # k
      <3>1. m.slot[l].ses \in Session /\ n.slot[l].ses = m.slot[l].ses /\ m.slot[l].ses # s
        BY <1>5, <1>7, <1>9, <2>2
      <3>2. m.status[m.slot[l].ses] = "open"
        BY <1>1, <1>9, <3>1 DEF Entries
      <3>3. QED
        BY <1>8, <3>1, <3>2
    <2>3. QED
      BY <2>1, <2>2
  <1>10. ASSUME NEW l \in Key, NEW j \in Key, n.slot[l].ses = n.slot[j].ses, n.slot[l].ses # NoSession
         PROVE  l = j
    <2>1. CASE l = k \/ j = k
      BY <1>6, <1>7, <1>10, <2>1
    <2>2. CASE l # k /\ j # k
      BY <1>1, <1>7, <1>10, <2>2 DEF Entries
    <2>3. QED
      BY <2>1, <2>2
  <1>11. ASSUME NEW u \in Session, n.status[u] = "open" PROVE \E l \in Key : n.slot[l].ses = u
    <2>1. CASE u = s
      BY <1>6, <2>1
    <2>2. CASE u # s
      <3>1. m.status[u] = "open" /\ u # NoSession
        BY <1>8, <1>11, <2>2 DEF NoSession
      <3>2. PICK l \in Key : m.slot[l].ses = u
        BY <1>1, <3>1 DEF Entries
      <3>3. l # k
        BY <3>1, <3>2
      <3>4. QED
        BY <1>7, <3>2, <3>3
    <2>3. QED
      BY <2>1, <2>2
  <1>12. Entries(n)
    BY <1>9, <1>10, <1>11 DEF Entries
  <1>13. Frame(m, n, k)
    BY <1>2, <1>3, <1>7 DEF Frame
  <1>14. Whole(n)
    BY <1>3, <1>12 DEF Whole
  <1>15. QED
    BY <1>2, <1>3, <1>6, <1>13, <1>14 DEF n, o

-----------------------------------------------------------------------------
(* The borrowers' places                                                   *)

Holding == {"checking", "rooming", "opening", "using", "cleaning"}

\* Where borrower b of key k is, with task t, among the tables m.
Place(m, t, k, b) ==
    /\ t.pc \notin {"starting", "returning", "stranded"}
    /\ t.pc \in Holding => m.slot[k].owner = b /\ k \notin IdleKeys(m)
    /\ t.pc \in {"checking", "using", "cleaning"} => m.slot[k].ses = t.held
    /\ t.pc \in {"rooming", "opening"} => m.slot[k].ses = NoSession
    /\ t.pc = "waiting" => ~t.fresh

\* Nobody has the entry of k and it is not idle: no acquire gets at it.
Shelved(m, k) == m.slot[k].owner = NoOne /\ k \notin IdleKeys(m)

\* k's entry and its place in the idle list are as they were.
SameAt(m, n, k) == n.slot[k] = m.slot[k] /\ (k \in IdleKeys(n) => k \in IdleKeys(m))

LEMMA RoomForOwns ==
    ASSUME task \in [Borrower -> Task], NEW b \in Borrower, NEW k \in Key, NEW t \in Task,
           NEW m, Whole(m), m.slot[k].owner = b, m.slot[k].ses = NoSession, k \notin IdleKeys(m),
           RoomFor(b, m, t)
    PROVE  /\ Whole(mgr') /\ Frame(m, mgr', k) /\ mgr'.slot[k].ses = NoSession
           /\ Place(mgr', task'[b], k, b)
  <1>1. PICK place \in {"rooming", "opening"} : Put(b, Acting(t, place, NoSession))
    BY DEF RoomFor
  <1>2. PICK u : u = Acting(t, place, NoSession)
    OBVIOUS
  <1>3. place \in Acquiring \cup {"returning"} /\ NoSession \in Session \cup {NoSession}
    BY DEF Acquiring
  <1>4. u \in Task /\ u.pc = place
    BY <1>2, <1>3, ActingFact
  <1>5. task'[b] = u
    <2>1. Put(b, u)
      BY <1>1, <1>2
    <2>2. QED
      BY <1>4, <2>1, PutFact
  <1>6. /\ Whole(mgr') /\ Frame(m, mgr', k) /\ mgr'.slot[k] = m.slot[k]
        /\ k \notin IdleKeys(mgr')
    <2>1. mgr' = Trimmed(m)
      BY DEF RoomFor
    <2>2. QED
      BY <2>1, TrimmedWhole
  <1>7. Place(mgr', task'[b], k, b)
    BY <1>4, <1>5, <1>6 DEF Place
  <1>8. QED
    BY <1>6, <1>7

LEMMA EnterOwns ==
    ASSUME task \in [Borrower -> Task], NEW b \in Borrower, NEW t \in Task,
           NEW m, Whole(m), Enter(b, m, t), NEW k \in Key, k = KeyOf[b],
           ~t.fresh \/ ~m.slot[k].there
    PROVE  /\ Whole(mgr') /\ Frame(m, mgr', k)
           /\ m.slot[k].owner = NoOne \/ SameAt(m, mgr', k)
           /\ \/ SameAt(m, mgr', k)
              \/ mgr'.slot[k].ses = NoSession
              \/ k \in IdleKeys(m) /\ mgr'.slot[k].ses = m.slot[k].ses
           /\ Place(mgr', task'[b], k, b)
  <1>1. Sound(m) /\ Entries(m) /\ NoSession \in Session \cup {NoSession}
    BY DEF Whole
  <1>2. CASE InUse(m, k) /\ mgr' = [m EXCEPT !.waiters = @ \cup {b}]
             /\ Put(b, Acting(t, "waiting", NoSession))
    <2>1. mgr' = [m EXCEPT !.waiters = m.waiters \cup {b}] /\ m.waiters \cup {b} \in SUBSET Borrower
      BY <1>1, <1>2, SoundParts
    <2>2. /\ Sound(mgr') /\ IdleKeys(mgr') = IdleKeys(m) /\ mgr'.slot = m.slot
          /\ mgr'.status = m.status
      BY <1>1, <2>1, WaitersFact
    <2>3. Whole(mgr') /\ Frame(m, mgr', k)
      BY <2>2, WaitersWhole
    <2>4. PICK u : u = Acting(t, "waiting", NoSession)
      OBVIOUS
    <2>5. "waiting" \in Acquiring \cup {"returning"}
      BY DEF Acquiring
    <2>6. u \in Task /\ u.pc = "waiting" /\ u.fresh = t.fresh
      BY <1>1, <2>4, <2>5, ActingFact
    <2>7. task'[b] = u
      BY <1>2, <2>4, <2>6, PutFact
    <2>8. ~t.fresh
      BY <1>2 DEF InUse
    <2>9. Place(mgr', task'[b], k, b)
      BY <2>6, <2>7, <2>8 DEF Place, Holding
    <2>10. QED
      BY <2>2, <2>3, <2>9 DEF SameAt
  <1>3. CASE ~m.slot[k].there /\ RoomFor(b, Taken(m, b, k), t)
    <2>1. PICK n : n = Taken(m, b, k)
      OBVIOUS
    <2>2. m.slot[k].ses = NoSession /\ m.slot[k].owner = NoOne
      BY <1>1, <1>3, SoundParts DEF NoEntry
    <2>3. /\ Whole(n) /\ Frame(m, n, k) /\ n.slot[k].owner = b /\ k \notin IdleKeys(n)
          /\ n.slot[k].ses = NoSession
      BY <1>1, <2>1, <2>2, TakenWhole
    <2>4. RoomFor(b, n, t)
      BY <1>3, <2>1
    <2>5. /\ Whole(mgr') /\ Frame(n, mgr', k) /\ mgr'.slot[k].ses = NoSession
          /\ Place(mgr', task'[b], k, b)
      BY <2>3, <2>4, RoomForOwns
    <2>6. Frame(m, mgr', k)
      BY <2>3, <2>5, FrameTransitive
    <2>7. QED
      BY <2>2, <2>5, <2>6
  <1>4. CASE Pooled(m, k) /\ mgr' = Taken(m, b, k) /\ Put(b, Acting(t, "checking", m.slot[k].ses))
    <2>1. k \in IdleKeys(m) /\ m.slot[k].ses \in Session /\ m.slot[k].owner = NoOne
      BY <1>1, <1>4, SoundParts DEF Pooled
    <2>2. /\ Whole(mgr') /\ Frame(m, mgr', k) /\ mgr'.slot[k].owner = b
          /\ k \notin IdleKeys(mgr') /\ mgr'.slot[k].ses = m.slot[k].ses
      BY <1>1, <1>4, TakenWhole
    <2>3. PICK s \in Session : s = m.slot[k].ses
      BY <2>1
    <2>4. PICK u : u = Acting(t, "checking", s)
      OBVIOUS
    <2>5. "checking" \in Acquiring \cup {"returning"} /\ s \in Session \cup {NoSession}
      BY DEF Acquiring
    <2>6. u \in Task /\ u.pc = "checking" /\ u.held = s
      BY <2>4, <2>5, ActingFact
    <2>7. Put(b, u)
      BY <1>4, <2>3, <2>4
    <2>8. task'[b] = u
      BY <2>6, <2>7, PutFact
    <2>9. Place(mgr', task'[b], k, b)
      BY <2>2, <2>3, <2>6, <2>8 DEF Place
    <2>10. QED
      BY <2>1, <2>2, <2>9
  <1>5. QED
    BY <1>2, <1>3, <1>4 DEF Enter

LEMMA RaisedOwns ==
    ASSUME task \in [Borrower -> Task], NEW b \in Borrower, NEW k \in Key, k = KeyOf[b],
           NEW m, Whole(m), Raised(b, m)
    PROVE  /\ Whole(mgr') /\ Frame(m, mgr', k)
           /\ ~task[b].fresh => mgr' = m
           /\ mgr' = m \/ (mgr'.slot[k] = NoEntry /\ k \notin IdleKeys(mgr'))
           /\ task'[b] = NoTask
  <1>1. task'[b] = NoTask
    BY NoTaskFact, PutFact DEF Raised
  <1>2. CASE task[b].fresh
    <2>1. mgr' = Discarded(m, k)
      BY <1>2 DEF Raised
    <2>2. QED
      BY <1>1, <1>2, <2>1, DiscardedWhole
  <1>3. CASE ~task[b].fresh
    <2>1. mgr' = m
      BY <1>3 DEF Raised
    <2>2. Frame(m, m, k)
      BY DEF Frame
    <2>3. QED
      BY <1>1, <2>1, <2>2
  <1>4. QED
    BY <1>2, <1>3

LEMMA ReleaseOwns ==
    ASSUME task \in [Borrower -> Task], NEW b \in Borrower, NEW k \in Key, k = KeyOf[b],
           NEW m, Whole(m), NEW discard, Release(b, m, discard)
    PROVE  /\ Whole(mgr') /\ Frame(m, mgr', k)
           /\ \/ task'[b] = NoTask /\ mgr'.slot[k] = NoEntry /\ k \notin IdleKeys(mgr')
              \/ /\ ~discard /\ mgr' = m
                 /\ task'[b].pc = "cleaning" /\ task'[b].held = m.slot[k].ses
  <1>1. Sound(m)
    BY DEF Whole
  <1>2. PICK s \in Session \cup {NoSession} : s = m.slot[k].ses
    BY <1>1, SoundParts
  <1>3. CASE mgr' = Discarded(m, k) /\ Put(b, NoTask)
    <2>1. task'[b] = NoTask
      BY <1>3, NoTaskFact, PutFact
    <2>2. QED
      BY <1>3, <2>1, DiscardedWhole
  <1>4. CASE ~discard /\ mgr' = m /\ Put(b, [NoTask EXCEPT !.pc = "cleaning", !.held = s])
    <2>1. PICK u : u = [NoTask EXCEPT !.pc = "cleaning", !.held = s]
      OBVIOUS
    <2>2. u \in Task /\ u.pc = "cleaning" /\ u.held = s
      <3>1. u = [pc |-> "cleaning", held |-> s, fresh |-> FALSE, paid |-> FALSE, left |-> 0]
        BY <2>1 DEF NoTask
      <3>2. /\ "cleaning" \in Acquiring \cup {"idle", "returning", "using", "cleaning"}
            /\ FALSE \in BOOLEAN /\ 0 \in 0..Commands
        OBVIOUS
      <3>3. QED
        BY <1>2, <3>1, <3>2 DEF Task
    <2>3. task'[b] = u
      BY <1>4, <2>1, <2>2, PutFact
    <2>4. Frame(m, m, k)
      BY DEF Frame
    <2>5. QED
      BY <1>2, <1>4, <2>2, <2>3, <2>4
  <1>5. QED
    BY <1>2, <1>3, <1>4 DEF Release

-----------------------------------------------------------------------------
(* The invariant                                                           *)

\* A session on which an abandoned call runs is out of every acquire's reach.
LateShelved == \A k \in Key : mgr.slot[k].ses \in late => Shelved(mgr, k)

OInv ==
    /\ GInv /\ Entries(mgr) /\ LateShelved
    /\ \A b \in Borrower : Place(mgr, task[b], KeyOf[b], b)

\* What a step of borrower b of key k leaves.
Owns(b, k) ==
    /\ Whole(mgr') /\ Frame(mgr, mgr', k)
    /\ mgr.slot[k].owner \in {b, NoOne} \/ SameAt(mgr, mgr', k)
    /\ Place(mgr', task'[b], k, b)
    /\ mgr'.slot[k].ses \in late' => Shelved(mgr', k)
    /\ late' \subseteq late \cup {mgr.slot[k].ses}

LEMMA OInvParts ==
    ASSUME OInv, NEW b \in Borrower, NEW k \in Key, k = KeyOf[b]
    PROVE  /\ task \in [Borrower -> Task] /\ task[b] \in Task
           /\ Whole(mgr) /\ Sound(mgr) /\ Entries(mgr) /\ HasSession(task[b])
           /\ late \subseteq Session /\ NoSession \notin late
           /\ mgr.slot[k].ses \in Session \cup {NoSession}
           /\ mgr.slot[k].ses \in late => Shelved(mgr, k)
           /\ Place(mgr, task[b], k, b)
           /\ task[b].pc \notin {"starting", "returning", "stranded"}
  <1>1. /\ task \in [Borrower -> Task] /\ task[b] \in Task /\ Sound(mgr) /\ HasSession(task[b])
        /\ late \subseteq Session
    BY GInvParts DEF OInv
  <1>2. Whole(mgr) /\ Entries(mgr) /\ Place(mgr, task[b], k, b)
    BY <1>1 DEF OInv, Whole
  <1>3. mgr.slot[k].ses \in Session \cup {NoSession}
    BY <1>1, SoundParts
  <1>4. NoSession \notin late
    BY <1>1 DEF NoSession
  <1>5. mgr.slot[k].ses \in late => Shelved(mgr, k)
    BY DEF OInv, LateShelved
  <1>6. QED
    BY <1>1, <1>2, <1>3, <1>4, <1>5 DEF Place

\* Who holds a key has an entry of its own, with no session in doubt.
LEMMA HolderParts ==
    ASSUME OInv, NEW b \in Borrower, NEW k \in Key, k = KeyOf[b], task[b].pc \in Holding
    PROVE  /\ mgr.slot[k].owner = b /\ b # NoOne /\ k \notin IdleKeys(mgr)
           /\ mgr.slot[k].ses \notin late
           /\ task[b].pc \in {"checking", "using", "cleaning"} =>
                 mgr.slot[k].ses = task[b].held /\ task[b].held \in Session
           /\ task[b].pc \in {"rooming", "opening"} => mgr.slot[k].ses = NoSession
  <1>1. mgr.slot[k].owner = b /\ b # NoOne /\ k \notin IdleKeys(mgr)
    BY OInvParts DEF Place
  <1>2. mgr.slot[k].ses \notin late
    BY <1>1, OInvParts DEF Shelved
  <1>3. /\ task[b].pc \in {"checking", "using", "cleaning"} => mgr.slot[k].ses = task[b].held
        /\ task[b].pc \in {"rooming", "opening"} => mgr.slot[k].ses = NoSession
    BY OInvParts DEF Place
  <1>4. task[b].pc \in {"checking", "using", "cleaning"} => task[b].held \in Session
    BY GInvParts DEF OInv
  <1>5. QED
    BY <1>1, <1>2, <1>3, <1>4

LEMMA PlaceKept ==
    ASSUME NEW m, NEW n, NEW t, NEW l, NEW c, Place(m, t, l, c),
           t.pc \in Holding => n.slot[l] = m.slot[l] /\ l \notin IdleKeys(n)
    PROVE  Place(n, t, l, c)
  BY DEF Place, Holding

LEMMA OwnsKeeps ==
    ASSUME OInv, GInv', NEW b \in Borrower, NEW k \in Key, k = KeyOf[b], Owns(b, k),
           \A c \in Borrower \ {b} : task'[c] = task[c]
    PROVE  OInv'
  <1>1. /\ Whole(mgr') /\ Entries(mgr') /\ Frame(mgr, mgr', k)
        /\ mgr.slot[k].owner \in {b, NoOne} \/ SameAt(mgr, mgr', k)
        /\ Place(mgr', task'[b], k, b)
        /\ mgr'.slot[k].ses \in late' => Shelved(mgr', k)
        /\ late' \subseteq late \cup {mgr.slot[k].ses}
    BY DEF Owns, Whole
  <1>2. Whole(mgr) /\ Entries(mgr) /\ NoSession \notin late
    BY OInvParts
  <1>3. \A c \in Borrower : KeyOf[c] \in Key
    OBVIOUS
  <1>4. ASSUME NEW c \in Borrower PROVE Place(mgr', task'[c], KeyOf[c], c)
    <2>1. CASE c = b
      BY <1>1, <2>1
    <2>2. CASE c # b
      <3>1. PICK l \in Key : l = KeyOf[c]
        BY <1>3
      <3>2. Place(mgr, task[c], l, c) /\ c # NoOne
        BY <3>1 DEF OInv
      <3>3. ASSUME task[c].pc \in Holding PROVE mgr'.slot[l] = mgr.slot[l] /\ l \notin IdleKeys(mgr')
        <4>1. mgr.slot[l].owner = c /\ l \notin IdleKeys(mgr)
          BY <3>2, <3>3 DEF Place
        <4>2. CASE l = k
          BY <1>1, <2>2, <3>2, <4>1, <4>2 DEF SameAt
        <4>3. CASE l # k
          BY <1>1, <4>1, <4>3 DEF Frame
        <4>4. QED
          BY <4>2, <4>3
      <3>4. Place(mgr', task[c], l, c)
        BY <3>2, <3>3, PlaceKept
      <3>5. QED
        BY <2>2, <3>1, <3>4
    <2>3. QED
      BY <2>1, <2>2
  <1>5. ASSUME NEW l \in Key, mgr'.slot[l].ses \in late' PROVE Shelved(mgr', l)
    <2>1. CASE l = k
      BY <1>1, <1>5, <2>1
    <2>2. CASE l # k
      <3>0. NoEntry.ses = NoSession
        BY DEF NoEntry
      <3>1. /\ mgr'.slot[l] = mgr.slot[l] \/ (mgr'.slot[l] = NoEntry)
            /\ l \in IdleKeys(mgr') => l \in IdleKeys(mgr)
        BY <1>1, <2>2 DEF Frame
      <3>2. CASE mgr'.slot[l] = mgr.slot[l] /\ mgr.slot[l].ses \in late
        BY <3>1, <3>2 DEF OInv, LateShelved, Shelved
      <3>3. CASE mgr'.slot[l] = mgr.slot[l] /\ mgr.slot[l].ses \notin late
        <4>1. mgr.slot[l].ses = mgr.slot[k].ses
          BY <1>1, <1>5, <3>3
        <4>2. mgr.slot[l].ses = NoSession
          BY <1>2, <2>2, <4>1 DEF Entries
        <4>3. NoSession \in late'
          BY <1>5, <3>3, <4>2
        <4>4. NoSession \notin Session /\ late' \subseteq Session
          BY DEF NoSession, GInv, TypeOK
        <4>5. QED
          BY <4>3, <4>4
      <3>4. CASE mgr'.slot[l] = NoEntry
        <4>1. NoSession \in late'
          BY <1>5, <3>0, <3>4
        <4>2. NoSession \notin Session /\ late' \subseteq Session
          BY DEF NoSession, GInv, TypeOK
        <4>3. QED
          BY <4>1, <4>2
      <3>5. QED
        BY <3>1, <3>2, <3>3, <3>4
    <2>3. QED
      BY <2>1, <2>2
  <1>6. LateShelved'
    BY <1>5 DEF LateShelved, Shelved, IdleKeys
  <1>7. (\A c \in Borrower : Place(mgr, task[c], KeyOf[c], c))'
    BY <1>4 DEF Place, IdleKeys
  <1>8. Entries(mgr)'
    BY <1>1 DEF Entries
  <1>9. QED
    BY <1>6, <1>7, <1>8 DEF OInv

-----------------------------------------------------------------------------
(* The steps of a borrower                                                 *)

LEMMA AtRestPlace ==
    ASSUME NEW m, NEW k, NEW b, NEW t, t.pc = "idle"
    PROVE  Place(m, t, k, b)
  BY DEF Place, Holding

\* The holder of k leaves its entry with the session it had, or with none.
LEMMA HolderOwns ==
    ASSUME OInv, NEW b \in Borrower, NEW k \in Key, k = KeyOf[b], task[b].pc \in Holding,
           Whole(mgr'), Frame(mgr, mgr', k), Place(mgr', task'[b], k, b),
           late' \subseteq late \cup {mgr.slot[k].ses},
           \/ late' = late /\ mgr'.slot[k].ses \in {mgr.slot[k].ses, NoSession}
           \/ mgr'.slot[k].ses = NoSession /\ task[b].pc \in {"checking", "using", "cleaning"}
           \/ Shelved(mgr', k)
    PROVE  Owns(b, k)
  <1>1. mgr.slot[k].owner = b /\ mgr.slot[k].ses \notin late /\ NoSession \notin late
    BY HolderParts, OInvParts
  <1>2. NoSession \in late' => NoSession = mgr.slot[k].ses
    BY <1>1
  <1>3. mgr'.slot[k].ses \in late' => Shelved(mgr', k)
    <2>1. CASE late' = late /\ mgr'.slot[k].ses \in {mgr.slot[k].ses, NoSession}
      BY <1>1, <2>1
    <2>2. CASE mgr'.slot[k].ses = NoSession /\ task[b].pc \in {"checking", "using", "cleaning"}
      <3>1. mgr.slot[k].ses \in Session /\ NoSession \notin Session
        BY <2>2, HolderParts DEF NoSession
      <3>2. QED
        BY <1>2, <2>2, <3>1
    <2>3. CASE Shelved(mgr', k)
      BY <2>3
    <2>4. QED
      BY <2>1, <2>2, <2>3
  <1>4. QED
    BY <1>1, <1>3 DEF Owns

LEMMA EnterKeepsOwning ==
    ASSUME OInv, NEW b \in Borrower, NEW k \in Key, k = KeyOf[b], NEW t \in Task,
           Enter(b, mgr, t), ~t.fresh, late' = late
    PROVE  Owns(b, k)
  <1>1. /\ task \in [Borrower -> Task] /\ Whole(mgr) /\ NoSession \notin late
        /\ mgr.slot[k].ses \in late => Shelved(mgr, k)
    BY OInvParts
  <1>2. /\ Whole(mgr') /\ Frame(mgr, mgr', k)
        /\ mgr.slot[k].owner = NoOne \/ SameAt(mgr, mgr', k)
        /\ \/ SameAt(mgr, mgr', k)
           \/ mgr'.slot[k].ses = NoSession
           \/ k \in IdleKeys(mgr) /\ mgr'.slot[k].ses = mgr.slot[k].ses
        /\ Place(mgr', task'[b], k, b)
    BY <1>1, EnterOwns
  <1>3. mgr'.slot[k].ses \in late' => Shelved(mgr', k)
    BY <1>1, <1>2 DEF SameAt, Shelved
  <1>4. QED
    BY <1>2, <1>3 DEF Owns

LEMMA BeginOwns ==
    ASSUME OInv, ~InTask, NEW b \in Borrower, NEW k \in Key, k = KeyOf[b], Begin(b)
    PROVE  Owns(b, k)
  <1>1. PICK t \in Task : /\ t = [NoTask EXCEPT !.left = Commands, !.paid = ~Pooled(mgr, KeyOf[b])]
                          /\ ~t.fresh
    BY BeginTask
  <1>2. t \in Task /\ ~t.fresh
    BY <1>1
  <1>3. Enter(b, mgr, t) /\ late' = late
    BY <1>1 DEF Begin, Call, threads
  <1>4. QED
    BY <1>2, <1>3, EnterKeepsOwning

LEMMA ResumeOwns ==
    ASSUME OInv, NEW b \in Borrower, NEW k \in Key, k = KeyOf[b], Resume(b)
    PROVE  Owns(b, k)
  <1>1. /\ task[b].pc \notin {"starting", "returning", "stranded"} /\ task[b] \in Task
        /\ Place(mgr, task[b], k, b)
    BY OInvParts
  <1>2. task[b].pc = "waiting" /\ Enter(b, mgr, task[b]) /\ late' = late
    BY <1>1 DEF Resume, Returned, threads
  <1>3. ~task[b].fresh
    BY <1>1, <1>2 DEF Place
  <1>4. PICK t \in Task : t = task[b]
    BY <1>1
  <1>5. QED
    BY <1>2, <1>3, <1>4, EnterKeepsOwning

\* b goes on with session s of its entry.
LEMMA UsingOwns ==
    ASSUME task \in [Borrower -> Task],
           NEW b \in Borrower, NEW k, NEW s \in Session, Using(b, s), NEW m,
           m.slot[k].owner = b, m.slot[k].ses = s, k \notin IdleKeys(m)
    PROVE  Place(m, task'[b], k, b)
  <1>1. PICK u : u = [NoTask EXCEPT !.pc = "using", !.held = s, !.left = task[b].left]
    OBVIOUS
  <1>2. u = [pc |-> "using", held |-> s, fresh |-> FALSE, paid |-> FALSE, left |-> task[b].left]
    BY <1>1 DEF NoTask
  <1>3. task[b].left \in 0..Commands
    BY TaskParts
  <1>4. u \in Task /\ u.pc = "using" /\ u.held = s
    BY <1>2, <1>3 DEF Task
  <1>5. task'[b] = u
    BY <1>1, <1>4, PutFact DEF Using
  <1>6. QED
    BY <1>4, <1>5 DEF Place

LEMMA VouchedOwns ==
    ASSUME OInv, ~InTask, NEW b \in Borrower, NEW k \in Key, k = KeyOf[b], Vouched(b)
    PROVE  Owns(b, k)
  <1>1. task[b].pc = "checking" /\ task[b].pc \in Holding /\ late' = late
    BY DEF Vouched, threads, Holding
  <1>2. /\ task \in [Borrower -> Task] /\ Whole(mgr)
        /\ mgr.slot[k].owner = b /\ k \notin IdleKeys(mgr)
        /\ mgr.slot[k].ses = task[b].held /\ task[b].held \in Session
    BY <1>1, OInvParts, HolderParts
  <1>3. PICK s \in Session : s = task[b].held
    BY <1>2
  <1>4. s # NoSession
    BY DEF NoSession
  <1>5. mgr' = mgr /\ Using(b, s)
    BY <1>3, <1>4 DEF Vouched, Ended
  <1>6. Place(mgr, task'[b], k, b)
    BY <1>2, <1>3, <1>5, UsingOwns
  <1>7. Frame(mgr, mgr', k)
    BY <1>5 DEF Frame
  <1>8. QED
    BY <1>1, <1>2, <1>5, <1>6, <1>7, HolderOwns

LEMMA NotVouchedOwns ==
    ASSUME OInv, ~InTask, NEW b \in Borrower, NEW k \in Key, k = KeyOf[b], NEW over, NotVouched(b, over)
    PROVE  Owns(b, k)
  <1>1. task[b].pc = "checking" /\ task[b].pc \in Holding
    BY DEF NotVouched, Holding
  <1>2. /\ task \in [Borrower -> Task] /\ task[b] \in Task /\ Whole(mgr) /\ Sound(mgr)
        /\ mgr.slot[k].owner = b /\ k \notin IdleKeys(mgr)
        /\ mgr.slot[k].ses = task[b].held /\ task[b].held \in Session
    BY <1>1, OInvParts, HolderParts
  <1>3. PICK s \in Session : s = task[b].held
    BY <1>2
  <1>4. PICK m : m = WithSession(Torn(mgr, s), b, k, NoSession)
    OBVIOUS
  <1>5. /\ Whole(m) /\ Frame(mgr, m, k) /\ m.slot[k].owner = b /\ m.slot[k].ses = NoSession
        /\ k \notin IdleKeys(m)
    BY <1>2, <1>3, <1>4, GoneWhole
  <1>6. late' \subseteq late \cup {mgr.slot[k].ses}
    BY <1>2 DEF NotVouched, CallOver, GiveUp
  <1>7. CASE RoomFor(b, m, [task[b] EXCEPT !.paid = TRUE])
    <2>1. PICK t : t = [task[b] EXCEPT !.paid = TRUE]
      OBVIOUS
    <2>2. t \in Task
      BY <1>2, <2>1 DEF Task
    <2>3. RoomFor(b, m, t)
      BY <1>7, <2>1
    <2>4. /\ Whole(mgr') /\ Frame(m, mgr', k) /\ mgr'.slot[k].ses = NoSession
          /\ Place(mgr', task'[b], k, b)
      BY <1>2, <1>5, <2>2, <2>3, RoomForOwns
    <2>5. Frame(mgr, mgr', k)
      BY <1>5, <2>4, FrameTransitive
    <2>6. QED
      BY <1>1, <1>6, <2>4, <2>5, HolderOwns
  <1>8. CASE ~task[b].fresh /\ Ended(b, Dropped(m, k), NoSession)
    <2>1. PICK d : d = Dropped(m, k)
      OBVIOUS
    <2>2. Whole(d) /\ Frame(m, d, k) /\ d.slot[k] = NoEntry
      BY <1>5, <2>1, DroppedWhole
    <2>3. Raised(b, d)
      BY <1>8, <2>1 DEF Ended
    <2>4. mgr' = d /\ task'[b] = NoTask
      BY <1>2, <1>8, <2>2, <2>3, RaisedOwns
    <2>5. Whole(mgr') /\ Frame(mgr, mgr', k) /\ mgr'.slot[k].ses = NoSession
      BY <1>5, <2>2, <2>4, FrameTransitive DEF NoEntry
    <2>6. Place(mgr', task'[b], k, b)
      BY <2>4, NoTaskFact, AtRestPlace
    <2>7. QED
      BY <1>1, <1>6, <2>5, <2>6, HolderOwns
  <1>9. QED
    BY <1>3, <1>4, <1>7, <1>8 DEF NotVouched

LEMMA RoomJoinedOwns ==
    ASSUME OInv, NEW b \in Borrower, NEW k \in Key, k = KeyOf[b], RoomJoined(b)
    PROVE  Owns(b, k)
  <1>1. task[b].pc = "rooming" /\ task[b].pc \in Holding /\ mgr' = mgr /\ late' = late
    BY DEF RoomJoined, threads, Holding
  <1>2. /\ task \in [Borrower -> Task] /\ task[b] \in Task /\ Whole(mgr)
        /\ mgr.slot[k].owner = b /\ k \notin IdleKeys(mgr) /\ mgr.slot[k].ses = NoSession
    BY <1>1, OInvParts, HolderParts
  <1>3. PICK t \in Task : t = task[b]
    BY <1>2
  <1>4. PICK u : u = Acting(t, "opening", NoSession)
    OBVIOUS
  <1>5. "opening" \in Acquiring \cup {"returning"} /\ NoSession \in Session \cup {NoSession}
    BY DEF Acquiring
  <1>6. u \in Task /\ u.pc = "opening"
    BY <1>4, <1>5, ActingFact
  <1>7. Put(b, u)
    BY <1>3, <1>4 DEF RoomJoined
  <1>8. task'[b] = u
    BY <1>2, <1>6, <1>7, PutFact
  <1>9. Place(mgr', task'[b], k, b)
    BY <1>1, <1>2, <1>6, <1>8 DEF Place
  <1>10. Frame(mgr, mgr', k)
    BY <1>1 DEF Frame
  <1>11. QED
    BY <1>1, <1>2, <1>9, <1>10, HolderOwns

LEMMA OpenedOwns ==
    ASSUME OInv, ~InTask, NEW b \in Borrower, NEW k \in Key, k = KeyOf[b], Opened(b)
    PROVE  Owns(b, k)
  <1>1. task[b].pc = "opening" /\ task[b].pc \in Holding /\ late' = late
    BY DEF Opened, threads, Holding
  <1>2. /\ task \in [Borrower -> Task] /\ task[b] \in Task /\ Whole(mgr)
        /\ mgr.slot[k].owner = b /\ k \notin IdleKeys(mgr) /\ mgr.slot[k].ses = NoSession
    BY <1>1, OInvParts, HolderParts
  <1>3. NewSession \in Session /\ Unused(NewSession)
    BY DEF Opened, NewSession
  <1>4. PICK s \in Session : s = NewSession
    BY <1>3
  <1>5. s # NoSession /\ s \notin late /\ \A l \in Key : mgr.slot[l].ses # s
    BY <1>3, <1>4 DEF Unused, NoSession
  <1>6. PICK m : m = WithSession([mgr EXCEPT !.status[s] = "open"], b, k, s)
    OBVIOUS
  <1>7. /\ Whole(m) /\ Frame(mgr, m, k) /\ m.slot[k].owner = b /\ m.slot[k].ses = s
        /\ k \notin IdleKeys(m)
    BY <1>2, <1>5, <1>6, OpenedWhole
  <1>8. Ended(b, m, s)
    BY <1>4, <1>6 DEF Opened
  <1>9. mgr' = m /\ Using(b, s)
    BY <1>5, <1>8 DEF Ended
  <1>10. Place(mgr', task'[b], k, b)
    BY <1>2, <1>7, <1>9, UsingOwns
  <1>11. mgr'.slot[k].ses \notin late'
    BY <1>1, <1>5, <1>7, <1>9
  <1>12. QED
    BY <1>1, <1>2, <1>7, <1>9, <1>10, <1>11 DEF Owns

\* acquire raises with a manager in which b's entry is gone, or shelved.
LEMMA RaisedKeepsOwning ==
    ASSUME OInv, NEW b \in Borrower, NEW k \in Key, k = KeyOf[b], task[b].pc \in Holding,
           NEW m, Whole(m), Frame(mgr, m, k), Raised(b, m), Shelved(m, k),
           late' \subseteq late \cup {mgr.slot[k].ses}
    PROVE  Owns(b, k)
  <1>1. task \in [Borrower -> Task] /\ Whole(mgr)
    BY OInvParts
  <1>2. /\ Whole(mgr') /\ Frame(m, mgr', k) /\ task'[b] = NoTask
        /\ mgr' = m \/ (mgr'.slot[k] = NoEntry /\ k \notin IdleKeys(mgr'))
    BY <1>1, RaisedOwns
  <1>3. Frame(mgr, mgr', k)
    BY <1>2, FrameTransitive
  <1>4. Shelved(mgr', k)
    BY <1>2 DEF Shelved, NoEntry
  <1>5. Place(mgr', task'[b], k, b)
    BY <1>2, NoTaskFact, AtRestPlace
  <1>6. QED
    BY <1>2, <1>3, <1>4, <1>5, HolderOwns

LEMMA OpenFailsOwns ==
    ASSUME OInv, ~InTask, NEW b \in Borrower, NEW k \in Key, k = KeyOf[b], OpenFails(b)
    PROVE  Owns(b, k)
  <1>1. task[b].pc = "opening" /\ task[b].pc \in Holding /\ late' = late
    BY DEF OpenFails, threads, Holding
  <1>2. Whole(mgr) /\ mgr.slot[k].ses = NoSession
    BY <1>1, OInvParts, HolderParts
  <1>3. PICK d : d = Dropped(mgr, k)
    OBVIOUS
  <1>4. Whole(d) /\ Frame(mgr, d, k) /\ Shelved(d, k)
    BY <1>2, <1>3, DroppedWhole DEF Shelved, NoEntry
  <1>5. Raised(b, d)
    BY <1>3 DEF OpenFails, Ended
  <1>6. QED
    BY <1>1, <1>4, <1>5, RaisedKeepsOwning

LEMMA AbandonOwns ==
    ASSUME OInv, ~InTask, NEW b \in Borrower, NEW k \in Key, k = KeyOf[b], Abandon(b)
    PROVE  Owns(b, k)
  <1>1. /\ task \in [Borrower -> Task] /\ Whole(mgr) /\ Sound(mgr)
        /\ task[b].pc \notin {"starting", "stranded"} /\ Place(mgr, task[b], k, b)
    BY OInvParts
  <1>2. PICK m : m = [mgr EXCEPT !.waiters = @ \ {b}]
    OBVIOUS
  <1>3. Sound(m) /\ m.slot = mgr.slot /\ m.status = mgr.status /\ IdleKeys(m) = IdleKeys(mgr)
    BY <1>1, <1>2, GaveUpWaiting
  <1>4. Whole(m) /\ Frame(mgr, m, k)
    BY <1>1, <1>3, WaitersWhole
  <1>5. CASE task[b].pc = "waiting"
    <2>1. Raised(b, m) /\ late' = late /\ ~task[b].fresh
      BY <1>1, <1>2, <1>5 DEF Abandon, Ended, threads, Place
    <2>2. mgr' = m /\ task'[b] = NoTask
      BY <1>1, <1>4, <2>1, RaisedOwns
    <2>3. SameAt(mgr, mgr', k)
      BY <1>3, <2>2 DEF SameAt
    <2>4. mgr'.slot[k].ses \in late' => Shelved(mgr', k)
      BY <1>3, <2>1, <2>2, OInvParts DEF Shelved
    <2>5. Place(mgr', task'[b], k, b)
      BY <2>2, NoTaskFact, AtRestPlace
    <2>6. QED
      BY <1>4, <2>1, <2>2, <2>3, <2>4, <2>5 DEF Owns
  <1>6. CASE task[b].pc \in {"checking", "rooming"}
    <2>1. task[b].pc \in Holding
      BY <1>6 DEF Holding
    <2>2. /\ mgr.slot[k].owner = b /\ k \notin IdleKeys(mgr)
          /\ task[b].pc = "checking" => mgr.slot[k].ses = task[b].held
      BY <2>1, HolderParts
    <2>3. PICK n : n = Left(m, b, k)
      OBVIOUS
    <2>4. Whole(n) /\ Frame(m, n, k) /\ n.slot[k].owner = NoOne /\ (k \in IdleKeys(n) => k \in IdleKeys(m))
      BY <1>3, <1>4, <2>2, <2>3, LeftWhole
    <2>5. Shelved(n, k) /\ Frame(mgr, n, k)
      BY <1>3, <1>4, <2>2, <2>4, FrameTransitive DEF Shelved
    <2>6. Raised(b, n)
      BY <1>2, <1>6, <2>3 DEF Abandon, Ended
    <2>7. late' \subseteq late \cup {mgr.slot[k].ses}
      BY <1>6, <2>2 DEF Abandon, GiveUp, threads
    <2>8. QED
      BY <2>1, <2>4, <2>5, <2>6, <2>7, RaisedKeepsOwning
  <1>7. CASE task[b].pc = "opening"
    <2>1. task[b].pc \in Holding /\ late' = late
      BY <1>7 DEF Holding, Abandon
    <2>2. mgr.slot[k].ses = NoSession
      BY <1>7, <2>1, HolderParts
    <2>3. PICK d : d = Dropped(m, k)
      OBVIOUS
    <2>4. Whole(d) /\ Frame(m, d, k) /\ d.slot[k] = NoEntry /\ k \notin IdleKeys(d)
      BY <1>3, <1>4, <2>2, <2>3, DroppedWhole
    <2>5. Shelved(d, k) /\ Frame(mgr, d, k)
      BY <1>4, <2>4, FrameTransitive DEF Shelved, NoEntry
    <2>6. Raised(b, d)
      BY <1>2, <1>7, <2>3 DEF Abandon, Ended
    <2>7. QED
      BY <2>1, <2>4, <2>5, <2>6, RaisedKeepsOwning
  <1>8. QED
    BY <1>1, <1>5, <1>6, <1>7 DEF Abandon

\* The attempt of a borrower with a session ends: its entry goes, or is cleaned.
LEMMA ReleaseKeepsOwning ==
    ASSUME OInv, NEW b \in Borrower, NEW k \in Key, k = KeyOf[b],
           task[b].pc = "using", NEW discard, Release(b, mgr, discard),
           late' = late \/ (discard /\ late' \subseteq late \cup {mgr.slot[k].ses})
    PROVE  Owns(b, k)
  <1>1. task \in [Borrower -> Task] /\ Whole(mgr) /\ task[b].pc \in Holding
    BY OInvParts DEF Holding
  <1>2. mgr.slot[k].owner = b /\ k \notin IdleKeys(mgr)
    BY <1>1, HolderParts
  <1>3. /\ Whole(mgr') /\ Frame(mgr, mgr', k)
        /\ \/ task'[b] = NoTask /\ mgr'.slot[k] = NoEntry /\ k \notin IdleKeys(mgr')
           \/ /\ ~discard /\ mgr' = mgr
              /\ task'[b].pc = "cleaning" /\ task'[b].held = mgr.slot[k].ses
    BY <1>1, ReleaseOwns
  <1>4. CASE task'[b] = NoTask /\ mgr'.slot[k] = NoEntry /\ k \notin IdleKeys(mgr')
    <2>1. Place(mgr', task'[b], k, b)
      BY <1>4, NoTaskFact, AtRestPlace
    <2>2. Shelved(mgr', k)
      BY <1>4 DEF Shelved, NoEntry
    <2>3. QED
      BY <1>1, <1>3, <2>1, <2>2, HolderOwns
  <1>5. CASE ~discard /\ mgr' = mgr /\ task'[b].pc = "cleaning" /\ task'[b].held = mgr.slot[k].ses
    <2>1. Place(mgr', task'[b], k, b)
      BY <1>2, <1>5 DEF Place
    <2>2. late' = late
      BY <1>5
    <2>3. QED
      BY <1>1, <1>3, <1>5, <2>1, <2>2, HolderOwns
  <1>6. QED
    BY <1>3, <1>4, <1>5

LEMMA CommandDoneOwns ==
    ASSUME OInv, NEW b \in Borrower, NEW k \in Key, k = KeyOf[b], CommandDone(b)
    PROVE  Owns(b, k)
  <1>1. task[b].pc = "using" /\ task[b].pc \in Holding /\ late' = late
    BY DEF CommandDone, threads, Holding
  <1>2. task \in [Borrower -> Task] /\ task[b] \in Task /\ Whole(mgr)
    BY OInvParts
  <1>3. CASE Release(b, mgr, FALSE)
    BY <1>1, <1>3, ReleaseKeepsOwning
  <1>4. CASE task[b].left > 1 /\ Put(b, [task[b] EXCEPT !.left = @ - 1]) /\ mgr' = mgr
    <2>1. PICK u : u = [task[b] EXCEPT !.left = task[b].left - 1]
      OBVIOUS
    <2>2. task[b].left - 1 \in 0..Commands
      BY <1>2, <1>4, TaskParts
    <2>3. u \in Task /\ u.pc = "using" /\ u.held = task[b].held
      BY <1>1, <1>2, <2>1, <2>2 DEF Task
    <2>4. task'[b] = u
      BY <1>2, <1>4, <2>1, <2>3, PutFact
    <2>5. mgr.slot[k].owner = b /\ k \notin IdleKeys(mgr) /\ mgr.slot[k].ses = task[b].held
      BY <1>1, HolderParts
    <2>6. Place(mgr', task'[b], k, b)
      BY <1>4, <2>3, <2>4, <2>5 DEF Place
    <2>7. Frame(mgr, mgr', k)
      BY <1>4 DEF Frame
    <2>8. QED
      BY <1>1, <1>2, <1>4, <2>6, <2>7, HolderOwns
  <1>5. QED
    BY <1>3, <1>4 DEF CommandDone

LEMMA InDoubtOwns ==
    ASSUME OInv, NEW b \in Borrower, NEW k \in Key, k = KeyOf[b], NEW over, InDoubt(b, over)
    PROVE  Owns(b, k)
  <1>1. task[b].pc = "using" /\ task[b].pc \in Holding /\ Release(b, mgr, TRUE)
    BY DEF InDoubt, Holding
  <1>2. mgr.slot[k].ses = task[b].held
    BY <1>1, HolderParts
  <1>3. late' \subseteq late \cup {mgr.slot[k].ses}
    BY <1>2 DEF InDoubt, CallOver, GiveUp
  <1>4. PICK discard : discard = TRUE
    OBVIOUS
  <1>5. QED
    BY <1>1, <1>3, <1>4, ReleaseKeepsOwning

LEMMA FreshOwns ==
    ASSUME OInv, ~InTask, NEW b \in Borrower, NEW k \in Key, k = KeyOf[b], NEW over, Fresh(b, over)
    PROVE  Owns(b, k)
  <1>1. task[b].pc = "using" /\ task[b].pc \in Holding /\ task[b].left > 1
    BY DEF Fresh, Holding
  <1>2. task \in [Borrower -> Task] /\ task[b] \in Task /\ Whole(mgr)
    BY OInvParts
  <1>3. mgr.slot[k].ses = task[b].held
    BY <1>1, HolderParts
  <1>4. late' \subseteq late \cup {mgr.slot[k].ses}
    BY <1>3 DEF Fresh, CallOver, GiveUp
  <1>5. PICK m : m = Discarded(mgr, k)
    OBVIOUS
  <1>6. Whole(m) /\ Frame(mgr, m, k) /\ m.slot[k] = NoEntry /\ k \notin IdleKeys(m)
    BY <1>2, <1>5, DiscardedWhole
  <1>7. CASE Release(b, m, TRUE)
    <2>1. PICK discard : discard = TRUE
      OBVIOUS
    <2>2. Release(b, m, discard)
      BY <1>7, <2>1
    <2>3. /\ Whole(mgr') /\ Frame(m, mgr', k)
          /\ task'[b] = NoTask /\ mgr'.slot[k] = NoEntry
      BY <1>2, <1>6, <2>1, <2>2, ReleaseOwns
    <2>4. Frame(mgr, mgr', k)
      BY <1>6, <2>3, FrameTransitive
    <2>5. Place(mgr', task'[b], k, b) /\ mgr'.slot[k].ses = NoSession
      BY <2>3, NoTaskFact, AtRestPlace DEF NoEntry
    <2>6. QED
      BY <1>1, <1>4, <2>3, <2>4, <2>5, HolderOwns
  <1>8. CASE Call(b, m, [task[b] EXCEPT !.fresh = TRUE, !.paid = TRUE, !.left = @ - 1])
    <2>1. PICK t : t = [task[b] EXCEPT !.fresh = TRUE, !.paid = TRUE, !.left = task[b].left - 1]
      OBVIOUS
    <2>2. task[b].left - 1 \in 0..Commands
      BY <1>1, <1>2, TaskParts
    <2>3. t \in Task
      BY <1>2, <2>1, <2>2 DEF Task
    <2>4. Enter(b, m, t)
      BY <1>8, <2>1 DEF Call
    <2>5. ~m.slot[k].there /\ m.slot[k].ses = NoSession
      BY <1>6 DEF NoEntry
    <2>6. /\ Whole(mgr') /\ Frame(m, mgr', k)
          /\ \/ SameAt(m, mgr', k)
             \/ mgr'.slot[k].ses = NoSession
             \/ k \in IdleKeys(m) /\ mgr'.slot[k].ses = m.slot[k].ses
          /\ Place(mgr', task'[b], k, b)
      BY <1>2, <1>6, <2>3, <2>4, <2>5, EnterOwns
    <2>7. Frame(mgr, mgr', k) /\ mgr'.slot[k].ses = NoSession
      BY <1>6, <2>5, <2>6, FrameTransitive DEF SameAt
    <2>8. QED
      BY <1>1, <1>4, <2>6, <2>7, HolderOwns
  <1>9. QED
    BY <1>5, <1>7, <1>8 DEF Fresh

LEMMA CleanOwns ==
    ASSUME OInv, NEW b \in Borrower, NEW k \in Key, k = KeyOf[b],
           \/ Cleaned(b) \/ NotCleaned(b, TRUE) \/ NotCleaned(b, FALSE) \/ CleaningCancelled(b)
    PROVE  Owns(b, k)
  <1>1. task[b].pc = "cleaning" /\ task[b].pc \in Holding
    BY DEF Cleaned, NotCleaned, CleaningCancelled, Holding
  <1>2. /\ task \in [Borrower -> Task] /\ Whole(mgr)
        /\ mgr.slot[k].owner = b /\ k \notin IdleKeys(mgr) /\ mgr.slot[k].ses = task[b].held
        /\ task[b].held \in Session
    BY <1>1, OInvParts, HolderParts
  <1>3. PICK s \in Session : s = task[b].held
    BY <1>2
  <1>4. task'[b] = NoTask
    BY <1>2, NoTaskFact, PutFact DEF Cleaned, NotCleaned, CleaningCancelled
  <1>5. Place(mgr', task'[b], k, b)
    BY <1>4, NoTaskFact, AtRestPlace
  <1>6. CASE Cleaned(b)
    <2>1. PICK o : o = Offered(mgr, k, s)
      OBVIOUS
    <2>2. Whole(o) /\ Frame(mgr, o, k) /\ o.slot[k].ses = s
      BY <1>2, <1>3, <2>1, OfferedWhole
    <2>3. mgr' = Trimmed(o) /\ late' = late
      BY <1>3, <1>6, <2>1 DEF Cleaned, threads
    <2>4. /\ Whole(mgr') /\ Frame(o, mgr', k)
          /\ mgr'.slot[k] = o.slot[k] \/ mgr'.slot[k] = NoEntry
      BY <2>2, <2>3, TrimmedWhole
    <2>5. Frame(mgr, mgr', k) /\ mgr'.slot[k].ses \in {s, NoSession}
      BY <2>2, <2>4, FrameTransitive DEF NoEntry
    <2>6. QED
      BY <1>1, <1>2, <1>3, <1>5, <2>3, <2>4, <2>5, HolderOwns
  <1>7. CASE NotCleaned(b, TRUE) \/ NotCleaned(b, FALSE)
    <2>1. mgr' = Torn(Dropped(mgr, k), s)
      BY <1>3, <1>7 DEF NotCleaned
    <2>2. mgr' = Discarded(mgr, k)
      BY <1>2, <1>3, <2>1 DEF Discarded, NoSession
    <2>3. Whole(mgr') /\ Frame(mgr, mgr', k) /\ mgr'.slot[k] = NoEntry
      BY <1>2, <2>2, DiscardedWhole
    <2>4. mgr'.slot[k].ses = NoSession
      BY <2>3 DEF NoEntry
    <2>5. late' \subseteq late \cup {mgr.slot[k].ses}
      BY <1>2, <1>7 DEF NotCleaned, CallOver, GiveUp
    <2>6. QED
      BY <1>1, <1>5, <2>3, <2>4, <2>5, HolderOwns
  <1>8. CASE CleaningCancelled(b)
    <2>1. mgr' = Left(mgr, b, k)
      BY <1>8 DEF CleaningCancelled
    <2>2. /\ Whole(mgr') /\ Frame(mgr, mgr', k) /\ mgr'.slot[k].owner = NoOne
          /\ k \in IdleKeys(mgr') => k \in IdleKeys(mgr)
      BY <1>2, <2>1, LeftWhole
    <2>3. Shelved(mgr', k)
      BY <1>2, <2>2 DEF Shelved
    <2>4. late' \subseteq late \cup {mgr.slot[k].ses}
      BY <1>2, <1>8 DEF CleaningCancelled, GiveUp
    <2>5. QED
      BY <1>1, <1>5, <2>2, <2>3, <2>4, HolderOwns
  <1>9. QED
    BY <1>6, <1>7, <1>8

-----------------------------------------------------------------------------
(* Every step                                                              *)

LEMMA OthersStay ==
    ASSUME task \in [Borrower -> Task], NEW b \in Borrower,
           Follows(b, mgr) \/ Waits(b, mgr)
    PROVE  \A c \in Borrower \ {b} : task'[c] = task[c]
  BY PutFact DEF Follows, Waits

\* A step of one borrower.
Step(b) ==
    \/ Begin(b) \/ Resume(b)
    \/ CallReturns(b) \/ BudgetOver(b) \/ Abandon(b) \/ CleaningCancelled(b)

LEMMA StepOwns ==
    ASSUME OInv, ~InTask, NEW b \in Borrower, NEW k \in Key, k = KeyOf[b], Step(b)
    PROVE  Owns(b, k) /\ \A c \in Borrower \ {b} : task'[c] = task[c]
  <1>1. task \in [Borrower -> Task] /\ GInv
    BY OInvParts DEF OInv
  <1>2. CASE Begin(b)
    BY <1>1, <1>2, BeginOwns, BeginFollows, OthersStay
  <1>3. CASE Resume(b)
    BY <1>1, <1>3, ResumeOwns, ResumeFollows, OthersStay
  <1>4. CASE Abandon(b)
    BY <1>1, <1>4, AbandonOwns, AbandonFollows, OthersStay
  <1>5. CASE \/ Vouched(b) \/ NotVouched(b, TRUE) \/ NotVouched(b, FALSE) \/ RoomJoined(b)
             \/ Opened(b) \/ OpenFails(b)
    <2>1. Owns(b, k)
      <3>1. CASE NotVouched(b, TRUE) \/ NotVouched(b, FALSE)
        <4>1. PICK over \in BOOLEAN : NotVouched(b, over)
          BY <3>1
        <4>2. QED
          BY <4>1, NotVouchedOwns
      <3>2. CASE Vouched(b) \/ RoomJoined(b) \/ Opened(b) \/ OpenFails(b)
        BY <3>2, VouchedOwns, RoomJoinedOwns, OpenedOwns, OpenFailsOwns
      <3>3. QED
        BY <1>5, <3>1, <3>2
    <2>2. Follows(b, mgr)
      BY <1>1, <1>5, AcquireFollows
    <2>3. QED
      BY <1>1, <2>1, <2>2, OthersStay
  <1>6. CASE \/ CommandDone(b) \/ InDoubt(b, TRUE) \/ InDoubt(b, FALSE)
             \/ Fresh(b, TRUE) \/ Fresh(b, FALSE)
    <2>1. Owns(b, k)
      <3>1. CASE InDoubt(b, TRUE) \/ InDoubt(b, FALSE)
        <4>1. PICK over \in BOOLEAN : InDoubt(b, over)
          BY <3>1
        <4>2. QED
          BY <4>1, InDoubtOwns
      <3>2. CASE Fresh(b, TRUE) \/ Fresh(b, FALSE)
        <4>1. PICK over \in BOOLEAN : Fresh(b, over)
          BY <3>2
        <4>2. QED
          BY <4>1, FreshOwns
      <3>3. CASE CommandDone(b)
        BY <3>3, CommandDoneOwns
      <3>4. QED
        BY <1>6, <3>1, <3>2, <3>3
    <2>2. Follows(b, mgr) \/ Waits(b, mgr)
      BY <1>1, <1>6, UseFollows
    <2>3. QED
      BY <1>1, <2>1, <2>2, OthersStay
  <1>7. CASE Cleaned(b) \/ NotCleaned(b, TRUE) \/ NotCleaned(b, FALSE) \/ CleaningCancelled(b)
    BY <1>1, <1>7, CleanOwns, CleanFollows, OthersStay
  <1>8. QED
    BY <1>2, <1>3, <1>4, <1>5, <1>6, <1>7 DEF Step, CallReturns, BudgetOver

\* A step beside the borrowers that leaves the entries as they are.
LEMMA BesideOwns ==
    ASSUME OInv, GInv', task' = task, mgr'.slot = mgr.slot, mgr'.idle = mgr.idle,
           \A s \in Session : \/ mgr'.status[s] = mgr.status[s]
                              \/ mgr.status[s] = "closing" /\ mgr'.status[s] = "none",
           late' \subseteq late
    PROVE  OInv'
  <1>1. IdleKeys(mgr') = IdleKeys(mgr)
    BY DEF IdleKeys
  <1>2. Sound(mgr) /\ Entries(mgr) /\ \A k \in Key : mgr.slot[k].ses \in Session \cup {NoSession}
    BY SoundParts DEF OInv, GInv
  <1>3. ASSUME NEW k \in Key, mgr.slot[k].ses # NoSession PROVE mgr'.status[mgr.slot[k].ses] = "open"
    <2>1. mgr.status[mgr.slot[k].ses] = "open" /\ mgr.slot[k].ses \in Session
      BY <1>2, <1>3 DEF Entries
    <2>2. QED
      BY <2>1
  <1>4. \A s \in Session : mgr'.status[s] = "open" => mgr.status[s] = "open"
    OBVIOUS
  <1>5. Entries(mgr)'
    BY <1>2, <1>3, <1>4 DEF Entries
  <1>6. LateShelved'
    <2>1. ASSUME NEW k \in Key, mgr.slot[k].ses \in late' PROVE Shelved(mgr, k)
      BY <2>1 DEF OInv, LateShelved
    <2>2. QED
      BY <1>1, <2>1 DEF LateShelved, Shelved, IdleKeys
  <1>7. (\A b \in Borrower : Place(mgr, task[b], KeyOf[b], b))'
    BY <1>1 DEF OInv, Place, IdleKeys
  <1>8. QED
    BY <1>5, <1>6, <1>7 DEF OInv

\* The tables are emptied while nobody borrows.
LEMMA EmptiedOwns ==
    ASSUME OInv, GInv', task' = task, late' = late, NobodyBorrows,
           mgr' = [slot |-> [k \in Key |-> NoEntry], idle |-> <<>>, waiters |-> {},
                   status |-> [s \in Session |-> IF s \in {mgr.slot[k].ses : k \in Key} \ {NoSession}
                                                 THEN "closing" ELSE mgr.status[s]],
                   counted |-> {}, listed |-> FALSE]
    PROVE  OInv'
  <1> DEFINE gone == {mgr.slot[k].ses : k \in Key} \ {NoSession}
             status == [s \in Session |-> IF s \in gone THEN "closing" ELSE mgr.status[s]]
  <1>1. /\ Sound(mgr) /\ Entries(mgr) /\ \A k \in Key : mgr.slot[k].ses \in Session \cup {NoSession}
        /\ late' = late /\ NoSession \notin late /\ task' = task
        /\ \A b \in Borrower : task[b].pc = "idle"
    BY SoundParts DEF OInv, GInv, NobodyBorrows, TypeOK, NoSession
  <1>2. /\ mgr' = [slot |-> [k \in Key |-> NoEntry], idle |-> <<>>, waiters |-> {},
                   status |-> status, counted |-> {}, listed |-> FALSE]
    OBVIOUS
  <1>3. \A k \in Key : mgr'.slot[k].ses = NoSession
    BY <1>2 DEF NoEntry
  <1>4. ASSUME NEW s \in Session PROVE mgr'.status[s] # "open"
    <2>1. mgr'.status[s] = IF s \in gone THEN "closing" ELSE mgr.status[s]
      BY <1>2
    <2>2. CASE mgr.status[s] = "open"
      <3>1. PICK k \in Key : mgr.slot[k].ses = s
        BY <1>1, <2>2 DEF Entries
      <3>2. s # NoSession
        BY DEF NoSession
      <3>3. s \in gone
        BY <3>1, <3>2
      <3>4. QED
        BY <2>1, <3>3
    <2>3. CASE mgr.status[s] # "open"
      BY <2>1, <2>3
    <2>4. QED
      BY <2>2, <2>3
  <1>5. Entries(mgr)'
    BY <1>3, <1>4 DEF Entries
  <1>6. LateShelved'
    BY <1>1, <1>3 DEF LateShelved
  <1>7. (\A b \in Borrower : Place(mgr, task[b], KeyOf[b], b))'
    BY <1>1 DEF Place, Holding
  <1>8. QED
    BY <1>5, <1>6, <1>7 DEF OInv

LEMMA OInvStep ==
    ASSUME ~InTask, OInv, [Next]_vars
    PROVE  OInv'
  <1>1. GInv'
    BY GInvStep DEF OInv
  <1>2. ASSUME NEW b \in Borrower, Step(b) PROVE OInv'
    <2>1. PICK k \in Key : k = KeyOf[b]
      OBVIOUS
    <2>2. Owns(b, k) /\ \A c \in Borrower \ {b} : task'[c] = task[c]
      BY <1>2, <2>1, StepOwns
    <2>3. QED
      BY <1>1, <2>1, <2>2, OwnsKeeps
  <1>3. CASE Borrows \/ Tasks
    <2>1. PICK b \in Borrower : Step(b)
      BY <1>3 DEF Borrows, Tasks, Step
    <2>2. QED
      BY <1>2, <2>1
  <1>4. CASE LateOpen \/ RunEnd \/ UNCHANGED vars
    <2>1. /\ task' = task /\ mgr'.slot = mgr.slot /\ mgr'.idle = mgr.idle
          /\ mgr'.status = mgr.status /\ late' = late
      <3>1. CASE RunEnd
        BY <3>1 DEF RunEnd, threads, OInv, GInv, TypeOK, Manager
      <3>2. CASE LateOpen \/ UNCHANGED vars
        BY <3>2 DEF LateOpen, vars
      <3>3. QED
        BY <1>4, <3>1, <3>2
    <2>2. QED
      BY <1>1, <2>1, BesideOwns
  <1>5. ASSUME NEW s \in Session, LateReturns(s) PROVE OInv'
    <2>1. task' = task /\ mgr' = mgr /\ late' \subseteq late
      BY <1>5 DEF LateReturns
    <2>2. QED
      BY <1>1, <2>1, BesideOwns
  <1>6. ASSUME NEW s \in Session, CloseDone(s) PROVE OInv'
    <2>1. /\ mgr \in Manager /\ mgr.status[s] = "closing"
          /\ mgr' = [mgr EXCEPT !.status[s] = "none", !.counted = mgr.counted \ {s}]
      BY <1>6 DEF CloseDone, OInv, GInv, TypeOK
    <2>2. /\ task' = task /\ mgr'.slot = mgr.slot /\ mgr'.idle = mgr.idle /\ late' = late
          /\ mgr'.status = [mgr.status EXCEPT ![s] = "none"]
      BY <1>6, <2>1 DEF CloseDone, threads, Manager
    <2>3. mgr.status \in [Session -> {"none", "open", "closing"}]
      BY <2>1 DEF Manager
    <2>4. QED
      BY <1>1, <2>1, <2>2, <2>3, BesideOwns
  <1>7. CASE CloseAll
    BY <1>1, <1>7, EmptiedOwns DEF CloseAll, threads
  <1>8. QED
    BY <1>3, <1>4, <1>5, <1>6, <1>7 DEF Next, Threads

LEMMA OInvInit ==
    ASSUME Init
    PROVE  OInv
  <1>1. GInv
    BY GInvInit
  <1>2. \A k \in Key : mgr.slot[k].ses = NoSession
    BY DEF Init, NoEntry
  <1>3. Entries(mgr)
    BY <1>2 DEF Entries, Init
  <1>4. \A b \in Borrower : task[b].pc = "idle"
    BY DEF Init, NoTask
  <1>5. \A b \in Borrower : Place(mgr, task[b], KeyOf[b], b)
    BY <1>4 DEF Place, Holding
  <1>6. LateShelved
    BY DEF LateShelved, Init
  <1>7. QED
    BY <1>1, <1>3, <1>5, <1>6 DEF OInv

LEMMA OInvAlways ==
    ASSUME ~InTask
    PROVE  Spec => []OInv
  <1>1. Init => OInv
    BY OInvInit
  <1>2. OInv /\ [Next]_vars => OInv'
    BY OInvStep
  <1>3. QED
    BY <1>1, <1>2, PTL DEF Spec

-----------------------------------------------------------------------------
(* What it gives                                                           *)

LEMMA OInvOwns == OInv => BorrowOwns
  <1> SUFFICES ASSUME OInv, NEW b \in Borrower, task[b].pc \in {"using", "cleaning"}
               PROVE  /\ mgr.slot[KeyOf[b]] = [owner |-> b, ses |-> task[b].held, there |-> TRUE]
                      /\ InUse(mgr, KeyOf[b])
                      /\ mgr.status[task[b].held] = "open"
    BY DEF BorrowOwns
  <1>1. PICK k \in Key : k = KeyOf[b]
    OBVIOUS
  <1>2. /\ mgr.slot[k].owner = b /\ b # NoOne /\ k \notin IdleKeys(mgr)
        /\ mgr.slot[k].ses = task[b].held /\ task[b].held \in Session
    BY <1>1, HolderParts DEF Holding
  <1>3. mgr.slot[k] \in Entry /\ mgr.slot[k] # NoEntry
    BY <1>2, SoundParts DEF OInv, GInv, NoEntry
  <1>4. mgr.slot[k] \in [owner : Borrower \cup {NoOne}, ses : Session \cup {NoSession}, there : {TRUE}]
    BY <1>3 DEF Entry
  <1>5. mgr.slot[k] = [owner |-> b, ses |-> task[b].held, there |-> TRUE]
    BY <1>2, <1>4
  <1>6. mgr.status[task[b].held] = "open"
    BY <1>2 DEF OInv, Entries, NoSession
  <1>7. QED
    BY <1>1, <1>2, <1>5, <1>6 DEF InUse

LEMMA OInvDoubt == OInv => NeverInDoubt
  <1> SUFFICES ASSUME OInv PROVE NeverInDoubt
    OBVIOUS
  <1>1. ASSUME NEW b \in Borrower, task[b].pc \in {"checking", "using", "cleaning"}
        PROVE  task[b].held \notin late
    <2>1. PICK k \in Key : k = KeyOf[b]
      OBVIOUS
    <2>2. QED
      BY <1>1, <2>1, HolderParts DEF Holding
  <1>2. ASSUME NEW k \in IdleKeys(mgr)
        PROVE  /\ mgr.slot[k].there
               /\ mgr.status[mgr.slot[k].ses] = "open"
               /\ mgr.slot[k].ses \notin late
    <2>1. k \in Key /\ mgr.slot[k].there /\ mgr.slot[k].ses \in Session
      BY SoundParts DEF OInv, GInv
    <2>2. mgr.status[mgr.slot[k].ses] = "open"
      BY <2>1 DEF OInv, Entries, NoSession
    <2>3. mgr.slot[k].ses \notin late
      BY <1>2, <2>1 DEF OInv, LateShelved, Shelved
    <2>4. QED
      BY <2>1, <2>2, <2>3
  <1>3. QED
    BY <1>1, <1>2 DEF NeverInDoubt

LEMMA OInvAlone == OInv => OneBorrowPerKey
  <1> SUFFICES ASSUME OInv, NEW b \in Borrower, NEW c \in Borrower, b # c, KeyOf[b] = KeyOf[c],
                      task[b].pc \in Holding, task[c].pc \in Holding
               PROVE  FALSE
    BY DEF OneBorrowPerKey, Holding
  <1>1. PICK k \in Key : k = KeyOf[b] /\ k = KeyOf[c]
    OBVIOUS
  <1>2. mgr.slot[k].owner = b
    BY <1>1, HolderParts
  <1>3. mgr.slot[k].owner = c
    BY <1>1, HolderParts
  <1>4. QED
    BY <1>2, <1>3

LEMMA OInvKept == OInv => NothingDropped
  BY DEF OInv, Entries, NothingDropped

\* A borrow owns its session from acquire to the end of its cleanup, where
\* wait_for runs acquire in the caller's task: the entry is the borrower's own,
\* in use, and nobody has begun to close its session.
THEOREM SessionOwned == ~InTask => (Spec => []BorrowOwns)
  <1> SUFFICES ASSUME ~InTask PROVE Spec => []BorrowOwns
    OBVIOUS
  <1>1. Spec => []OInv
    BY OInvAlways
  <1>2. OInv => BorrowOwns
    BY OInvOwns
  <1>3. QED
    BY <1>1, <1>2, PTL

\* No session on which an abandoned call still runs is idle, checked or in use,
\* where wait_for runs acquire in the caller's task.
THEOREM DoubtNotOffered == ~InTask => (Spec => []NeverInDoubt)
  <1> SUFFICES ASSUME ~InTask PROVE Spec => []NeverInDoubt
    OBVIOUS
  <1>1. Spec => []OInv
    BY OInvAlways
  <1>2. OInv => NeverInDoubt
    BY OInvDoubt
  <1>3. QED
    BY <1>1, <1>2, PTL

\* Two tasks are never past the wait for one key, where wait_for runs acquire
\* in the caller's task.
THEOREM BorrowedOnce == ~InTask => (Spec => []OneBorrowPerKey)
  <1> SUFFICES ASSUME ~InTask PROVE Spec => []OneBorrowPerKey
    OBVIOUS
  <1>1. Spec => []OInv
    BY OInvAlways
  <1>2. OInv => OneBorrowPerKey
    BY OInvAlone
  <1>3. QED
    BY <1>1, <1>2, PTL

\* An open session leaves its entry only into a close or a discard, where
\* wait_for runs acquire in the caller's task.
THEOREM SessionsAccounted == ~InTask => (Spec => []NothingDropped)
  <1> SUFFICES ASSUME ~InTask PROVE Spec => []NothingDropped
    OBVIOUS
  <1>1. Spec => []OInv
    BY OInvAlways
  <1>2. OInv => NothingDropped
    BY OInvKept
  <1>3. QED
    BY <1>1, <1>2, PTL
=============================================================================
