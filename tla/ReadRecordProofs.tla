---------------------------- MODULE ReadRecordProofs ------------------------
(***************************************************************************)
(* What the servers remember of reading, for any number of agents, keys,   *)
(* comments, requests, threads, files and faults: theorems about           *)
(* FeedbackInbox, whose inbox loses nothing, and about NodeRecords, whose  *)
(* ledger and receipts stay what was saved and noted.                      *)
(***************************************************************************)
EXTENDS MCReadRecords, TLAPS, SequenceTheorems, FiniteSetTheorems, WellFoundedInduction


-----------------------------------------------------------------------------
(* The inbox: type correctness *)

LEMMA RevisionType == TypeOK => \A t : Revision(t) \subseteq Versions
  BY DEF TypeOK, Revision, HumanNotes, Versions, Note

LEMMA ShownType == TypeOK => \A threads : Shown(threads) \subseteq Versions
  BY RevisionType DEF Shown

LEMMA ThreadType == TypeOK => OpenThreads \subseteq Times
  BY DEF TypeOK, OpenThreads, Note

LEMMA IdleType ==
  Idle \in [left: SUBSET Times, shown: SUBSET Versions, key: Keys \cup {NoKey}]
  BY DEF Idle

\* Nothing but the time, the comments and what slips by changes when someone
\* writes.
LEMMA WriteType ==
  ASSUME TypeOK, NEW t, NEW n \in Note, NEW others \in SUBSET Note,
         Write(t, n, others)
  PROVE  TypeOK'
  <1>1. clock' \in Times /\ notes' \in SUBSET Note
    BY InboxAssumption DEF TypeOK, Write, Times
  <1>2. <<n.id, n.at>> \in Versions
    BY DEF Note, Versions
  <1>3. missed' \in [Agents -> SUBSET Versions]
    BY <1>2 DEF TypeOK, Write, Overtakes
  <1>4. UNCHANGED <<receipts, fetch, faults, given>>
    BY DEF Write
  <1>5. QED
    BY <1>1, <1>3, <1>4 DEF TypeOK

LEMMA PostType ==
  ASSUME TypeOK, NEW by \in {"human", "agent"}, NEW t \in Times, Post(by, t)
  PROVE  TypeOK'
  <1> DEFINE n == [id |-> clock + 1, thread |-> t, by |-> by, at |-> clock + 1]
  <1>1. clock + 1 \in Times
    BY InboxAssumption DEF TypeOK, Post, Write, Times
  <1>2. n \in Note
    BY <1>1 DEF Note
  <1>3. Write(t, n, notes) /\ notes \in SUBSET Note
    BY DEF Post, TypeOK
  <1>4. QED
    BY <1>2, <1>3, WriteType

LEMMA EditType ==
  ASSUME TypeOK, NEW m \in notes, Edit(m)
  PROVE  TypeOK'
  <1> DEFINE n == [m EXCEPT !.at = clock + 1]
  <1>1. clock + 1 \in Times
    BY InboxAssumption DEF TypeOK, Edit, Write, Times
  <1>2. m \in Note
    BY DEF TypeOK
  <1>3. n \in Note
    BY <1>1, <1>2 DEF Note
  <1>4. Write(m.thread, n, notes \ {m}) /\ notes \ {m} \in SUBSET Note
    BY DEF Edit, TypeOK
  <1>5. QED
    BY <1>3, <1>4, WriteType

LEMMA FetchType ==
  ASSUME TypeOK, NEW a \in Agents, NEW unseen, NEW key \in Keys \cup {NoKey},
         Fetch(a, unseen, key)
  PROVE  TypeOK'
  <1> DEFINE threads == IF unseen THEN Unseen(a) ELSE OpenThreads
  <1>1. threads \subseteq Times /\ Shown(threads) \subseteq Versions
    BY ThreadType, ShownType DEF Unseen
  <1>2. fetch' \in [Agents -> [left: SUBSET Times, shown: SUBSET Versions,
                               key: Keys \cup {NoKey}]]
    BY <1>1 DEF TypeOK, Fetch
  <1>3. UNCHANGED <<clock, notes, receipts, faults, given, missed>>
    BY DEF Fetch
  <1>4. QED
    BY <1>2, <1>3 DEF TypeOK

LEMMA ObserveType ==
  ASSUME TypeOK, NEW a \in Agents, Observe(a)
  PROVE  TypeOK'
  <1>1. PICK t \in fetch[a].left :
          /\ fetch' = [fetch EXCEPT ![a].left = fetch[a].left \ {t}]
          /\ receipts' =
                IF t \in OpenThreads /\ ~Recorded(t, a, fetch[a].key)
                THEN receipts \cup {[thread |-> t, actor |-> a, key |-> fetch[a].key,
                                     revision |-> IF fetch[a].key = NoKey
                                                  THEN Revision(t) ELSE {},
                                     at |-> clock]}
                ELSE receipts
          /\ UNCHANGED <<clock, notes, faults, given, missed>>
    BY DEF Observe
  <1>2. t \in Times /\ fetch[a].key \in Keys \cup {NoKey} /\ clock \in Times
    BY DEF TypeOK
  <1>3. Revision(t) \in SUBSET Versions /\ {} \in SUBSET Versions
    BY RevisionType
  <1>4. [thread |-> t, actor |-> a, key |-> fetch[a].key,
         revision |-> IF fetch[a].key = NoKey THEN Revision(t) ELSE {},
         at |-> clock] \in Receipt
    BY <1>2, <1>3 DEF Receipt
  <1>5. receipts' \in SUBSET Receipt
    BY <1>1, <1>4 DEF TypeOK
  <1>6. fetch' \in [Agents -> [left: SUBSET Times, shown: SUBSET Versions,
                               key: Keys \cup {NoKey}]]
    BY <1>1 DEF TypeOK
  <1>7. QED
    BY <1>1, <1>5, <1>6 DEF TypeOK

\* The ways in which a fetch ends.
LEMMA EndType ==
  ASSUME TypeOK, NEW a \in Agents, Answer(a) \/ LoseAnswer(a) \/ Crash
  PROVE  TypeOK'
  <1>1. CASE Answer(a)
    <2>1. given' \in [Agents -> SUBSET Versions]
      BY <1>1 DEF TypeOK, Answer
    <2>2. fetch' \in [Agents -> [left: SUBSET Times, shown: SUBSET Versions,
                                 key: Keys \cup {NoKey}]]
      BY <1>1, IdleType DEF TypeOK, Answer
    <2>3. QED
      BY <1>1, <2>1, <2>2 DEF TypeOK, Answer
  <1>2. CASE LoseAnswer(a)
    <2>1. missed' \in [Agents -> SUBSET Versions] /\ faults' \in 0..MaxFaults
      BY <1>2, InboxAssumption DEF TypeOK, LoseAnswer
    <2>2. fetch' \in [Agents -> [left: SUBSET Times, shown: SUBSET Versions,
                                 key: Keys \cup {NoKey}]]
      BY <1>2, IdleType DEF TypeOK, LoseAnswer
    <2>3. QED
      BY <1>2, <2>1, <2>2 DEF TypeOK, LoseAnswer
  <1>3. CASE Crash
    <2>1. missed' \in [Agents -> SUBSET Versions] /\ faults' \in 0..MaxFaults
      BY <1>3, InboxAssumption DEF TypeOK, Crash
    <2>2. fetch' \in [Agents -> [left: SUBSET Times, shown: SUBSET Versions,
                                 key: Keys \cup {NoKey}]]
      BY <1>3, IdleType DEF TypeOK, Crash
    <2>3. QED
      BY <1>3, <2>1, <2>2 DEF TypeOK, Crash
  <1>4. QED
    BY <1>1, <1>2, <1>3

LEMMA InitType == Init => TypeOK
  BY InboxAssumption, IdleType DEF Init, TypeOK, Times

LEMMA StepType == TypeOK /\ [Next]_vars => TypeOK'
  <1> SUFFICES ASSUME TypeOK, [Next]_vars PROVE TypeOK'
    OBVIOUS
  <1>1. CASE \E by \in {"human", "agent"}, t \in Times : Post(by, t)
    BY <1>1, PostType
  <1>2. CASE \E n \in notes : Edit(n)
    BY <1>2, EditType
  <1>3. CASE \E n \in notes : Delete(n)
    BY <1>3 DEF TypeOK, Delete
  <1>4. CASE \E a \in Agents, key \in Keys \cup {NoKey},
                unseen \in BOOLEAN : Fetch(a, unseen, key)
    BY <1>4, FetchType
  <1>5. CASE \E a \in Agents : Observe(a)
    BY <1>5, ObserveType
  <1>6. CASE \E a \in Agents : Answer(a) \/ LoseAnswer(a)
    BY <1>6, EndType
  <1>7. CASE Crash
    BY <1>7, EndType DEF Crash
  <1>8. CASE UNCHANGED vars
    BY <1>8 DEF TypeOK, vars
  <1>9. QED
    BY <1>1, <1>2, <1>3, <1>4, <1>5, <1>6, <1>7, <1>8 DEF Next

\* Every variable of the inbox holds what its comment says.
THEOREM InboxTypeCorrect == Spec => []TypeOK
  BY InitType, StepType, PTL DEF Spec

-----------------------------------------------------------------------------
(* Receipts answer for what they were written for *)

\* Nothing is from the future, and a receipt is not older than what it is for.
InThePast ==
    /\ \A n \in notes : n.at <= clock
    /\ \A r \in receipts : r.at <= clock
    /\ \A r \in receipts : \A v \in r.revision : v[2] <= r.at

LEMMA PastWrite ==
  ASSUME TypeOK, InThePast, NEW t, NEW n \in Note, NEW others \in SUBSET notes,
         n.at = clock + 1, Write(t, n, others)
  PROVE  InThePast'
  <1>1. clock' = clock + 1 /\ notes' = others \cup {n} /\ receipts' = receipts
    BY DEF Write
  <1>2. clock \in Nat /\ \A m \in notes : m.at \in Nat
    BY DEF TypeOK, Note, Times
  <1>3. \A r \in receipts : r.at \in Nat
    BY DEF TypeOK, Receipt, Times
  <1>4. \A m \in notes' : m.at <= clock'
    BY <1>1, <1>2 DEF InThePast
  <1>5. \A r \in receipts' : r.at <= clock'
    BY <1>1, <1>2, <1>3 DEF InThePast
  <1>6. QED
    BY <1>1, <1>4, <1>5 DEF InThePast

\* The note that a writer adds.
LEMMA Written ==
  /\ TypeOK => \A by \in {"human", "agent"}, t \in Times :
        Post(by, t) =>
           \E n \in Note : /\ n.at = clock + 1 /\ n.thread = t
                           /\ Write(t, n, notes)
  /\ TypeOK => \A m \in notes :
        Edit(m) =>
           \E n \in Note : /\ n.at = clock + 1 /\ n.thread = m.thread
                           /\ Write(m.thread, n, notes \ {m})
  <1>1. ASSUME TypeOK, NEW by \in {"human", "agent"}, NEW t \in Times, Post(by, t)
        PROVE  \E n \in Note : /\ n.at = clock + 1 /\ n.thread = t
                               /\ Write(t, n, notes)
    <2> DEFINE n == [id |-> clock + 1, thread |-> t, by |-> by, at |-> clock + 1]
    <2>1. clock + 1 \in Times
      BY <1>1, InboxAssumption DEF TypeOK, Post, Write, Times
    <2>2. n \in Note /\ n.at = clock + 1 /\ n.thread = t
      BY <2>1 DEF Note
    <2>3. Write(t, n, notes)
      BY <1>1 DEF Post
    <2> HIDE DEF n
    <2>4. QED
      BY <2>2, <2>3
  <1>2. ASSUME TypeOK, NEW m \in notes, Edit(m)
        PROVE  \E n \in Note : /\ n.at = clock + 1 /\ n.thread = m.thread
                               /\ Write(m.thread, n, notes \ {m})
    <2> DEFINE n == [m EXCEPT !.at = clock + 1]
    <2>1. clock + 1 \in Times
      BY <1>2, InboxAssumption DEF TypeOK, Edit, Write, Times
    <2>2. m \in Note
      BY <1>2 DEF TypeOK
    <2>3. n \in Note /\ n.at = clock + 1 /\ n.thread = m.thread
      BY <2>1, <2>2 DEF Note
    <2>4. Write(m.thread, n, notes \ {m})
      BY <1>2 DEF Edit
    <2> HIDE DEF n
    <2>5. QED
      BY <2>3, <2>4
  <1>3. QED
    BY <1>1, <1>2

\* What a receipt that Observe adds is like.
LEMMA Observed ==
  ASSUME NEW a \in Agents, Observe(a)
  PROVE  \E t \in fetch[a].left :
           /\ fetch' = [fetch EXCEPT ![a].left = fetch[a].left \ {t}]
           /\ receipts \subseteq receipts'
           /\ \A r \in receipts' \ receipts :
                 /\ r.thread = t /\ r.actor = a /\ r.at = clock
                 /\ r.revision \subseteq Revision(t)
           /\ UNCHANGED <<clock, notes, faults, given, missed>>
  <1>1. PICK t \in fetch[a].left :
          /\ fetch' = [fetch EXCEPT ![a].left = fetch[a].left \ {t}]
          /\ receipts' =
                IF t \in OpenThreads /\ ~Recorded(t, a, fetch[a].key)
                THEN receipts \cup {[thread |-> t, actor |-> a, key |-> fetch[a].key,
                                     revision |-> IF fetch[a].key = NoKey
                                                  THEN Revision(t) ELSE {},
                                     at |-> clock]}
                ELSE receipts
          /\ UNCHANGED <<clock, notes, faults, given, missed>>
    BY DEF Observe
  <1>2. /\ receipts \subseteq receipts'
        /\ \A r \in receipts' \ receipts :
              /\ r.thread = t /\ r.actor = a /\ r.at = clock
              /\ r.revision \subseteq Revision(t)
    BY <1>1
  <1>3. QED
    BY <1>1, <1>2

LEMMA PastObserve ==
  ASSUME TypeOK, InThePast, NEW a \in Agents, Observe(a)
  PROVE  InThePast'
  <1>1. PICK t \in fetch[a].left :
           /\ receipts \subseteq receipts'
           /\ \A r \in receipts' \ receipts :
                 r.at = clock /\ r.revision \subseteq Revision(t)
           /\ UNCHANGED <<clock, notes>>
    BY Observed
  <1>2. clock <= clock
    BY DEF TypeOK, Times
  <1>3. \A v \in Revision(t) : v[2] <= clock
    BY DEF InThePast, Revision, HumanNotes
  <1>4. QED
    BY <1>1, <1>2, <1>3 DEF InThePast

LEMMA PastStep == TypeOK /\ InThePast /\ [Next]_vars => InThePast'
  <1> SUFFICES ASSUME TypeOK, InThePast, [Next]_vars PROVE InThePast'
    OBVIOUS
  <1>1. CASE \E by \in {"human", "agent"}, t \in Times : Post(by, t)
    BY <1>1, Written, PastWrite
  <1>2. CASE \E n \in notes : Edit(n)
    BY <1>2, Written, PastWrite
  <1>3. CASE \E a \in Agents : Observe(a)
    BY <1>3, PastObserve
  <1>4. CASE UNCHANGED <<clock, receipts>> /\ notes' \subseteq notes
    BY <1>4 DEF InThePast
  <1>5. QED
    BY <1>1, <1>2, <1>3, <1>4
       DEF Next, vars, Delete, Fetch, Answer, LoseAnswer, Crash

LEMMA PastHolds == Spec => [](TypeOK /\ InThePast)
  <1>1. Init => InThePast
    BY DEF Init, InThePast
  <1>2. QED
    BY <1>1, InitType, StepType, PastStep, PTL DEF Spec

\* A receipt that stops a repeated read from being recorded is one that hides the
\* thread: AppendThreadReadActivity's notion of a repeated read and threadSeenBy's
\* notion of a read one agree, however edits, deletions and reads interleave.
THEOREM RepeatsAreReads == Spec => []RereadIsSeen
  <1>1. TypeOK /\ InThePast => RereadIsSeen
    <2> SUFFICES ASSUME InThePast, NEW t \in OpenThreads, NEW a \in Agents,
                        HumanNotes(t) # {}, Recorded(t, a, NoKey)
                 PROVE  SeenBy(t, a)
      BY DEF RereadIsSeen
    <2>1. PICK r \in receipts :
             r.thread = t /\ r.actor = a /\ r.revision = Revision(t)
      BY DEF Recorded
    <2>2. \A n \in HumanNotes(t) : <<n.id, n.at>> \in r.revision
      BY <2>1 DEF Revision
    <2>3. \A n \in HumanNotes(t) : n.at <= r.at
      BY <2>2 DEF InThePast
    <2>4. QED
      BY <2>1, <2>3 DEF SeenBy, Covers
  <1>2. QED
    BY <1>1, PastHolds, PTL

\* Reading again does not move the time of the first read: a receipt is never
\* older than one that was there before.
THEOREM FirstReadStays == Spec => RepeatedReadsKeepTheReceipt
  <1>1. TypeOK /\ InThePast /\ [Next]_vars
          => \A t \in OpenThreads :
                FirstRead(t) # {} /\ Revision(t)' = Revision(t)
                   => FirstRead(t)' = FirstRead(t)
    <2> SUFFICES ASSUME TypeOK, InThePast, [Next]_vars, NEW t \in OpenThreads,
                        FirstRead(t) # {}, Revision(t)' = Revision(t)
                 PROVE  FirstRead(t)' = FirstRead(t)
      OBVIOUS
    <2>1. /\ receipts \subseteq receipts'
          /\ \A r \in receipts' \ receipts : r.at = clock
      BY Observed
         DEF Next, vars, Post, Edit, Write, Delete, Fetch, Answer, LoseAnswer, Crash
    <2>2. \A r : Covers(r, t) <=> /\ Revision(t) # {}
                                   /\ \A v \in Revision(t) : v[2] <= r.at
      <3>1. Revision(t) # {} <=> HumanNotes(t) # {}
        BY DEF Revision, HumanNotes
      <3>2. ASSUME NEW r
            PROVE  (\A v \in Revision(t) : v[2] <= r.at)
                      <=> (\A m \in HumanNotes(t) : m.at <= r.at)
        <4>1. \A m \in HumanNotes(t) : <<m.id, m.at>> \in Revision(t)
          BY DEF Revision
        <4>2. \A v \in Revision(t) :
                 \E m \in HumanNotes(t) : v[2] = m.at
          BY DEF Revision
        <4>3. \A m \in HumanNotes(t) : <<m.id, m.at>>[2] = m.at
          OBVIOUS
        <4>4. ASSUME \A v \in Revision(t) : v[2] <= r.at,
                     NEW m \in HumanNotes(t)
              PROVE  m.at <= r.at
          <5>1. <<m.id, m.at>>[2] <= r.at
            BY <4>1, <4>4
          <5>2. QED
            BY <4>3, <5>1
        <4>5. QED
          BY <4>2, <4>4
      <3>3. QED
        BY <3>1, <3>2 DEF Covers, HumanNotes
    <2>3. \A r : Covers(r, t)' <=> /\ Revision(t)' # {}
                                   /\ \A v \in Revision(t)' : v[2] <= r.at
      <3>1. Revision(t)' # {} <=> HumanNotes(t)' # {}
        BY DEF Revision, HumanNotes
      <3>2. ASSUME NEW r
            PROVE  (\A v \in Revision(t)' : v[2] <= r.at)
                      <=> (\A m \in HumanNotes(t)' : m.at <= r.at)
        <4>1. \A m \in HumanNotes(t)' : <<m.id, m.at>> \in Revision(t)'
          BY DEF Revision
        <4>2. \A v \in Revision(t)' :
                 \E m \in HumanNotes(t)' : v[2] = m.at
          BY DEF Revision
        <4>3. \A m \in HumanNotes(t)' : <<m.id, m.at>>[2] = m.at
          OBVIOUS
        <4>4. ASSUME \A v \in Revision(t)' : v[2] <= r.at,
                     NEW m \in HumanNotes(t)'
              PROVE  m.at <= r.at
          <5>1. <<m.id, m.at>>[2] <= r.at
            BY <4>1, <4>4
          <5>2. QED
            BY <4>3, <5>1
        <4>5. QED
          BY <4>2, <4>4
      <3>3. QED
        BY <3>1, <3>2 DEF Covers, HumanNotes
    <2>4. \A r : Covers(r, t)' <=> Covers(r, t)
      BY <2>2, <2>3
    <2>5. ReadTimes(t) \subseteq ReadTimes(t)'
      BY <2>1, <2>4 DEF ReadTimes
    <2>6. ReadTimes(t)' \subseteq ReadTimes(t) \cup {clock}
      BY <2>1, <2>4 DEF ReadTimes
    <2>7. /\ clock \in Nat
          /\ \A k \in ReadTimes(t) : k \in Nat /\ k <= clock
      BY DEF TypeOK, InThePast, ReadTimes, Receipt, Times
    <2>8. PICK k \in ReadTimes(t) : \A j \in ReadTimes(t) : k <= j
      BY DEF FirstRead
    <2>9. FirstRead(t) = {k}
      BY <2>7, <2>8 DEF FirstRead
    <2>10. \A j \in ReadTimes(t)' : k <= j /\ j \in Nat
      BY <2>6, <2>7, <2>8
    <2>11. FirstRead(t)' = {k}
      BY <2>5, <2>7, <2>8, <2>10 DEF FirstRead
    <2>12. QED
      BY <2>9, <2>11
  <1>2. QED
    BY <1>1, PastHolds, PTL DEF Spec, RepeatedReadsKeepTheReceipt

-----------------------------------------------------------------------------
(* Nothing slips by *)

\* What an agent got, will get, or has lost.
Had(a) == given[a] \cup fetch[a].shown \cup missed[a]

\* A human comment that a receipt is not older than, or whose thread is about to
\* get a receipt, is accounted for.
Accounted ==
    /\ \A r \in receipts : \A n \in notes :
          n.thread = r.thread /\ n.by = "human" /\ n.at <= r.at
             => <<n.id, n.at>> \in Had(r.actor)
    /\ \A a \in Agents : \A n \in notes :
          n.thread \in fetch[a].left /\ n.by = "human"
             => <<n.id, n.at>> \in Had(a)

\* Steps after which no receipt and no fetch is new, and nothing is forgotten.
LEMMA AccountedKept ==
  ASSUME TypeOK, Accounted, receipts' = receipts, notes' \subseteq notes,
         \A a \in Agents : Had(a) \subseteq Had(a)',
         \A a \in Agents : fetch'[a].left \subseteq fetch[a].left
  PROVE  Accounted'
  <1>1. \A r \in receipts : r.actor \in Agents
    BY DEF TypeOK, Receipt
  <1> HIDE DEF Had
  <1>2. QED
    BY <1>1 DEF Accounted

LEMMA AccountedWrite ==
  ASSUME TypeOK, InThePast, Accounted, NEW t, NEW n \in Note,
         NEW others \in SUBSET notes,
         n.at = clock + 1, n.thread = t, Write(t, n, others)
  PROVE  Accounted'
  <1>1. /\ notes' = others \cup {n} /\ receipts' = receipts /\ fetch' = fetch
        /\ missed' = [a \in Agents |-> IF t \in fetch[a].left
                                       THEN missed[a] \cup {<<n.id, n.at>>}
                                       ELSE missed[a]]
        /\ given' = given
    BY DEF Write, Overtakes
  <1>2. \A a \in Agents : Had(a) \subseteq Had(a)'
    BY <1>1 DEF Had
  <1>3. \A a \in Agents : t \in fetch[a].left => <<n.id, n.at>> \in Had(a)'
    BY <1>1 DEF Had
  <1>4. clock \in Nat /\ \A r \in receipts : r.at \in Nat /\ r.actor \in Agents
    BY DEF TypeOK, Receipt, Times
  <1>5. \A r \in receipts : ~(n.at <= r.at)
    BY <1>4 DEF InThePast
  <1> HIDE DEF Had
  <1>6. ASSUME NEW r \in receipts', NEW m \in notes', m.thread = r.thread,
               m.by = "human", m.at <= r.at
        PROVE  <<m.id, m.at>> \in Had(r.actor)'
    BY <1>1, <1>2, <1>4, <1>5, <1>6 DEF Accounted
  <1>7. ASSUME NEW a \in Agents, NEW m \in notes', m.thread \in fetch'[a].left,
               m.by = "human"
        PROVE  <<m.id, m.at>> \in Had(a)'
    BY <1>1, <1>2, <1>3, <1>7 DEF Accounted
  <1>8. QED
    BY <1>6, <1>7 DEF Accounted

LEMMA AccountedFetch ==
  ASSUME TypeOK, Accounted, NEW a \in Agents, NEW unseen, NEW key,
         Fetch(a, unseen, key)
  PROVE  Accounted'
  <1> DEFINE threads == IF unseen THEN Unseen(a) ELSE OpenThreads
  <1>1. /\ fetch' = [fetch EXCEPT ![a] = [left |-> threads,
                                          shown |-> Shown(threads),
                                          key |-> key]]
        /\ fetch[a].shown = {}
        /\ UNCHANGED <<notes, receipts, given, missed>>
    BY DEF Fetch, Idle
  <1>2. \A n \in notes : n.thread \in threads /\ n.by = "human"
           => <<n.id, n.at>> \in Shown(threads)
    BY DEF Shown, Revision, HumanNotes
  <1> HIDE DEF threads
  <1>3. \A b \in Agents : Had(b) \subseteq Had(b)'
    BY <1>1 DEF Had, TypeOK
  <1>4. fetch'[a].left = threads /\ Shown(threads) \subseteq Had(a)'
    BY <1>1 DEF Had, TypeOK
  <1>5. \A b \in Agents \ {a} : fetch'[b] = fetch[b]
    BY <1>1 DEF TypeOK
  <1>6. \A r \in receipts : r.actor \in Agents
    BY DEF TypeOK, Receipt
  <1> HIDE DEF Had
  <1>7. ASSUME NEW r \in receipts', NEW m \in notes', m.thread = r.thread,
               m.by = "human", m.at <= r.at
        PROVE  <<m.id, m.at>> \in Had(r.actor)'
    BY <1>1, <1>3, <1>6, <1>7 DEF Accounted
  <1>8. ASSUME NEW b \in Agents, NEW m \in notes', m.thread \in fetch'[b].left,
               m.by = "human"
        PROVE  <<m.id, m.at>> \in Had(b)'
    BY <1>1, <1>2, <1>3, <1>4, <1>5, <1>8 DEF Accounted
  <1>9. QED
    BY <1>7, <1>8 DEF Accounted

LEMMA AccountedObserve ==
  ASSUME TypeOK, Accounted, NEW a \in Agents, Observe(a)
  PROVE  Accounted'
  <1>1. PICK t \in fetch[a].left :
          /\ fetch' = [fetch EXCEPT ![a].left = fetch[a].left \ {t}]
          /\ \A r \in receipts' \ receipts : r.thread = t /\ r.actor = a
          /\ UNCHANGED <<notes, given, missed>>
    BY Observed
  <1>2. \A b \in Agents : /\ fetch'[b].shown = fetch[b].shown
                          /\ fetch'[b].left \subseteq fetch[b].left
    BY <1>1 DEF TypeOK
  <1>3. \A b \in Agents : Had(b)' = Had(b)
    BY <1>1, <1>2 DEF Had
  <1>4. \A r \in receipts : r.actor \in Agents
    BY DEF TypeOK, Receipt
  <1> HIDE DEF Had
  <1>5. ASSUME NEW r \in receipts', NEW m \in notes', m.thread = r.thread,
               m.by = "human", m.at <= r.at
        PROVE  <<m.id, m.at>> \in Had(r.actor)'
    <2>1. CASE r \in receipts
      BY <1>1, <1>3, <1>4, <1>5, <2>1 DEF Accounted
    <2>2. CASE r \notin receipts
      BY <1>1, <1>3, <1>5, <2>2 DEF Accounted
    <2>3. QED
      BY <2>1, <2>2
  <1>6. ASSUME NEW b \in Agents, NEW m \in notes', m.thread \in fetch'[b].left,
               m.by = "human"
        PROVE  <<m.id, m.at>> \in Had(b)'
    BY <1>1, <1>2, <1>3, <1>6 DEF Accounted
  <1>7. QED
    BY <1>5, <1>6 DEF Accounted

LEMMA AccountedEnd ==
  ASSUME TypeOK, Accounted, NEW a \in Agents, Answer(a) \/ LoseAnswer(a) \/ Crash
  PROVE  Accounted'
  <1>1. receipts' = receipts /\ notes' = notes
    BY DEF Answer, LoseAnswer, Crash
  <1>2. \A b \in Agents : fetch'[b].left \subseteq fetch[b].left
    BY DEF Answer, LoseAnswer, Crash, Idle, TypeOK
  <1>3. CASE Answer(a)
    <2>1. \A b \in Agents : Had(b) \subseteq Had(b)'
      BY <1>3 DEF Answer, Had, TypeOK
    <2>2. QED
      BY <1>1, <1>2, <2>1, AccountedKept
  <1>4. CASE LoseAnswer(a)
    <2>1. \A b \in Agents : Had(b) \subseteq Had(b)'
      BY <1>4 DEF LoseAnswer, Had, TypeOK
    <2>2. QED
      BY <1>1, <1>2, <2>1, AccountedKept
  <1>5. CASE Crash
    <2>1. \A b \in Agents : Had(b) \subseteq Had(b)'
      BY <1>5 DEF Crash, Had, TypeOK
    <2>2. QED
      BY <1>1, <1>2, <2>1, AccountedKept
  <1>6. QED
    BY <1>3, <1>4, <1>5

\* Every current human comment is still in the inbox of
\* each agent, or was given to it, or was lost in one of the two ways that the
\* module names: written between listing and receipt, or in an answer that got
\* lost.  Filtering before recording never hides anything else.
THEOREM FeedbackIsAccountedFor == Spec => []NothingSlipsBy
  <1>1. Init => Accounted
    BY DEF Init, Accounted
  <1>2. TypeOK /\ InThePast /\ Accounted /\ [Next]_vars => Accounted'
    <2> SUFFICES ASSUME TypeOK, InThePast, Accounted, [Next]_vars
                 PROVE  Accounted'
      OBVIOUS
    <2>1. CASE \E by \in {"human", "agent"}, t \in Times : Post(by, t)
      BY <2>1, Written, AccountedWrite
    <2>2. CASE \E n \in notes : Edit(n)
      BY <2>2, Written, AccountedWrite
    <2>3. CASE \E n \in notes : Delete(n)
      <3>1. receipts' = receipts /\ notes' \subseteq notes /\ fetch' = fetch
        BY <2>3 DEF Delete
      <3>2. \A a \in Agents : Had(a)' = Had(a)
        BY <2>3 DEF Delete, Had
      <3>3. QED
        BY <3>1, <3>2, AccountedKept
    <2>4. CASE \E a \in Agents, key \in Keys \cup {NoKey},
                  unseen \in BOOLEAN : Fetch(a, unseen, key)
      BY <2>4, AccountedFetch
    <2>5. CASE \E a \in Agents : Observe(a)
      BY <2>5, AccountedObserve
    <2>6. CASE \E a \in Agents : Answer(a) \/ LoseAnswer(a)
      BY <2>6, AccountedEnd
    <2>7. CASE Crash
      <3>1. PICK a \in Agents : Fetching(a)
        BY <2>7 DEF Crash
      <3>2. QED
        BY <2>7, <3>1, AccountedEnd
    <2>8. CASE UNCHANGED vars
      <3>1. \A a \in Agents : Had(a)' = Had(a)
        BY <2>8 DEF vars, Had
      <3>2. QED
        BY <2>8, <3>1, AccountedKept DEF vars
    <2>9. QED
      BY <2>1, <2>2, <2>3, <2>4, <2>5, <2>6, <2>7, <2>8 DEF Next
  <1>3. TypeOK /\ Accounted => NothingSlipsBy
    <2> SUFFICES ASSUME Accounted, NEW a \in Agents, NEW f \in Feedback,
                        f[1] \notin Unseen(a)
                 PROVE  f[2] \in Had(a)
      BY DEF NothingSlipsBy, Had
    <2>1. PICK t \in OpenThreads : f \in {<<t, v>> : v \in Revision(t)}
      BY DEF Feedback
    <2>2. PICK n \in HumanNotes(t) : f = <<t, <<n.id, n.at>>>>
      BY <2>1 DEF Revision
    <2>3. PICK r \in receipts : r.thread = t /\ r.actor = a /\ Covers(r, t)
      BY <2>2 DEF Unseen, SeenBy
    <2>4. n \in notes /\ n.thread = t /\ n.by = "human" /\ n.at <= r.at
      BY <2>2, <2>3 DEF HumanNotes, Covers
    <2>5. QED
      BY <2>2, <2>3, <2>4 DEF Accounted
  <1>4. QED
    BY <1>1, <1>2, <1>3, PastHolds, PTL DEF Spec

-----------------------------------------------------------------------------
(* The review ledger: what is true of its calls and files *)

Rows == [kind : {"decision", "receipt"}, subject : Subjects, date : Nat]
CallSteps == {"idle", "read", "open", "write", "rename"}
CallRecords == [step : CallSteps, rows : Seq(Rows), file : Files \cup {NoFile}, sent : Seq(Rows),
                saving : BOOLEAN, alone : BOOLEAN]

LedgerShapes ==
    /\ ledger \in Files \cup {NoFile} /\ temp \in Files \cup {NoFile} /\ (temp = NoFile \/ temp # ledger)
    /\ contents \in [Files -> Seq(Rows)]
    /\ calls \in [LedgerCalls -> CallRecords]
    /\ \A c \in LedgerCalls : calls[c].step \in {"write", "rename"} <=> calls[c].file # NoFile
    /\ day \in Nat \ {0} /\ saves \in Nat /\ sent \in Seq(Rows) /\ known \in BOOLEAN

\* Rows that keep what a snapshot says last of each subject, as long as it is shown.
IsLast(i, snapshot) == \A j \in (i + 1) .. Len(snapshot) : ~SameRow(snapshot[j], snapshot[i])
Distinct(rows) == \A i, j \in DOMAIN rows : SameRow(rows[i], rows[j]) => i = j
Keeps(rows, snapshot) ==
    /\ ToSet(rows) \subseteq ToSet(snapshot) /\ Distinct(rows)
    /\ \A i \in DOMAIN snapshot : IsLast(i, snapshot) /\ ~Outdated(snapshot[i]) => snapshot[i] \in ToSet(rows)

\* A call that is alone is the only one, and the calls since the last save are alone.
LoneCalls ==
    /\ \A c, d \in Calling : calls[c].alone => c = d
    /\ known => \A c \in Calling : calls[c].alone

\* What it is going to write keeps what it was sent, or what was saved last; and it is written to a file
\* that nobody else has opened.
LoneCallFits(c) ==
    calls[c].alone =>
        /\ calls[c].step \in {"write", "rename"} => calls[c].file = temp
        /\ calls[c].step = "write" => contents[temp] = <<>>
        /\ calls[c].step = "rename" => contents[temp] = calls[c].rows
        /\ calls[c].saving => calls[c].step # "read" /\ Keeps(calls[c].rows, calls[c].sent)
        /\ ~calls[c].saving /\ calls[c].step # "read" /\ known => Keeps(calls[c].rows, sent)

LedgerInv ==
    /\ LedgerShapes /\ LoneCalls
    /\ \A c \in Calling : LoneCallFits(c)
    /\ known => Keeps(Published, sent)

-----------------------------------------------------------------------------
(* Read receipts: what is true of the requests and the journal *)

Ids == EventIds \cup {NoEventId}
DeliverySteps == {"idle", "look", "append", "answer"}
DeliveryRecords == [step : DeliverySteps, id : Ids, todo : Seq(Opened), listed : SUBSET Opened]
Entries == [thread : Opened, id : Ids \cup {Reply}]

OnceEach(line) == \A i, j \in DOMAIN line : line[i] = line[j] => i = j
ReceiptShapes ==
    /\ activity \in Seq(Entries) /\ rewriting \in Deliveries \cup {Nobody, Reply}
    /\ chain \in Seq(Deliveries \cup {Reply}) /\ OnceEach(chain)
    /\ rewriting # Nobody => chain # <<>> /\ rewriting = chain[1]
    /\ deliveries \in [Deliveries -> DeliveryRecords]
    /\ \A d \in Deliveries : /\ d \in ToSet(chain) <=> deliveries[d].step = "append"
                             /\ deliveries[d].step \in {"look", "append"} <=> deliveries[d].todo # <<>>

\* A thread that was listed is noted, or its turn is still to come, or the journal could not be read.
Noted(t, id) == ReceiptsOf(t, id) # {} \/ <<t, id>> \in unread
ListedIsNoted ==
    /\ \A d \in Served : \A t \in deliveries[d].listed : t \in ToSet(deliveries[d].todo) \/ Noted(t, deliveries[d].id)
    /\ \A m \in answered : Noted(m[1], m[2])

\* Deliveries of an id that never came together note a thread once: who waits to note it has not found it.
FirstReceipts(t, id) == ReceiptsOf(t, id) \cap FirstOf(t)
ApartIsOnce ==
    \A t \in Opened, id \in Ids : <<t, id>> \in apart =>
        /\ \A d, e \in Served : deliveries[d].id = id /\ deliveries[e].id = id => d = e
        /\ id \in EventIds => \A d \in Served :
              deliveries[d].step = "append" /\ deliveries[d].id = id /\ deliveries[d].todo[1] = t
              => FirstReceipts(t, id) = {}
        /\ id \in EventIds /\ FirstReceipts(t, id) # {} => \A k, l \in ReceiptsOf(t, id) : k = l

ReceiptsInv == ReceiptShapes /\ ListedIsNoted /\ ApartIsOnce /\ HeardIsNoted

-----------------------------------------------------------------------------
(* compactSnapshot: row after row *)

\* A set with 0 that has with each number the next one has them all.
LEMMA SetInduction ==
    ASSUME NEW A, 0 \in A, \A n \in Nat : n \in A => n + 1 \in A
    PROVE  Nat \subseteq A
<1> DEFINE R == OpToRel(<, Nat)
           T == Nat \ A
<1>1. IsWellFoundedOn(R, Nat)
  BY NatLessThanWellFounded DEF OpToRel
<1>2. R = {ss \in Nat \X Nat : ss[1] < ss[2]}
  BY DEF OpToRel
<1> SUFFICES ASSUME T # {} PROVE FALSE
  OBVIOUS
<1> HIDE DEF R, T
<1>3. T \subseteq Nat
  BY DEF T
<1>4. PICK n \in T : \A m \in T : ~ (<<m, n>> \in R)
  BY <1>1, <1>3, WFMin
<1>5. n \in Nat /\ n # 0 /\ n - 1 \in Nat
  BY <1>3 DEF T
<1>6. n - 1 \in A
  <2>1. <<n - 1, n>> \in R
    BY <1>5, <1>2
  <2> QED
    BY <1>4, <2>1, <1>5 DEF T
<1> QED
  BY <1>4, <1>5, <1>6 DEF T

Rest(n, rows) == {i \in 1..n : \A j \in (i + 1)..n : ~SameRow(rows[j], rows[i])}
KeepsOf(n, q, rows) ==
    /\ q \in Seq(Rows) /\ Distinct(q)
    /\ \A i \in DOMAIN q : \E k \in 1..n : q[i] = rows[k]
    /\ \A k \in Rest(n, rows) : ~Outdated(rows[k]) => \E i \in DOMAIN q : q[i] = rows[k]

\* One row more: what the rows so far keep, they keep with it.
LEMMA PutKeeps ==
    ASSUME NEW rows \in Seq(Rows), NEW n \in Nat, n + 1 <= Len(rows), NEW q, KeepsOf(n, q, rows)
    PROVE  KeepsOf(n + 1, Put(q, rows[n + 1]), rows)
<1> DEFINE row == rows[n + 1]
<1>1. row \in Rows /\ n + 1 \in 1..(n + 1)
  OBVIOUS
<1>2. q \in Seq(Rows) /\ Len(q) \in Nat /\ DOMAIN q = 1..Len(q) /\ Distinct(q)
  BY DEF KeepsOf
<1>3. \A i \in DOMAIN q : \E k \in 1..(n + 1) : q[i] = rows[k]
  <2> SUFFICES ASSUME NEW i \in DOMAIN q PROVE \E k \in 1..(n + 1) : q[i] = rows[k]
    OBVIOUS
  <2>1. PICK k \in 1..n : q[i] = rows[k]
    BY DEF KeepsOf
  <2>2. k \in 1..(n + 1)
    OBVIOUS
  <2> QED
    BY <2>1, <2>2
<1>4. ASSUME NEW k \in Rest(n + 1, rows), ~Outdated(rows[k]), k # n + 1
      PROVE  \E i \in DOMAIN q : q[i] = rows[k] /\ ~SameRow(q[i], row)
  <2>1. k \in 1..n
    BY <1>4 DEF Rest
  <2>2. k \in Rest(n, rows)
    BY <1>4, <2>1 DEF Rest
  <2>3. n + 1 \in (k + 1)..(n + 1)
    BY <2>1
  <2>4. ~SameRow(row, rows[k])
    BY <1>4, <2>3 DEF Rest
  <2>5. ~SameRow(rows[k], row)
    BY <2>4 DEF SameRow
  <2> QED
    BY <1>4, <2>2, <2>5 DEF KeepsOf
<1> HIDE DEF row
<1>5. CASE \E i \in DOMAIN q : SameRow(q[i], row)
  <2> DEFINE p == [i \in DOMAIN q |-> IF SameRow(q[i], row) THEN row ELSE q[i]]
  <2>1. Put(q, row) = p
    BY <1>5 DEF Put
  <2>2. p \in Seq(Rows) /\ DOMAIN p = DOMAIN q /\ \A i \in DOMAIN q : p[i] = IF SameRow(q[i], row) THEN row ELSE q[i]
    <3>1. p \in [1..Len(q) -> Rows]
      BY <1>1, <1>2
    <3> QED
      BY <1>2, <3>1, SeqDef
  <2> HIDE DEF p
  <2>3. Distinct(p)
    <3> SUFFICES ASSUME NEW i \in DOMAIN q, NEW j \in DOMAIN q, SameRow(p[i], p[j]) PROVE i = j
      BY <2>2 DEF Distinct
    <3>1. SameRow(q[i], q[j])
      BY <2>2 DEF SameRow
    <3> QED
      BY <1>2, <3>1 DEF Distinct
  <2>4. \A i \in DOMAIN p : \E k \in 1..(n + 1) : p[i] = rows[k]
    BY <1>1, <1>3, <2>2 DEF row
  <2>5. \A k \in Rest(n + 1, rows) : ~Outdated(rows[k]) => \E i \in DOMAIN p : p[i] = rows[k]
    <3> SUFFICES ASSUME NEW k \in Rest(n + 1, rows), ~Outdated(rows[k]) PROVE \E i \in DOMAIN p : p[i] = rows[k]
      OBVIOUS
    <3>1. CASE k = n + 1
      BY <1>5, <2>2, <3>1 DEF row
    <3>2. CASE k # n + 1
      BY <1>4, <2>2, <3>2
    <3> QED
      BY <3>1, <3>2
  <2> QED
    BY <2>1, <2>2, <2>3, <2>4, <2>5 DEF KeepsOf, row
<1>6. CASE ~\E i \in DOMAIN q : SameRow(q[i], row)
  <2> DEFINE p == Append(q, row)
  <2>1. Put(q, row) = p
    BY <1>6 DEF Put
  <2>2. /\ p \in Seq(Rows) /\ DOMAIN p = 1..(Len(q) + 1) /\ p[Len(q) + 1] = row
        /\ \A i \in DOMAIN q : p[i] = q[i] /\ i \in DOMAIN p
    BY <1>1, <1>2
  <2> HIDE DEF p
  <2>3. \A i \in DOMAIN p : i \in DOMAIN q \/ i = Len(q) + 1
    BY <1>2, <2>2
  <2>4. Distinct(p)
    <3> SUFFICES ASSUME NEW i \in DOMAIN p, NEW j \in DOMAIN p, SameRow(p[i], p[j]) PROVE i = j
      BY DEF Distinct
    <3>1. CASE i \in DOMAIN q /\ j \in DOMAIN q
      BY <1>2, <2>2, <3>1 DEF Distinct
    <3>2. CASE i \notin DOMAIN q /\ j \notin DOMAIN q
      BY <2>3, <3>2
    <3>3. CASE i \in DOMAIN q /\ j \notin DOMAIN q
      BY <1>6, <2>2, <2>3, <3>3
    <3>4. CASE i \notin DOMAIN q /\ j \in DOMAIN q
      <4>1. SameRow(p[j], p[i])
        BY DEF SameRow
      <4> QED
        BY <1>6, <2>2, <2>3, <3>4, <4>1
    <3> QED
      BY <3>1, <3>2, <3>3, <3>4
  <2>5. \A i \in DOMAIN p : \E k \in 1..(n + 1) : p[i] = rows[k]
    BY <1>1, <1>3, <2>2, <2>3 DEF row
  <2>6. \A k \in Rest(n + 1, rows) : ~Outdated(rows[k]) => \E i \in DOMAIN p : p[i] = rows[k]
    <3> SUFFICES ASSUME NEW k \in Rest(n + 1, rows), ~Outdated(rows[k]) PROVE \E i \in DOMAIN p : p[i] = rows[k]
      OBVIOUS
    <3>1. CASE k = n + 1
      <4>1. Len(q) + 1 \in DOMAIN p
        BY <1>2, <2>2
      <4> QED
        BY <2>2, <3>1, <4>1 DEF row
    <3>2. CASE k # n + 1
      BY <1>4, <2>2, <3>2
    <3> QED
      BY <3>1, <3>2
  <2> QED
    BY <2>1, <2>2, <2>4, <2>5, <2>6 DEF KeepsOf, row
<1> QED
  BY <1>5, <1>6

\* A row that is out of date is passed over.
LEMMA PassedOverKeeps ==
    ASSUME NEW rows \in Seq(Rows), NEW n \in Nat, n + 1 <= Len(rows), NEW q, KeepsOf(n, q, rows),
           Outdated(rows[n + 1])
    PROVE  KeepsOf(n + 1, q, rows)
<1>1. \A i \in DOMAIN q : \E k \in 1..(n + 1) : q[i] = rows[k]
  <2> SUFFICES ASSUME NEW i \in DOMAIN q PROVE \E k \in 1..(n + 1) : q[i] = rows[k]
    OBVIOUS
  <2>1. PICK k \in 1..n : q[i] = rows[k]
    BY DEF KeepsOf
  <2>2. k \in 1..(n + 1)
    OBVIOUS
  <2> QED
    BY <2>1, <2>2
<1>2. \A k \in Rest(n + 1, rows) : ~Outdated(rows[k]) => \E i \in DOMAIN q : q[i] = rows[k]
  <2> SUFFICES ASSUME NEW k \in Rest(n + 1, rows), ~Outdated(rows[k]) PROVE \E i \in DOMAIN q : q[i] = rows[k]
    OBVIOUS
  <2>1. k # n + 1
    OBVIOUS
  <2>2. k \in Rest(n, rows)
    BY <2>1 DEF Rest
  <2> QED
    BY <2>2 DEF KeepsOf
<1> QED
  BY <1>1, <1>2 DEF KeepsOf

\* A compacted snapshot keeps what the snapshot says.
LEMMA CompactKeeps ==
    ASSUME NEW rows \in Seq(Rows)
    PROVE  CompactSnapshot(rows) \in Seq(Rows) /\ Keeps(CompactSnapshot(rows), rows)
<1> DEFINE Step(g, m) ==
               IF m = 0 THEN <<>> ELSE IF Outdated(rows[m]) THEN g[m - 1] ELSE Put(g[m - 1], rows[m])
           upTo == CHOOSE g : g = [m \in 0..Len(rows) |-> Step(g, m)]
           A == {n \in Nat : \E g : g = [m \in 0..n |-> Step(g, m)]}
           B == {n \in Nat : n <= Len(rows) => KeepsOf(n, upTo[n], rows)}
<1>0. Len(rows) \in Nat /\ DOMAIN rows = 1..Len(rows)
  OBVIOUS
<1>1. CompactSnapshot(rows) = upTo[Len(rows)]
  BY DEF CompactSnapshot
<1>2. 0 \in A
  <2>1. [m \in 0..0 |-> <<>>] = [m \in 0..0 |-> Step([i \in 0..0 |-> <<>>], m)]
    OBVIOUS
  <2> QED
    BY <2>1
<1>3. \A n \in Nat : n \in A => n + 1 \in A
  <2> SUFFICES ASSUME NEW n \in Nat, n \in A PROVE n + 1 \in A
    OBVIOUS
  <2>1. PICK g : g = [m \in 0..n |-> Step(g, m)]
    OBVIOUS
  <2> DEFINE h == [m \in 0..(n + 1) |-> IF m = n + 1 THEN Step(g, m) ELSE g[m]]
  <2>2. \A m \in 0..(n + 1) : h[m] = Step(h, m)
    <3> SUFFICES ASSUME NEW m \in 0..(n + 1) PROVE h[m] = Step(h, m)
      OBVIOUS
    <3>1. m = 0 \/ (m - 1 \in 0..n /\ h[m - 1] = g[m - 1])
      OBVIOUS
    <3>2. Step(h, m) = Step(g, m)
      BY <3>1
    <3>3. m = n + 1 \/ g[m] = Step(g, m)
      <4>1. \A i \in 0..n : g[i] = [k \in 0..n |-> Step(g, k)][i]
        BY <2>1
      <4>2. \A i \in 0..n : g[i] = Step(g, i)
        BY <4>1
      <4> QED
        BY <4>2
    <3> QED
      BY <3>2, <3>3
  <2>3. h = [m \in 0..(n + 1) |-> Step(h, m)]
    BY <2>2
  <2> HIDE DEF h
  <2>4. \E k : k = [m \in 0..(n + 1) |-> Step(k, m)]
    BY <2>3
  <2>5. n + 1 \in Nat
    OBVIOUS
  <2> HIDE DEF Step
  <2> QED
    BY <2>4, <2>5
<1>4. Len(rows) \in A
  <2> HIDE DEF A
  <2>1. Nat \subseteq A
    BY <1>2, <1>3, SetInduction
  <2> QED
    BY <1>0, <2>1
<1>5. upTo = [m \in 0..Len(rows) |-> Step(upTo, m)]
  BY <1>4
<1> HIDE DEF upTo
<1>6. 0 \in B
  <2>1. upTo[0] = <<>>
    BY <1>0, <1>5
  <2>2. KeepsOf(0, <<>>, rows)
    <3>1. Rest(0, rows) = {} /\ DOMAIN <<>> = {} /\ <<>> \in Seq(Rows)
      BY DEF Rest
    <3> QED
      BY <3>1 DEF KeepsOf, Distinct
  <2> QED
    BY <2>1, <2>2
<1>7. \A n \in Nat : n \in B => n + 1 \in B
  <2> SUFFICES ASSUME NEW n \in Nat, n \in B, n + 1 <= Len(rows)
               PROVE  KeepsOf(n + 1, upTo[n + 1], rows)
    OBVIOUS
  <2>1. n \in 0..(Len(rows) - 1) /\ n + 1 \in 0..Len(rows) /\ n + 1 # 0 /\ (n + 1) - 1 = n
    BY <1>0
  <2>2. KeepsOf(n, upTo[n], rows)
    BY <1>0
  <2>3. upTo[n + 1] = Step(upTo, n + 1)
    BY <1>5, <2>1
  <2>4. upTo[n + 1] = IF Outdated(rows[n + 1]) THEN upTo[n] ELSE Put(upTo[n], rows[n + 1])
    BY <2>1, <2>3
  <2> QED
    BY <2>1, <2>2, <2>4, PutKeeps, PassedOverKeeps
<1>8. Len(rows) \in B
  <2> HIDE DEF B
  <2>1. Nat \subseteq B
    BY <1>6, <1>7, SetInduction
  <2> QED
    BY <1>0, <2>1
<1>9. PICK q : q = CompactSnapshot(rows)
  OBVIOUS
<1>10. KeepsOf(Len(rows), q, rows)
  BY <1>0, <1>1, <1>8, <1>9
<1>11. Keeps(q, rows)
  <2>1. \A i \in DOMAIN rows : IsLast(i, rows) => i \in Rest(Len(rows), rows)
    BY <1>0 DEF IsLast, Rest
  <2> QED
    BY <1>0, <1>10, <2>1 DEF KeepsOf, Keeps, ToSet
<1> QED
  BY <1>9, <1>10, <1>11 DEF KeepsOf

-----------------------------------------------------------------------------
(* The review ledger *)

\* At first there is no ledger, and nothing was sent.
LEMMA LedgerStart ==
    ASSUME LedgerInit
    PROVE  LedgerInv
<1>1. Resting \in CallRecords /\ Resting.step = "idle" /\ Resting.file = NoFile
  BY DEF Resting, CallRecords, CallSteps
<1>2. LedgerShapes
  BY <1>1 DEF LedgerInit, LedgerShapes, NoFile
<1>3. Calling = {}
  BY <1>1 DEF LedgerInit, Calling
<1>4. Keeps(Published, sent)
  <2>1. Published = <<>> /\ sent = <<>>
    BY DEF LedgerInit, Published
  <2> QED
    BY <2>1 DEF Keeps, Distinct, ToSet
<1> QED
  BY <1>2, <1>3, <1>4 DEF LedgerInv, LoneCalls

\* As days pass there is less to keep.
LEMMA KeepsStay ==
    ASSUME NEW rows, NEW snapshot \in Seq(Rows), Keeps(rows, snapshot), day \in Nat, day' \in Nat, day <= day'
    PROVE  Keeps(rows, snapshot)'
<1>1. \A i \in DOMAIN snapshot : Outdated(snapshot[i]) => Outdated(snapshot[i])'
  <2> SUFFICES ASSUME NEW i \in DOMAIN snapshot, Outdated(snapshot[i]) PROVE Outdated(snapshot[i])'
    OBVIOUS
  <2>1. PICK row : row = snapshot[i]
    OBVIOUS
  <2>2. row \in Rows
    BY <2>1
  <2>3. row.date \in Nat
    BY <2>2 DEF Rows
  <2>4. Outdated(row) => Outdated(row)'
    BY <2>3 DEF Outdated
  <2> QED
    BY <2>1, <2>4
<1>2. \A i \in DOMAIN snapshot : IsLast(i, snapshot)' <=> IsLast(i, snapshot)
  BY DEF IsLast, SameRow
<1>3. Distinct(rows)' <=> Distinct(rows)
  BY DEF Distinct, SameRow
<1> QED
  BY <1>1, <1>2, <1>3 DEF Keeps

\* While a call is alone there is no other; so a step of a call need only care for itself.
LEMMA OthersGoOn ==
    ASSUME LedgerShapes, LoneCalls, NEW c \in Calling, NEW r \in CallRecords, calls' = [calls EXCEPT ![c] = r],
           r.alone = calls[c].alone \/ r = Resting, known' => known \/ calls[c].alone,
           c \in Calling' => LoneCallFits(c)'
    PROVE  LoneCalls' /\ \A d \in Calling' : LoneCallFits(d)'
<1>1. c \in LedgerCalls /\ calls \in [LedgerCalls -> CallRecords]
  BY DEF LedgerShapes, Calling
<1>2. calls'[c] = r /\ \A d \in LedgerCalls \ {c} : calls'[d] = calls[d]
  BY <1>1
<1>3. \A d \in Calling' \ {c} :
         d \in Calling /\ calls'[d].alone = calls[d].alone /\ ~calls[d].alone /\ d \in LedgerCalls
  BY <1>1, <1>2 DEF Calling, LoneCalls
<1>4. c \in Calling' => r.alone = calls[c].alone
  BY <1>1, <1>2 DEF Calling, Resting
<1>5. LoneCalls'
  <2>1. \A d, e \in Calling' : calls'[d].alone => d = e
    <3> SUFFICES ASSUME NEW d \in Calling', NEW e \in Calling', calls'[d].alone, d # e PROVE FALSE
      OBVIOUS
    <3>1. d = c
      BY <1>3
    <3>2. calls[c].alone /\ e \in Calling
      BY <1>2, <1>3, <1>4, <3>1
    <3> QED
      BY <3>1, <3>2 DEF LoneCalls
  <2>2. ASSUME known' PROVE \A d \in Calling' : calls'[d].alone
    <3>1. \A d \in Calling' \ {c} : ~known /\ ~calls[c].alone
      BY <1>3 DEF LoneCalls
    <3>2. Calling' \subseteq {c}
      BY <2>2, <3>1
    <3>3. calls[c].alone
      BY <2>2 DEF LoneCalls
    <3> QED
      BY <1>2, <1>4, <3>2, <3>3
  <2> QED
    BY <2>1, <2>2 DEF LoneCalls
<1> QED
  BY <1>3, <1>5 DEF LoneCallFits

\* What is published stays, as long as its file does.
LEMMA PublishedStays ==
    ASSUME LedgerInv, UNCHANGED <<ledger, sent>>, known' => known, day' \in Nat, day <= day',
           known /\ ledger # NoFile => contents'[ledger] = contents[ledger]
    PROVE  known' => Keeps(Published, sent)'
<1> SUFFICES ASSUME known' PROVE Keeps(Published, sent)'
  OBVIOUS
<1>1. PICK rows : rows = Published
  OBVIOUS
<1>2. PICK snapshot : snapshot = sent
  OBVIOUS
<1>3. snapshot \in Seq(Rows) /\ day \in Nat
  BY <1>2 DEF LedgerInv, LedgerShapes
<1>4. Keeps(rows, snapshot)
  BY <1>1, <1>2 DEF LedgerInv
<1>5. Published' = rows /\ sent' = snapshot
  BY <1>1, <1>2 DEF Published
<1> QED
  BY <1>3, <1>4, <1>5, KeepsStay

\* A new call is alone, or none is.
LEMMA BeginsFits ==
    ASSUME LedgerInv, NEW c \in LedgerCalls, NEW r \in CallRecords, Begins(c, r), saves' \in Nat,
           r.step \in {"read", "open"}, r.file = NoFile, r.alone,
           r.saving => r.step = "open" /\ Keeps(r.rows, r.sent), ~r.saving => r.step = "read"
    PROVE  LedgerInv'
<1>1. LedgerShapes /\ LoneCalls
  BY DEF LedgerInv
<1>2. UNCHANGED <<ledger, temp, contents, day>> /\ day \in Nat /\ calls \in [LedgerCalls -> CallRecords]
  BY <1>1 DEF Begins, LedgerShapes
<1>3. CASE Calling = {}
  <2>1. calls' = [calls EXCEPT ![c] = r] /\ UNCHANGED <<sent, known>>
    BY <1>3 DEF Begins
  <2>2. calls'[c] = r /\ \A d \in LedgerCalls \ {c} : calls'[d] = calls[d]
    BY <1>2, <2>1
  <2>3. Calling' = {c}
    BY <1>3, <2>2 DEF Calling
  <2>4. LedgerShapes'
    <3>1. calls' \in [LedgerCalls -> CallRecords]
      BY <1>2, <2>1
    <3>2. \A d \in LedgerCalls : calls'[d].step \in {"write", "rename"} <=> calls'[d].file # NoFile
      BY <1>1, <2>2 DEF LedgerShapes
    <3> QED
      BY <1>1, <1>2, <2>1, <3>1, <3>2 DEF LedgerShapes, Files
  <2>5. LoneCalls'
    BY <2>2, <2>3 DEF LoneCalls
  <2>6. LoneCallFits(c)'
    <3>1. PICK rows, snapshot : rows = r.rows /\ snapshot = r.sent
      OBVIOUS
    <3>2. snapshot \in Seq(Rows)
      BY <3>1 DEF CallRecords
    <3>3. r.saving => Keeps(rows, snapshot)'
      BY <1>2, <3>1, <3>2, KeepsStay
    <3> QED
      BY <2>2, <3>1, <3>3 DEF LoneCallFits
  <2>7. known' => Keeps(Published, sent)'
    BY <1>2, <2>1, PublishedStays
  <2> QED
    BY <2>3, <2>4, <2>5, <2>6, <2>7 DEF LedgerInv
<1>4. CASE Calling # {}
  <2>1. /\ calls' = [d \in LedgerCalls |-> IF d = c THEN Overlapped(r) ELSE
                                             IF d \in Calling THEN Overlapped(calls[d]) ELSE calls[d]]
        /\ sent' = <<>> /\ known' = FALSE
    BY <1>4 DEF Begins
  <2>2. \A q \in CallRecords : /\ Overlapped(q) \in CallRecords /\ ~Overlapped(q).alone
                               /\ Overlapped(q).step = q.step /\ Overlapped(q).file = q.file
    <3> SUFFICES ASSUME NEW q \in CallRecords
                 PROVE  /\ Overlapped(q) \in CallRecords /\ ~Overlapped(q).alone
                        /\ Overlapped(q).step = q.step /\ Overlapped(q).file = q.file
      OBVIOUS
    <3>1. <<>> \in Seq(Rows)
      OBVIOUS
    <3>2. PICK none \in Seq(Rows) : none = <<>>
      BY <3>1
    <3>4. Overlapped(q) = [q EXCEPT !.alone = FALSE, !.sent = none]
      BY <3>2 DEF Overlapped
    <3>5. [q EXCEPT !.alone = FALSE, !.sent = none] = [[q EXCEPT !.alone = FALSE] EXCEPT !.sent = none]
      OBVIOUS
    <3>6. PICK p : p = [q EXCEPT !.alone = FALSE]
      OBVIOUS
    <3>7. p \in CallRecords /\ p.step = q.step /\ p.file = q.file /\ ~p.alone
      BY <3>6 DEF CallRecords
    <3>8. [p EXCEPT !.sent = none] \in CallRecords
      BY <3>7 DEF CallRecords
    <3>9. [p EXCEPT !.sent = none].step = p.step /\ [p EXCEPT !.sent = none].file = p.file
          /\ ~[p EXCEPT !.sent = none].alone
      BY <3>7 DEF CallRecords
    <3> QED
      BY <3>4, <3>5, <3>6, <3>7, <3>8, <3>9
  <2>3. \A d \in LedgerCalls : calls'[d] \in CallRecords
    BY <1>2, <2>1, <2>2
  <2>4. \A d \in LedgerCalls : calls'[d].step \in {"write", "rename"} <=> calls'[d].file # NoFile
    <3> SUFFICES ASSUME NEW d \in LedgerCalls
                 PROVE  calls'[d].step \in {"write", "rename"} <=> calls'[d].file # NoFile
      OBVIOUS
    <3>1. CASE d = c
      BY <2>1, <2>2, <3>1
    <3>2. CASE d # c
      <4>1. calls'[d].step = calls[d].step /\ calls'[d].file = calls[d].file
        BY <1>2, <2>1, <2>2, <3>2
      <4> QED
        BY <1>1, <4>1 DEF LedgerShapes
    <3> QED
      BY <3>1, <3>2
  <2>5. \A d \in Calling' : ~calls'[d].alone
    <3> SUFFICES ASSUME NEW d \in LedgerCalls, calls'[d].step # "idle" PROVE ~calls'[d].alone
      BY DEF Calling
    <3>1. d = c \/ d \in Calling
      BY <2>1 DEF Calling
    <3> QED
      BY <1>2, <2>1, <2>2, <3>1
  <2>6. LedgerShapes'
    <3>1. calls' \in [LedgerCalls -> CallRecords]
      BY <2>1, <2>3
    <3>2. sent' \in Seq(Rows)
      BY <2>1
    <3> QED
      BY <1>1, <1>2, <2>1, <2>4, <3>1, <3>2 DEF LedgerShapes, Files
  <2> QED
    BY <2>1, <2>5, <2>6 DEF LedgerInv, LoneCalls, LoneCallFits
<1> QED
  BY <1>3, <1>4

\* A call of which one thing is different.
LEMMA OtherStep ==
    ASSUME NEW q \in CallRecords, NEW x \in CallSteps, NEW p, p = [q EXCEPT !.step = x]
    PROVE  /\ p \in CallRecords /\ p.step = x /\ p.rows = q.rows /\ p.file = q.file
           /\ p.sent = q.sent /\ p.saving = q.saving /\ p.alone = q.alone
  BY DEF CallRecords

LEMMA OtherRows ==
    ASSUME NEW q \in CallRecords, NEW x \in Seq(Rows), NEW p, p = [q EXCEPT !.rows = x]
    PROVE  /\ p \in CallRecords /\ p.rows = x /\ p.step = q.step /\ p.file = q.file
           /\ p.sent = q.sent /\ p.saving = q.saving /\ p.alone = q.alone
  BY DEF CallRecords

LEMMA OtherFile ==
    ASSUME NEW q \in CallRecords, NEW x \in Files \cup {NoFile}, NEW p, p = [q EXCEPT !.file = x]
    PROVE  /\ p \in CallRecords /\ p.file = x /\ p.step = q.step /\ p.rows = q.rows
           /\ p.sent = q.sent /\ p.saving = q.saving /\ p.alone = q.alone
  BY DEF CallRecords

LEMMA OtherSent ==
    ASSUME NEW q \in CallRecords, NEW x \in Seq(Rows), NEW p, p = [q EXCEPT !.sent = x]
    PROVE  /\ p \in CallRecords /\ p.sent = x /\ p.step = q.step /\ p.rows = q.rows
           /\ p.file = q.file /\ p.saving = q.saving /\ p.alone = q.alone
  BY DEF CallRecords

LEMMA OtherSaving ==
    ASSUME NEW q \in CallRecords, NEW p, p = [q EXCEPT !.saving = TRUE]
    PROVE  /\ p \in CallRecords /\ p.saving /\ p.step = q.step /\ p.rows = q.rows
           /\ p.file = q.file /\ p.sent = q.sent /\ p.alone = q.alone
  BY DEF CallRecords

\* Each step of a call keeps the ledger right.
LEMMA ReadReviewLedgerFits ==
    ASSUME LedgerInv, NEW c \in LedgerCalls, ReadReviewLedger(c) PROVE LedgerInv'
<1> DEFINE r == [Resting EXCEPT !.step = "read"]
<1>1. r \in CallRecords /\ r.step = "read" /\ r.file = NoFile /\ r.alone /\ ~r.saving
  <2>1. Resting \in CallRecords /\ Resting.file = NoFile /\ Resting.alone /\ ~Resting.saving
    BY DEF Resting, CallRecords, CallSteps
  <2>2. PICK q \in CallRecords : q = Resting
    BY <2>1
  <2> QED
    BY <2>1, <2>2, OtherStep DEF CallSteps
<1>2. Begins(c, r) /\ saves' \in Nat
  BY DEF ReadReviewLedger, LedgerInv, LedgerShapes
<1> HIDE DEF r
<1> QED
  BY <1>1, <1>2, BeginsFits

LEMMA SnapshotIs ==
    ASSUME LedgerShapes, NEW rows \in Snapshots PROVE rows \in Seq(Rows)
<1>1. day - 1 \in Nat /\ saves \in Nat /\ saves + 1 \in Nat
  BY DEF LedgerShapes
<1>2. PICK s \in Subjects : rows \in {<<>>, <<Decision(s, saves), Decision(s, saves + 1)>>,
                                      <<Decision(s, saves + 1), ReceiptRow(s, day - 1)>>}
  BY DEF Snapshots
<1>3. Decision(s, saves) \in Rows /\ Decision(s, saves + 1) \in Rows /\ ReceiptRow(s, day - 1) \in Rows
  BY <1>1 DEF Decision, ReceiptRow, Rows
<1>4. PICK first, second, receipt \in Rows : /\ first = Decision(s, saves) /\ second = Decision(s, saves + 1)
                                           /\ receipt = ReceiptRow(s, day - 1)
  BY <1>3
<1>5. rows = <<>> \/ rows = <<first, second>> \/ rows = <<second, receipt>>
  BY <1>2, <1>4
<1>6. <<>> \in Seq(Rows) /\ <<first, second>> \in Seq(Rows) /\ <<second, receipt>> \in Seq(Rows)
  OBVIOUS
<1> QED
  BY <1>5, <1>6

LEMMA SaveReviewLedgerFits ==
    ASSUME LedgerInv, NEW c \in LedgerCalls, NEW rows \in Snapshots, SaveReviewLedger(c, rows)
    PROVE  LedgerInv'
<1>1. rows \in Seq(Rows)
  BY SnapshotIs DEF LedgerInv
<1>2. PICK kept : kept = CompactSnapshot(rows)
  OBVIOUS
<1>3. kept \in Seq(Rows) /\ Keeps(kept, rows)
  BY <1>1, <1>2, CompactKeeps
<1> DEFINE r == [Resting EXCEPT !.step = "open", !.rows = kept, !.sent = rows, !.saving = TRUE]
<1>4. r \in CallRecords /\ r.step = "open" /\ r.file = NoFile /\ r.alone /\ r.saving /\ r.rows = kept /\ r.sent = rows
  <2>1. Resting \in CallRecords /\ Resting.file = NoFile /\ Resting.alone
    BY DEF Resting, CallRecords, CallSteps
  <2>2. PICK q \in CallRecords : q = Resting
    BY <2>1
  <2>3. PICK q1 : q1 = [q EXCEPT !.step = "open"]
    OBVIOUS
  <2>4. PICK q2 : q2 = [q1 EXCEPT !.rows = kept]
    OBVIOUS
  <2>5. PICK q3 : q3 = [q2 EXCEPT !.sent = rows]
    OBVIOUS
  <2>6. PICK q4 : q4 = [q3 EXCEPT !.saving = TRUE]
    OBVIOUS
  <2>7. r = q4
    BY <2>2, <2>3, <2>4, <2>5, <2>6
  <2>8. q1 \in CallRecords /\ q1.step = "open" /\ q1.file = NoFile /\ q1.alone
    BY <2>1, <2>2, <2>3, OtherStep DEF CallSteps
  <2>9. q2 \in CallRecords /\ q2.step = "open" /\ q2.file = NoFile /\ q2.alone /\ q2.rows = kept
    BY <1>3, <2>4, <2>8, OtherRows
  <2>10. q3 \in CallRecords /\ q3.step = "open" /\ q3.file = NoFile /\ q3.alone /\ q3.rows = kept /\ q3.sent = rows
    BY <1>1, <2>5, <2>9, OtherSent
  <2> HIDE DEF r
  <2>12. q4 \in CallRecords /\ q4.saving /\ q4.step = q3.step /\ q4.file = q3.file /\ q4.alone = q3.alone
         /\ q4.rows = q3.rows /\ q4.sent = q3.sent
    BY <2>6, <2>10, OtherSaving
  <2> QED
    BY <2>7, <2>10, <2>12
<1>6. Begins(c, r) /\ saves' \in Nat
  BY <1>2 DEF SaveReviewLedger, LedgerInv, LedgerShapes
<1> HIDE DEF r
<1> QED
  BY <1>3, <1>4, <1>6, BeginsFits

LEMMA ReadAllFits ==
    ASSUME LedgerInv, NEW c \in LedgerCalls, ReadAll(c) PROVE LedgerInv'
<1>1. /\ LedgerShapes /\ LoneCalls /\ calls[c].step = "read" /\ calls[c] \in CallRecords /\ c \in Calling
      /\ UNCHANGED <<ledger, temp, contents, day, saves, sent, known>>
  BY DEF LedgerInv, LedgerShapes, ReadAll, Calling
<1>2. PICK before : before = Published
  OBVIOUS
<1>3. before \in Seq(Rows)
  BY <1>1, <1>2 DEF Published, LedgerShapes, NoFile
<1>4. PICK kept : kept = IF ledger = NoFile THEN <<>> ELSE CompactSnapshot(before)
  OBVIOUS
<1>5. kept \in Seq(Rows)
  BY <1>3, <1>4, CompactKeeps
<1>6. PICK snapshot : snapshot = sent
  OBVIOUS
<1>7. known => Keeps(kept, snapshot)
  <2> SUFFICES ASSUME known PROVE Keeps(kept, snapshot)
    OBVIOUS
  <2>1. Keeps(before, snapshot)
    BY <1>2, <1>6 DEF LedgerInv
  <2>2. CASE ledger = NoFile
    BY <1>2, <1>4, <2>1, <2>2 DEF Published
  <2>3. CASE ledger # NoFile
    <3>1. Keeps(kept, before)
      BY <1>3, <1>4, <2>3, CompactKeeps
    <3>2. \A i \in DOMAIN before : IsLast(i, before)
      <4> SUFFICES ASSUME NEW i \in DOMAIN before, NEW j \in (i + 1)..Len(before), SameRow(before[j], before[i])
                   PROVE  FALSE
        BY DEF IsLast
      <4>1. j \in DOMAIN before /\ j # i
        BY <1>3
      <4> QED
        BY <2>1, <4>1 DEF Keeps, Distinct
    <3>3. \A row \in ToSet(before) : ~Outdated(row) => row \in ToSet(kept)
      BY <3>1, <3>2 DEF Keeps, ToSet
    <3> QED
      BY <2>1, <3>1, <3>3 DEF Keeps
  <2> QED
    BY <2>2, <2>3
<1>8. PICK call : call = calls[c]
  OBVIOUS
<1> DEFINE r == [call EXCEPT !.step = "open", !.rows = kept]
<1>9. calls' = [calls EXCEPT ![c] = r]
  BY <1>1, <1>2, <1>4, <1>8 DEF ReadAll, Published, LedgerShapes
<1>10. call \in CallRecords /\ call.step = "read"
  BY <1>1, <1>8
<1>12. r \in CallRecords /\ r.step = "open" /\ r.rows = kept /\ r.file = call.file /\ r.saving = call.saving
       /\ r.alone = call.alone
  <2>1. PICK q : q = [call EXCEPT !.step = "open"]
    OBVIOUS
  <2>2. r = [q EXCEPT !.rows = kept]
    BY <2>1
  <2>3. q \in CallRecords /\ q.step = "open" /\ q.file = call.file /\ q.saving = call.saving /\ q.alone = call.alone
    BY <1>10, <2>1, OtherStep DEF CallSteps
  <2> HIDE DEF r
  <2> QED
    BY <1>5, <2>2, <2>3, OtherRows
<1> HIDE DEF r
<1>13. calls \in [LedgerCalls -> CallRecords]
  BY <1>1 DEF LedgerShapes
<1>14. calls'[c] = r /\ \A d \in LedgerCalls \ {c} : calls'[d] = calls[d]
  BY <1>9, <1>13
<1>15. LedgerShapes'
  <2>1. calls' \in [LedgerCalls -> CallRecords]
    BY <1>9, <1>12, <1>13
  <2>2. call.file = NoFile
    BY <1>1, <1>8 DEF LedgerShapes
  <2>3. \A d \in LedgerCalls : calls'[d].step \in {"write", "rename"} <=> calls'[d].file # NoFile
    BY <1>1, <1>12, <1>14, <2>2 DEF LedgerShapes
  <2> QED
    BY <1>1, <2>1, <2>3 DEF LedgerShapes, Files
<1>16. LoneCallFits(c)'
  <2>1. snapshot \in Seq(Rows) /\ day \in Nat
    BY <1>1, <1>6 DEF LedgerShapes
  <2>2. known => Keeps(kept, snapshot)'
    BY <1>1, <1>7, <2>1, KeepsStay
  <2>3. ~(call.alone /\ call.saving)
    BY <1>1, <1>8 DEF LedgerInv, LoneCallFits
  <2> QED
    BY <1>1, <1>6, <1>12, <1>14, <2>2, <2>3 DEF LoneCallFits
<1>17. LoneCalls' /\ \A d \in Calling' : LoneCallFits(d)'
  BY <1>1, <1>8, <1>9, <1>12, <1>16, OthersGoOn
<1>18. known' => Keeps(Published, sent)'
  <2>1. day' \in Nat /\ day <= day'
    BY <1>1 DEF LedgerShapes
  <2> QED
    BY <1>1, <2>1, PublishedStays
<1> QED
  BY <1>15, <1>17, <1>18 DEF LedgerInv

\* There are more files than ledgers and calls that write.
LEMMA UnusedIs ==
    ASSUME LedgerShapes, temp = NoFile, NEW c \in LedgerCalls, calls[c].step = "open"
    PROVE  Unused \in Files /\ Unused \notin {ledger, temp} \cup {calls[d].file : d \in LedgerCalls}
<1> DEFINE Taken == {calls[d].file : d \in LedgerCalls}
<1>1. IsFiniteSet(LedgerCalls) /\ Cardinality(LedgerCalls) \in Nat
  BY LedgerAssumption, FS_CardinalityType
<1>2. IsFiniteSet(Files) /\ Cardinality(Files) = Cardinality(LedgerCalls) + 2 /\ NoFile \notin Files
  <2>1. PICK n \in Nat : n = Cardinality(LedgerCalls) + 2
    BY <1>1
  <2>2. Files = 1..n
    BY <2>1 DEF Files
  <2>3. IsFiniteSet(1..n) /\ Cardinality(1..n) = n
    BY FS_Interval
  <2> QED
    BY <2>1, <2>2, <2>3 DEF NoFile
<1>3. IsFiniteSet(Taken) /\ Cardinality(Taken) <= Cardinality(LedgerCalls)
  <2> DEFINE f == [d \in LedgerCalls |-> calls[d].file]
  <2>1. f \in Surjection(LedgerCalls, Taken)
    BY DEF Surjection
  <2> HIDE DEF f, Taken
  <2> QED
    BY <1>1, <2>1, FS_Surjection
<1>4. IsFiniteSet(Taken \cup {ledger}) /\ Cardinality(Taken \cup {ledger}) <= Cardinality(LedgerCalls) + 1
  <2> HIDE DEF Taken
  <2>1. Cardinality(Taken) \in Nat
    BY <1>3, FS_CardinalityType
  <2>2. IsFiniteSet(Taken \cup {ledger})
    BY <1>3, FS_AddElement
  <2>3. Cardinality(Taken \cup {ledger}) = Cardinality(Taken) \/ Cardinality(Taken \cup {ledger}) = Cardinality(Taken) + 1
    BY <1>3, FS_AddElement
  <2> QED
    BY <1>1, <1>3, <2>1, <2>2, <2>3
<1>5. \E f \in Files : f \notin {ledger, temp} \cup {calls[d].file : d \in LedgerCalls}
  <2> SUFFICES ASSUME Files \subseteq Taken \cup {ledger} PROVE FALSE
    BY <1>2
  <2> HIDE DEF Taken
  <2>1. Cardinality(Files) <= Cardinality(Taken \cup {ledger})
    BY <1>4, FS_Subset
  <2>2. Cardinality(Taken \cup {ledger}) \in Nat
    BY <1>4, FS_CardinalityType
  <2> QED
    BY <1>1, <1>2, <1>4, <2>1, <2>2
<1> QED
  BY <1>5 DEF Unused

\* What a call is going to write is still what it has to keep.
LEMMA RowsStay ==
    ASSUME LedgerInv, NEW c \in Calling, calls[c].alone, calls[c].step # "read", day' \in Nat, day <= day',
           known' => known, NEW rows, rows = calls[c].rows, NEW snapshot,
           snapshot = IF calls[c].saving THEN calls[c].sent ELSE sent
    PROVE  calls[c].saving \/ known' => Keeps(rows, snapshot)'
<1>1. LoneCallFits(c) /\ day \in Nat /\ sent \in Seq(Rows) /\ calls[c] \in CallRecords
  BY DEF LedgerInv, LedgerShapes, Calling
<1>2. snapshot \in Seq(Rows)
  BY <1>1 DEF CallRecords
<1>3. calls[c].saving \/ known' => Keeps(rows, snapshot)
  BY <1>1 DEF LoneCallFits
<1> QED
  BY <1>1, <1>2, <1>3, KeepsStay

LEMMA OpenTempFits ==
    ASSUME LedgerInv, NEW c \in LedgerCalls, OpenTemp(c) PROVE LedgerInv'
<1>1. /\ LedgerShapes /\ LoneCalls /\ calls[c].step = "open" /\ calls[c] \in CallRecords /\ c \in Calling
      /\ UNCHANGED <<ledger, day, saves, sent, known>>
  BY DEF LedgerInv, LedgerShapes, OpenTemp, Calling
<1>2. PICK t : t = temp'
  OBVIOUS
<1>3. t \in Files /\ t # ledger /\ t # NoFile
  <2>1. CASE temp = NoFile
    <3>1. t = Unused
      BY <1>2, <2>1 DEF OpenTemp
    <3> QED
      BY <1>1, <2>1, <3>1, UnusedIs DEF Files, NoFile
  <2>2. CASE temp # NoFile
    BY <1>1, <1>2, <2>2 DEF OpenTemp, LedgerShapes
  <2> QED
    BY <2>1, <2>2
<1>4. contents' = [contents EXCEPT ![t] = <<>>] /\ contents \in [Files -> Seq(Rows)]
  BY <1>1, <1>2 DEF OpenTemp, LedgerShapes
<1>5. contents' \in [Files -> Seq(Rows)] /\ contents'[t] = <<>> /\ \A f \in Files \ {t} : contents'[f] = contents[f]
  <2>0. <<>> \in Seq(Rows)
    OBVIOUS
  <2>1. PICK none \in Seq(Rows) : none = <<>>
    BY <2>0
  <2>2. contents' = [contents EXCEPT ![t] = none]
    BY <1>4, <2>1
  <2> QED
    BY <1>3, <1>4, <2>1, <2>2
<1>6. PICK call : call = calls[c]
  OBVIOUS
<1> DEFINE r == [call EXCEPT !.step = "write", !.file = t]
<1>7. calls' = [calls EXCEPT ![c] = r]
  BY <1>1, <1>2, <1>6 DEF OpenTemp, LedgerShapes
<1>8. call \in CallRecords /\ call.step = "open"
  BY <1>1, <1>6
<1>9. /\ r \in CallRecords /\ r.step = "write" /\ r.file = t /\ r.rows = call.rows /\ r.sent = call.sent
      /\ r.saving = call.saving /\ r.alone = call.alone
  <2>1. PICK q : q = [call EXCEPT !.step = "write"]
    OBVIOUS
  <2>2. r = [q EXCEPT !.file = t]
    BY <2>1
  <2>3. /\ q \in CallRecords /\ q.step = "write" /\ q.rows = call.rows /\ q.sent = call.sent
        /\ q.saving = call.saving /\ q.alone = call.alone
    BY <1>8, <2>1, OtherStep DEF CallSteps
  <2> HIDE DEF r
  <2> QED
    BY <1>3, <2>2, <2>3, OtherFile
<1> HIDE DEF r
<1>10. calls \in [LedgerCalls -> CallRecords]
  BY <1>1 DEF LedgerShapes
<1>11. calls'[c] = r /\ (\A d \in LedgerCalls \ {c} : calls'[d] = calls[d]) /\ calls' \in [LedgerCalls -> CallRecords]
  BY <1>7, <1>9, <1>10
<1>12. LedgerShapes'
  <2>1. \A d \in LedgerCalls : calls'[d].step \in {"write", "rename"} <=> calls'[d].file # NoFile
    BY <1>1, <1>3, <1>9, <1>11 DEF LedgerShapes
  <2> QED
    BY <1>1, <1>2, <1>3, <1>5, <1>11, <2>1 DEF LedgerShapes, Files
<1>13. LoneCallFits(c)'
  <2> SUFFICES ASSUME call.alone PROVE LoneCallFits(c)'
    BY <1>9, <1>11 DEF LoneCallFits
  <2>1. PICK snapshot : snapshot = IF call.saving THEN call.sent ELSE sent
    OBVIOUS
  <2>2. day' \in Nat /\ day <= day'
    BY <1>1 DEF LedgerShapes
  <2>3. call.saving \/ known' => Keeps(call.rows, snapshot)'
    BY <1>1, <1>6, <1>8, <2>1, <2>2, RowsStay
  <2> QED
    BY <1>1, <1>2, <1>5, <1>9, <1>11, <2>1, <2>3 DEF LoneCallFits
<1>14. LoneCalls' /\ \A d \in Calling' : LoneCallFits(d)'
  BY <1>1, <1>6, <1>7, <1>9, <1>13, OthersGoOn
<1>15. known' => Keeps(Published, sent)'
  <2>1. day' \in Nat /\ day <= day' /\ (ledger # NoFile => ledger \in Files)
    BY <1>1 DEF LedgerShapes
  <2> QED
    BY <1>1, <1>3, <1>5, <2>1, PublishedStays
<1> QED
  BY <1>12, <1>14, <1>15 DEF LedgerInv

LEMMA WriteTempFits ==
    ASSUME LedgerInv, NEW c \in LedgerCalls, WriteTemp(c) PROVE LedgerInv'
<1>1. /\ LedgerShapes /\ LoneCalls /\ calls[c].step = "write" /\ calls[c] \in CallRecords /\ c \in Calling
      /\ UNCHANGED <<ledger, temp, day, saves, sent, known>> /\ LoneCallFits(c)
  BY DEF LedgerInv, LedgerShapes, WriteTemp, Calling
<1>2. PICK call, old, f : call = calls[c] /\ f = calls[c].file /\ old = contents[calls[c].file]
  OBVIOUS
<1>3. call \in CallRecords /\ call.step = "write" /\ call.rows \in Seq(Rows) /\ f \in Files /\ f # NoFile
  BY <1>1, <1>2 DEF LedgerShapes, CallRecords
<1>4. contents \in [Files -> Seq(Rows)] /\ old \in Seq(Rows)
  BY <1>1, <1>2, <1>3 DEF LedgerShapes
<1>5. PICK cut \in {0, 1} : contents' = [contents EXCEPT ![f] =
          call.rows \o (IF Len(old) > Len(call.rows) + cut THEN SubSeq(old, Len(call.rows) + cut + 1, Len(old)) ELSE <<>>)]
  BY <1>2 DEF WriteTemp
<1>6. PICK rest : rest = IF Len(old) > Len(call.rows) + cut THEN SubSeq(old, Len(call.rows) + cut + 1, Len(old)) ELSE <<>>
  OBVIOUS
<1>7. rest \in Seq(Rows) /\ (old = <<>> => rest = <<>>)
  <2>1. SubSeq(old, Len(call.rows) + cut + 1, Len(old)) \in Seq(Rows)
    BY <1>3, <1>4
  <2>2. old = <<>> => ~(Len(old) > Len(call.rows) + cut)
    <3>1. Len(call.rows) \in Nat /\ Len(<<>>) = 0
      BY <1>3
    <3> QED
      BY <3>1
  <2>3. <<>> \in Seq(Rows)
    OBVIOUS
  <2>4. CASE Len(old) > Len(call.rows) + cut
    BY <1>6, <2>1, <2>2, <2>4
  <2>5. CASE ~(Len(old) > Len(call.rows) + cut)
    <3>1. rest = <<>>
      BY <1>6, <2>5
    <3> QED
      BY <2>3, <3>1
  <2> QED
    BY <2>4, <2>5
<1>8. PICK new : new = call.rows \o rest
  OBVIOUS
<1>9. new \in Seq(Rows) /\ (old = <<>> => new = call.rows)
  BY <1>3, <1>7, <1>8
<1>10. contents' = [contents EXCEPT ![f] = new]
  BY <1>5, <1>6, <1>8
<1>11. contents' \in [Files -> Seq(Rows)] /\ contents'[f] = new /\ \A g \in Files \ {f} : contents'[g] = contents[g]
  BY <1>3, <1>4, <1>9, <1>10
<1> DEFINE r == [call EXCEPT !.step = "rename"]
<1>12. calls' = [calls EXCEPT ![c] = r]
  BY <1>1, <1>2 DEF WriteTemp, LedgerShapes
<1>13. /\ r \in CallRecords /\ r.step = "rename" /\ r.file = call.file /\ r.rows = call.rows /\ r.sent = call.sent
       /\ r.saving = call.saving /\ r.alone = call.alone
  BY <1>3, OtherStep DEF CallSteps
<1> HIDE DEF r
<1>14. calls \in [LedgerCalls -> CallRecords]
  BY <1>1 DEF LedgerShapes
<1>15. calls'[c] = r /\ (\A d \in LedgerCalls \ {c} : calls'[d] = calls[d]) /\ calls' \in [LedgerCalls -> CallRecords]
  BY <1>12, <1>13, <1>14
<1>16. LedgerShapes'
  <2>1. \A d \in LedgerCalls : calls'[d].step \in {"write", "rename"} <=> calls'[d].file # NoFile
    BY <1>1, <1>2, <1>3, <1>13, <1>15 DEF LedgerShapes
  <2> QED
    BY <1>1, <1>11, <1>15, <2>1 DEF LedgerShapes, Files
<1>17. call.alone => f = temp /\ old = <<>>
  BY <1>1, <1>2, <1>3 DEF LoneCallFits
<1>18. LoneCallFits(c)'
  <2> SUFFICES ASSUME call.alone PROVE LoneCallFits(c)'
    BY <1>13, <1>15 DEF LoneCallFits
  <2>1. PICK snapshot : snapshot = IF call.saving THEN call.sent ELSE sent
    OBVIOUS
  <2>2. day' \in Nat /\ day <= day'
    BY <1>1 DEF LedgerShapes
  <2>3. call.saving \/ known' => Keeps(call.rows, snapshot)'
    BY <1>1, <1>2, <1>3, <2>1, <2>2, RowsStay
  <2> QED
    BY <1>1, <1>2, <1>9, <1>11, <1>13, <1>15, <1>17, <2>1, <2>3 DEF LoneCallFits
<1>19. LoneCalls' /\ \A d \in Calling' : LoneCallFits(d)'
  BY <1>1, <1>2, <1>12, <1>13, <1>18, OthersGoOn
<1>20. known' => Keeps(Published, sent)'
  <2>1. day' \in Nat /\ day <= day' /\ (ledger # NoFile => ledger \in Files)
    BY <1>1 DEF LedgerShapes
  <2>2. known => f # ledger
    <3>1. known => call.alone
      BY <1>1, <1>2 DEF LoneCalls
    <3> QED
      BY <1>1, <1>3, <1>17, <3>1 DEF LedgerShapes
  <2> QED
    BY <1>1, <1>11, <2>1, <2>2, PublishedStays
<1> QED
  BY <1>16, <1>19, <1>20 DEF LedgerInv

LEMMA RestingIs == Resting \in CallRecords /\ Resting.step = "idle" /\ Resting.file = NoFile
  BY DEF Resting, CallRecords, CallSteps

LEMMA EndsIs ==
    ASSUME LedgerShapes, NEW c \in LedgerCalls, CallEnds(c)
    PROVE  /\ calls' = [calls EXCEPT ![c] = Resting] /\ calls' \in [LedgerCalls -> CallRecords]
           /\ c \notin Calling'
           /\ \A d \in LedgerCalls : calls'[d].step \in {"write", "rename"} <=> calls'[d].file # NoFile
<1>1. calls \in [LedgerCalls -> CallRecords] /\ calls' = [calls EXCEPT ![c] = Resting]
  BY DEF LedgerShapes, CallEnds
<1>2. calls'[c] = Resting /\ (\A d \in LedgerCalls \ {c} : calls'[d] = calls[d]) /\ calls' \in [LedgerCalls -> CallRecords]
  BY <1>1, RestingIs
<1>3. c \notin Calling'
  BY <1>2, RestingIs DEF Calling
<1>4. \A d \in LedgerCalls : calls'[d].step \in {"write", "rename"} <=> calls'[d].file # NoFile
  BY <1>2, RestingIs DEF LedgerShapes
<1> QED
  BY <1>1, <1>2, <1>3, <1>4

LEMMA WriteFailsFits ==
    ASSUME LedgerInv, NEW c \in LedgerCalls, WriteFails(c) PROVE LedgerInv'
<1>1. /\ LedgerShapes /\ LoneCalls /\ calls[c].step = "write" /\ calls[c] \in CallRecords /\ c \in Calling
      /\ UNCHANGED <<ledger, temp, day, saves, sent, known>> /\ LoneCallFits(c) /\ CallEnds(c)
  BY DEF LedgerInv, LedgerShapes, WriteFails, Calling
<1>2. PICK f, rows : f = calls[c].file /\ rows = calls[c].rows
  OBVIOUS
<1>3. f \in Files /\ rows \in Seq(Rows) /\ contents \in [Files -> Seq(Rows)]
  BY <1>1, <1>2 DEF LedgerShapes, CallRecords
<1>4. PICK n \in 0..Len(rows) : contents' = [contents EXCEPT ![f] = SubSeq(rows, 1, n)]
  BY <1>2 DEF WriteFails
<1>5. SubSeq(rows, 1, n) \in Seq(Rows)
  BY <1>3
<1>6. contents' \in [Files -> Seq(Rows)] /\ \A g \in Files \ {f} : contents'[g] = contents[g]
  BY <1>3, <1>4, <1>5
<1>7. LedgerShapes'
  BY <1>1, <1>6, EndsIs DEF LedgerShapes, Files
<1>8. LoneCalls' /\ \A d \in Calling' : LoneCallFits(d)'
  BY <1>1, EndsIs, RestingIs, OthersGoOn
<1>9. known' => Keeps(Published, sent)'
  <2>1. day' \in Nat /\ day <= day' /\ (ledger # NoFile => ledger \in Files)
    BY <1>1 DEF LedgerShapes
  <2>2. known => f # ledger
    <3>1. known => f = temp /\ f # NoFile
      BY <1>1, <1>2 DEF LoneCalls, LoneCallFits, LedgerShapes
    <3> QED
      BY <1>1, <3>1 DEF LedgerShapes
  <2> QED
    BY <1>1, <1>6, <2>1, <2>2, PublishedStays
<1> QED
  BY <1>7, <1>8, <1>9 DEF LedgerInv

LEMMA RenameFits ==
    ASSUME LedgerInv, NEW c \in LedgerCalls, Rename(c) PROVE LedgerInv'
<1>1. /\ LedgerShapes /\ LoneCalls /\ calls[c].step = "rename" /\ calls[c] \in CallRecords /\ c \in Calling
      /\ UNCHANGED <<day, saves>> /\ LoneCallFits(c) /\ CallEnds(c) /\ Forgotten /\ day \in Nat
  BY DEF LedgerInv, LedgerShapes, Rename, Calling
<1>2. contents' \in [Files -> Seq(Rows)] /\ \A f \in Files : f \in {ledger', temp'} => contents'[f] = contents[f]
  <2>1. contents \in [Files -> Seq(Rows)] /\ <<>> \in Seq(Rows)
    BY <1>1 DEF LedgerShapes
  <2>2. PICK used : used = {ledger', temp'} \cup {calls'[d].file : d \in LedgerCalls}
    OBVIOUS
  <2>3. contents' = [f \in Files |-> IF f \in used THEN contents[f] ELSE <<>>]
    BY <1>1, <2>2 DEF Forgotten
  <2>4. \A f \in Files : contents'[f] \in Seq(Rows)
    BY <2>1, <2>3
  <2>5. \A f \in Files : f \in {ledger', temp'} => contents'[f] = contents[f]
    BY <2>2, <2>3
  <2> QED
    BY <2>3, <2>4, <2>5
<1>3. PICK call : call = calls[c]
  OBVIOUS
<1>4. call \in CallRecords /\ (call.alone => call.file = temp /\ contents[temp] = call.rows) /\ call.file # NoFile
  BY <1>1, <1>3 DEF LoneCallFits, LedgerShapes
<1>5. CASE temp = NoFile
  <2>1. UNCHANGED <<ledger, temp, sent, known>>
    BY <1>5 DEF Rename
  <2>2. LedgerShapes'
    BY <1>1, <1>2, <2>1, EndsIs DEF LedgerShapes, Files
  <2>3. LoneCalls' /\ \A d \in Calling' : LoneCallFits(d)'
    BY <1>1, <2>1, EndsIs, RestingIs, OthersGoOn
  <2>4. known' => Keeps(Published, sent)'
    <3>1. ledger # NoFile => ledger \in Files
      BY <1>1 DEF LedgerShapes
    <3> QED
      BY <1>1, <1>2, <2>1, <3>1, PublishedStays
  <2> QED
    BY <2>2, <2>3, <2>4 DEF LedgerInv
<1>6. CASE temp # NoFile /\ call.saving
  <2>1. ledger' = temp /\ temp' = NoFile /\ sent' = call.sent /\ known' = call.alone
    BY <1>3, <1>6 DEF Rename
  <2>2. LedgerShapes'
    <3>1. sent' \in Seq(Rows) /\ known' \in BOOLEAN /\ ledger' \in Files
      BY <1>1, <1>4, <1>6, <2>1 DEF CallRecords, LedgerShapes
    <3> QED
      BY <1>1, <1>2, <2>1, <3>1, EndsIs DEF LedgerShapes, Files
  <2>3. LoneCalls' /\ \A d \in Calling' : LoneCallFits(d)'
    BY <1>1, <1>3, <2>1, EndsIs, RestingIs, OthersGoOn
  <2>4. known' => Keeps(Published, sent)'
    <3> SUFFICES ASSUME call.alone PROVE Keeps(Published, sent)'
      BY <2>1
    <3>1. PICK rows, snapshot : rows = call.rows /\ snapshot = call.sent
      OBVIOUS
    <3>2. Keeps(rows, snapshot) /\ snapshot \in Seq(Rows)
      BY <1>1, <1>3, <1>4, <1>6, <3>1 DEF LoneCallFits, CallRecords
    <3>3. Keeps(rows, snapshot)'
      BY <1>1, <3>2, KeepsStay
    <3>4. Published' = rows /\ sent' = snapshot
      BY <1>2, <1>4, <1>6, <2>1, <2>2, <3>1 DEF Published, LedgerShapes
    <3> QED
      BY <3>3, <3>4
  <2> QED
    BY <2>2, <2>3, <2>4 DEF LedgerInv
<1>7. CASE temp # NoFile /\ ~call.saving
  <2>1. ledger' = temp /\ temp' = NoFile /\ sent' = sent /\ known' = known
    BY <1>3, <1>7 DEF Rename
  <2>2. LedgerShapes'
    <3>1. ledger' \in Files
      BY <1>1, <1>7, <2>1 DEF LedgerShapes
    <3> QED
      BY <1>1, <1>2, <2>1, <3>1, EndsIs DEF LedgerShapes, Files
  <2>3. LoneCalls' /\ \A d \in Calling' : LoneCallFits(d)'
    BY <1>1, <2>1, EndsIs, RestingIs, OthersGoOn
  <2>4. known' => Keeps(Published, sent)'
    <3> SUFFICES ASSUME known PROVE Keeps(Published, sent)'
      BY <2>1
    <3>1. PICK rows, snapshot : rows = call.rows /\ snapshot = sent
      OBVIOUS
    <3>2. call.alone
      BY <1>1, <1>3 DEF LoneCalls
    <3>3. Keeps(rows, snapshot) /\ snapshot \in Seq(Rows)
      BY <1>1, <1>3, <1>4, <1>7, <3>1, <3>2 DEF LoneCallFits, LedgerShapes
    <3>4. Keeps(rows, snapshot)'
      BY <1>1, <3>3, KeepsStay
    <3>5. Published' = rows /\ sent' = snapshot
      BY <1>2, <1>4, <1>7, <2>1, <2>2, <3>1, <3>2 DEF Published, LedgerShapes
    <3> QED
      BY <3>4, <3>5
  <2> QED
    BY <2>2, <2>3, <2>4 DEF LedgerInv
<1> QED
  BY <1>5, <1>6, <1>7

LEMMA LedgerCrashFits == LedgerInv /\ LedgerCrash => LedgerInv'
<1> SUFFICES ASSUME LedgerInv, LedgerCrash PROVE LedgerInv'
  OBVIOUS
<1>1. /\ LedgerShapes /\ calls' = [c \in LedgerCalls |-> Resting]
      /\ UNCHANGED <<ledger, temp, contents, day, saves, sent, known>>
  BY DEF LedgerInv, LedgerCrash
<1>2. Calling' = {} /\ calls' \in [LedgerCalls -> CallRecords]
  BY <1>1, RestingIs DEF Calling
<1>3. LedgerShapes'
  BY <1>1, <1>2, RestingIs DEF LedgerShapes, Files
<1>4. known' => Keeps(Published, sent)'
  <2>1. day' \in Nat /\ day <= day'
    BY <1>1 DEF LedgerShapes
  <2> QED
    BY <1>1, <2>1, PublishedStays
<1> QED
  BY <1>2, <1>3, <1>4 DEF LedgerInv, LoneCalls

LEMMA DayPassesFits == LedgerInv /\ DayPasses => LedgerInv'
<1> SUFFICES ASSUME LedgerInv, DayPasses PROVE LedgerInv'
  OBVIOUS
<1>1. /\ LedgerShapes /\ LoneCalls /\ day' = day + 1 /\ UNCHANGED <<ledger, temp, contents, calls, saves, sent, known>>
  BY DEF LedgerInv, DayPasses
<1>2. day \in Nat /\ day' \in Nat \ {0} /\ day' \in Nat /\ day <= day'
  BY <1>1 DEF LedgerShapes
<1>3. LedgerShapes'
  BY <1>1, <1>2 DEF LedgerShapes, Files
<1>4. LoneCalls' /\ Calling' = Calling
  BY <1>1 DEF LoneCalls, Calling
<1>5. ASSUME NEW c \in Calling PROVE LoneCallFits(c)'
  <2> SUFFICES ASSUME calls[c].alone PROVE LoneCallFits(c)'
    BY <1>1 DEF LoneCallFits
  <2>1. PICK rows, snapshot : rows = calls[c].rows /\ snapshot = IF calls[c].saving THEN calls[c].sent ELSE sent
    OBVIOUS
  <2>2. LoneCallFits(c)
    BY DEF LedgerInv
  <2>3. calls[c].step # "read" /\ (calls[c].saving \/ known) => Keeps(rows, snapshot)'
    BY <1>1, <1>2, <2>1, RowsStay
  <2> QED
    BY <1>1, <2>1, <2>2, <2>3 DEF LoneCallFits
<1>6. known' => Keeps(Published, sent)'
  BY <1>1, <1>2, PublishedStays
<1> QED
  BY <1>3, <1>4, <1>5, <1>6 DEF LedgerInv

LEMMA LedgerGoesOn == LedgerInv /\ [LedgerNext]_ledgerVars => LedgerInv'
<1> SUFFICES ASSUME LedgerInv, [LedgerNext]_ledgerVars PROVE LedgerInv'
  OBVIOUS
<1>1. CASE UNCHANGED ledgerVars
  <2>1. /\ LedgerShapes /\ LoneCalls /\ UNCHANGED <<ledger, temp, contents, calls, day, saves, sent, known>>
    BY <1>1 DEF LedgerInv, ledgerVars
  <2>2. LedgerShapes' /\ LoneCalls' /\ Calling' = Calling /\ (Published' = Published)
    BY <2>1 DEF LedgerShapes, Files, LoneCalls, Calling, Published
  <2>3. \A rows, snapshot : Keeps(rows, snapshot)' <=> Keeps(rows, snapshot)
    BY <2>1 DEF Keeps, Distinct, IsLast, SameRow, Outdated
  <2>4. \A c \in Calling : LoneCallFits(c)'
    <3> SUFFICES ASSUME NEW c \in Calling PROVE LoneCallFits(c)'
      OBVIOUS
    <3>1. PICK rows, own, last : rows = calls[c].rows /\ own = calls[c].sent /\ last = sent
      OBVIOUS
    <3>2. LoneCallFits(c)
      BY DEF LedgerInv
    <3>3. (Keeps(rows, own)' <=> Keeps(rows, own)) /\ (Keeps(rows, last)' <=> Keeps(rows, last))
      BY <2>3
    <3> QED
      BY <2>1, <3>1, <3>2, <3>3 DEF LoneCallFits
  <2>5. known' => Keeps(Published, sent)'
    <3>1. day' \in Nat /\ day <= day'
      BY <2>1 DEF LedgerShapes
    <3> QED
      BY <2>1, <3>1, PublishedStays
  <2> QED
    BY <2>2, <2>4, <2>5 DEF LedgerInv
<1>2. ASSUME NEW c \in LedgerCalls, LedgerCall(c) PROVE LedgerInv'
  BY <1>2, ReadReviewLedgerFits, ReadAllFits, OpenTempFits, WriteTempFits, RenameFits, WriteFailsFits,
     SaveReviewLedgerFits
  DEF LedgerCall
<1>3. CASE LedgerCrash
  BY <1>3, LedgerCrashFits
<1>4. CASE DayPasses
  BY <1>4, DayPassesFits
<1> QED
  BY <1>1, <1>2, <1>3, <1>4 DEF LedgerNext

LEMMA LedgerIsKept == LedgerInv => LedgerTypeOK /\ LoneCallsKeepTheLedger
<1> SUFFICES ASSUME LedgerInv PROVE LedgerTypeOK /\ LoneCallsKeepTheLedger
  OBVIOUS
<1>1. LedgerTypeOK
  BY DEF LedgerInv, LedgerShapes, LedgerTypeOK, CallRecords, Calling
<1>2. ASSUME known PROVE LoneCallsKeepTheLedger
  <2>1. PICK rows, snapshot : rows = Published /\ snapshot = sent
    OBVIOUS
  <2>2. Keeps(rows, snapshot)
    BY <1>2, <2>1 DEF LedgerInv
  <2>3. \A row \in ToSet(snapshot) : LastSent(row) /\ ~Outdated(row) => row \in ToSet(rows)
    <3> SUFFICES ASSUME NEW row \in ToSet(snapshot), LastSent(row), ~Outdated(row) PROVE row \in ToSet(rows)
      OBVIOUS
    <3>1. PICK i \in DOMAIN snapshot : snapshot[i] = row /\ \A j \in i + 1 .. Len(snapshot) : ~SameRow(snapshot[j], row)
      BY <2>1 DEF LastSent
    <3>2. IsLast(i, snapshot)
      BY <3>1 DEF IsLast
    <3> QED
      BY <2>2, <3>1, <3>2 DEF Keeps
  <2> QED
    BY <2>1, <2>2, <2>3 DEF LoneCallsKeepTheLedger, Keeps, Distinct
<1> QED
  BY <1>1, <1>2 DEF LoneCallsKeepTheLedger

-----------------------------------------------------------------------------
(* Read receipts: sequences, and what an event adds to the journal *)

LEMMA SequenceOfAll ==
    SetToSeq(Opened) \in Seq(Opened) /\ SetToSeq(Opened) # <<>>
<1>1. PICK n \in Nat : n = Cardinality(Opened) /\ ExistsBijection(1..n, Opened) /\ n # 0
  BY ReceiptsAssumption, FS_CardinalityType, FS_EmptySet
<1>2. \E f \in [1..n -> Opened] : IsInjective(f)
  BY <1>1 DEF ExistsBijection, Bijection, Injection
<1>3. PICK s : s = SetToSeq(Opened)
  OBVIOUS
<1>4. s \in [1..n -> Opened]
  BY <1>1, <1>2, <1>3 DEF SetToSeq
<1>5. s \in Seq(Opened) /\ Len(s) = n
  BY <1>1, <1>4, SeqDef
<1> QED
  BY <1>1, <1>3, <1>5

Longer(S, s, x, t) ==
    /\ t \in Seq(S) /\ OnceEach(t) /\ t # <<>>
    /\ (s # <<>> => t[1] = s[1])
    /\ ToSet(t) = ToSet(s) \cup {x}

LEMMA LineGrows ==
    ASSUME NEW S
    PROVE  \A s \in Seq(S), x \in S : OnceEach(s) /\ x \notin ToSet(s) => Longer(S, s, x, Append(s, x))
<1> SUFFICES ASSUME NEW s \in Seq(S), NEW x \in S, OnceEach(s), x \notin ToSet(s), NEW t, t = Append(s, x)
             PROVE  Longer(S, s, x, t)
  OBVIOUS
<1>1. /\ t \in Seq(S) /\ DOMAIN t = 1..(Len(s) + 1) /\ t[Len(s) + 1] = x /\ Len(s) \in Nat /\ DOMAIN s = 1..Len(s)
      /\ \A i \in DOMAIN s : t[i] = s[i]
  OBVIOUS
<1>2. \A i \in DOMAIN s : s[i] # x
  BY DEF ToSet
<1>3. ASSUME NEW y PROVE y \in ToSet(t) <=> y \in ToSet(s) \/ y = x
  <2>1. y \in ToSet(t) => y \in ToSet(s) \/ y = x
    BY <1>1 DEF ToSet
  <2>2. y \in ToSet(s) => y \in ToSet(t)
    BY <1>1 DEF ToSet
  <2>3. Len(s) + 1 \in DOMAIN t
    BY <1>1
  <2>4. x \in ToSet(t)
    BY <1>1, <2>3 DEF ToSet
  <2> QED
    BY <2>1, <2>2, <2>4
<1>4. OnceEach(t)
  BY <1>1, <1>2 DEF OnceEach
<1>5. s # <<>> => t[1] = s[1]
  BY <1>1
<1> QED
  BY <1>1, <1>3, <1>4, <1>5 DEF Longer

LEMMA LineShrinks ==
    ASSUME NEW S, NEW s \in Seq(S), s # <<>>, NEW t, t = Tail(s)
    PROVE  /\ t \in Seq(S)
           /\ \A y : y \in ToSet(s) <=> y \in ToSet(t) \/ y = s[1]
           /\ OnceEach(s) => OnceEach(t) /\ s[1] \notin ToSet(t)
<1>1. /\ t \in Seq(S) /\ Len(s) \in Nat \ {0} /\ Len(t) = Len(s) - 1 /\ DOMAIN t = 1..(Len(s) - 1) /\ DOMAIN s = 1..Len(s)
      /\ \A i \in DOMAIN t : t[i] = s[i + 1] /\ i + 1 \in DOMAIN s
  OBVIOUS
<1>2. ASSUME NEW y PROVE y \in ToSet(s) <=> y \in ToSet(t) \/ y = s[1]
  <2>1. y \in ToSet(t) \/ y = s[1] => y \in ToSet(s)
    BY <1>1 DEF ToSet
  <2>2. ASSUME NEW i \in DOMAIN s, y = s[i], i # 1 PROVE y \in ToSet(t)
    <3>1. i - 1 \in DOMAIN t /\ t[i - 1] = s[i]
      BY <1>1, <2>2
    <3> QED
      BY <2>2, <3>1 DEF ToSet
  <2> QED
    BY <2>1, <2>2 DEF ToSet
<1>3. ASSUME OnceEach(s)
      PROVE  OnceEach(t) /\ s[1] \notin ToSet(t)
  <2> USE DEF OnceEach
  <2>1. \A i, j \in DOMAIN t : t[i] = t[j] => i = j
    <3> SUFFICES ASSUME NEW i \in DOMAIN t, NEW j \in DOMAIN t, t[i] = t[j] PROVE i = j
      OBVIOUS
    <3>1. i + 1 = j + 1
      BY <1>1, <1>3
    <3> QED
      BY <1>1, <3>1
  <2>2. \A i \in DOMAIN t : t[i] # s[1]
    <3> SUFFICES ASSUME NEW i \in DOMAIN t, t[i] = s[1] PROVE FALSE
      OBVIOUS
    <3>1. i + 1 = 1
      BY <1>1, <1>3
    <3> QED
      BY <1>1, <3>1
  <2> QED
    BY <2>1, <2>2 DEF ToSet
<1> QED
  BY <1>1, <1>2, <1>3

\* The events before one are no fewer than those before an earlier one.
FirstIn(events, t) ==
    {k \in DOMAIN events : Cardinality({j \in 1 .. k : events[j].thread = t}) <= FirstEvents}
LEMMA FirstsComeFirst ==
    ASSUME NEW events \in Seq(Entries), NEW t, NEW k \in DOMAIN events, NEW l \in DOMAIN events, k <= l,
           l \in FirstIn(events, t)
    PROVE  k \in FirstIn(events, t)
<1> DEFINE Before(m) == {j \in 1..m : events[j].thread = t}
<1>1. k \in Nat /\ l \in Nat
  OBVIOUS
<1>2. IsFiniteSet(Before(l)) /\ Before(k) \subseteq Before(l)
  <2>1. IsFiniteSet(1..l)
    BY <1>1, FS_Interval
  <2>2. Before(l) \subseteq 1..l
    OBVIOUS
  <2> QED
    BY <1>1, <2>1, <2>2, FS_Subset
<1>3. Cardinality(Before(k)) <= Cardinality(Before(l)) /\ Cardinality(Before(k)) \in Nat /\ Cardinality(Before(l)) \in Nat
  <2> HIDE DEF Before
  <2>1. IsFiniteSet(Before(k))
    BY <1>2, FS_Subset
  <2> QED
    BY <1>2, <2>1, FS_Subset, FS_CardinalityType
<1>4. Cardinality(Before(l)) <= FirstEvents
  BY DEF FirstIn
<1>5. FirstEvents \in Nat
  BY ReceiptsAssumption
<1>6. Cardinality(Before(k)) <= FirstEvents
  <2> HIDE DEF Before
  <2> QED
    BY <1>3, <1>4, <1>5
<1> QED
  BY <1>6 DEF FirstIn

\* An event that is appended is the last one of its kind, and changes nothing for those before it.
LEMMA JournalGrows ==
    ASSUME activity \in Seq(Entries), NEW e \in Entries, activity' = Append(activity, e), NEW n, n = Len(activity) + 1
    PROVE  /\ activity' \in Seq(Entries) /\ DOMAIN activity' = DOMAIN activity \cup {n} /\ n \in Nat
           /\ \A k \in DOMAIN activity : k < n /\ k \in Nat
           /\ \A t, id : ReceiptsOf(t, id)' = ReceiptsOf(t, id) \cup (IF e = Read(t, id) THEN {n} ELSE {})
           /\ \A t : FirstOf(t)' \cap DOMAIN activity = FirstOf(t)
<1>1. /\ activity' \in Seq(Entries) /\ DOMAIN activity' = 1..n /\ DOMAIN activity = 1..(n - 1) /\ n \in Nat
      /\ activity'[n] = e /\ \A k \in DOMAIN activity : activity'[k] = activity[k]
  OBVIOUS
<1>2. DOMAIN activity' = DOMAIN activity \cup {n} /\ n \notin DOMAIN activity
  BY <1>1
<1>3. ASSUME NEW t, NEW id PROVE ReceiptsOf(t, id)' = ReceiptsOf(t, id) \cup (IF e = Read(t, id) THEN {n} ELSE {})
  <2>1. Read(t, id)' = Read(t, id)
    BY DEF Read
  <2> QED
    BY <1>1, <1>2, <2>1 DEF ReceiptsOf
<1>4. ASSUME NEW t PROVE FirstOf(t)' \cap DOMAIN activity = FirstOf(t)
  <2>1. \A k \in DOMAIN activity : {j \in 1..k : activity'[j].thread = t} = {j \in 1..k : activity[j].thread = t}
    <3> SUFFICES ASSUME NEW k \in DOMAIN activity
                 PROVE  \A j \in 1..k : activity'[j] = activity[j]
      OBVIOUS
    <3>1. \A j \in 1..k : j \in DOMAIN activity
      BY <1>1
    <3> QED
      BY <1>1, <3>1
  <2> QED
    BY <1>2, <2>1 DEF FirstOf
<1> QED
  BY <1>1, <1>2, <1>3, <1>4

-----------------------------------------------------------------------------
(* Read receipts: the requests *)

\* A request of which one thing is different.
LEMMA AtStep ==
    ASSUME NEW q \in DeliveryRecords, NEW x \in DeliverySteps, NEW p, p = [q EXCEPT !.step = x]
    PROVE  p \in DeliveryRecords /\ p.step = x /\ p.id = q.id /\ p.todo = q.todo /\ p.listed = q.listed
  BY DEF DeliveryRecords

LEMMA WithTodo ==
    ASSUME NEW q \in DeliveryRecords, NEW x \in Seq(Opened), NEW p, p = [q EXCEPT !.todo = x]
    PROVE  p \in DeliveryRecords /\ p.step = q.step /\ p.id = q.id /\ p.todo = x /\ p.listed = q.listed
  BY DEF DeliveryRecords

LEMMA WithId ==
    ASSUME NEW q \in DeliveryRecords, NEW x \in Ids, NEW p, p = [q EXCEPT !.id = x]
    PROVE  p \in DeliveryRecords /\ p.step = q.step /\ p.id = x /\ p.todo = q.todo /\ p.listed = q.listed
  BY DEF DeliveryRecords

LEMMA WithListed ==
    ASSUME NEW q \in DeliveryRecords, NEW x \in SUBSET Opened, NEW p, p = [q EXCEPT !.listed = x]
    PROVE  p \in DeliveryRecords /\ p.step = q.step /\ p.id = q.id /\ p.todo = q.todo /\ p.listed = x
  BY DEF DeliveryRecords

LEMMA AwayIs == Away \in DeliveryRecords /\ Away.step = "idle" /\ Away.todo = <<>>
<1>1. <<>> \in Seq(Opened) /\ NoEventId \in Ids /\ {} \in SUBSET Opened
  BY DEF Ids
<1> QED
  BY <1>1 DEF Away, DeliveryRecords, DeliverySteps

\* The requests are as they were, but for one.
OnlyThis(d, r) ==
    /\ deliveries' \in [Deliveries -> DeliveryRecords] /\ deliveries'[d] = r
    /\ \A e \in Deliveries \ {d} : deliveries'[e] = deliveries[e]

LEMMA ThisIs ==
    ASSUME deliveries \in [Deliveries -> DeliveryRecords], NEW d \in Deliveries, NEW r \in DeliveryRecords,
           deliveries' = [deliveries EXCEPT ![d] = r]
    PROVE  OnlyThis(d, r)
  BY DEF OnlyThis

\* A sequence of more than one has something after its first.
LEMMA OneLess ==
    ASSUME NEW S
    PROVE  \A s \in Seq(S) : s # <<>> => ((IF Len(s) > 1 THEN "look" ELSE "answer") = "look" <=> Tail(s) # <<>>)
<1> SUFFICES ASSUME NEW s \in Seq(S), s # <<>>, NEW t, t = Tail(s), NEW step,
                    step = IF Len(s) > 1 THEN "look" ELSE "answer"
             PROVE  step = "look" <=> t # <<>>
  OBVIOUS
<1>1. PICK n \in Nat : n = Len(s) /\ n # 0 /\ Len(t) = n - 1 /\ t \in Seq(S)
  OBVIOUS
<1>2. CASE n = 1
  <2>1. Len(t) = 0
    BY <1>1, <1>2
  <2>2. t = <<>>
    BY <1>1, <2>1
  <2> QED
    BY <1>1, <1>2, <2>2
<1>3. CASE n > 1
  <2>1. Len(t) # 0
    BY <1>1, <1>3
  <2>2. t # <<>>
    BY <2>1
  <2> QED
    BY <1>1, <1>3, <2>2
<1> QED
  BY <1>1, <1>2, <1>3

\* One thread is done, and it is the turn of the next one or of the answer.
LEMMA ProceedIs ==
    ASSUME deliveries \in [Deliveries -> DeliveryRecords], NEW d \in Deliveries, deliveries[d].todo # <<>>,
           Proceed(d)
    PROVE  \E r \in DeliveryRecords :
              /\ OnlyThis(d, r) /\ r.id = deliveries[d].id /\ r.listed = deliveries[d].listed
              /\ r.step \in {"look", "answer"} /\ (r.step = "look" <=> r.todo # <<>>)
              /\ \A t : t \in ToSet(deliveries[d].todo) <=> t \in ToSet(r.todo) \/ t = deliveries[d].todo[1]
<1>1. PICK q : q = deliveries[d]
  OBVIOUS
<1>2. q \in DeliveryRecords /\ q.todo \in Seq(Opened) /\ q.todo # <<>>
  BY <1>1 DEF DeliveryRecords
<1>3. PICK todo, step : todo = Tail(q.todo) /\ step = IF Len(q.todo) > 1 THEN "look" ELSE "answer"
  OBVIOUS
<1>4. todo \in Seq(Opened) /\ \A t : t \in ToSet(q.todo) <=> t \in ToSet(todo) \/ t = q.todo[1]
  BY <1>2, <1>3, LineShrinks
<1>5. step = "look" <=> todo # <<>>
  <2>1. PICK s \in Seq(Opened) : s = q.todo /\ s # <<>>
    BY <1>2
  <2>2. todo = Tail(s) /\ step = IF Len(s) > 1 THEN "look" ELSE "answer"
    BY <1>3, <2>1
  <2>3. (IF Len(s) > 1 THEN "look" ELSE "answer") = "look" <=> Tail(s) # <<>>
    BY <2>1, OneLess
  <2> QED
    BY <2>2, <2>3
<1>6. PICK p : p = [q EXCEPT !.todo = todo]
  OBVIOUS
<1>7. p \in DeliveryRecords /\ p.id = q.id /\ p.todo = todo /\ p.listed = q.listed
  BY <1>2, <1>4, <1>6, WithTodo
<1>8. step \in DeliverySteps /\ step \in {"look", "answer"}
  BY <1>3 DEF DeliverySteps
<1>9. PICK r : r = [p EXCEPT !.step = step]
  OBVIOUS
<1>10. r \in DeliveryRecords /\ r.step = step /\ r.id = q.id /\ r.todo = todo /\ r.listed = q.listed
  BY <1>7, <1>8, <1>9, AtStep
<1>11. deliveries' = [deliveries EXCEPT ![d] = r]
  BY <1>1, <1>3, <1>6, <1>9 DEF Proceed
<1>12. OnlyThis(d, r)
  BY <1>10, <1>11, ThisIs
<1> QED
  BY <1>1, <1>4, <1>5, <1>8, <1>10, <1>12

\* At first there is nothing to note.
LEMMA ReceiptsStart ==
    ASSUME ReceiptsInit
    PROVE  ReceiptsInv
<1>1. deliveries \in [Deliveries -> DeliveryRecords] /\ Served = {}
  BY AwayIs DEF ReceiptsInit, Served
<1>2. ReceiptShapes
  BY <1>1, AwayIs DEF ReceiptsInit, ReceiptShapes, ToSet, OnceEach
<1>3. \A t \in Opened, id \in Ids : ReceiptsOf(t, id) = {}
  BY DEF ReceiptsInit, ReceiptsOf
<1>4. ApartIsOnce
  BY <1>1, <1>3 DEF ApartIsOnce
<1> QED
  BY <1>1, <1>2, <1>4 DEF ReceiptsInit, ReceiptsInv, ListedIsNoted, HeardIsNoted

\* What has been noted, or could not be, stays so.
LEMMA NotedStays ==
    ASSUME \A t, id : ReceiptsOf(t, id) \subseteq ReceiptsOf(t, id)', unread \subseteq unread',
           NEW t, NEW id, Noted(t, id)
    PROVE  Noted(t, id)'
  BY DEF Noted

\* Without a new event nothing is found that was not, and nothing is noted twice.
LEMMA ApartStays ==
    ASSUME ApartIsOnce, activity' = activity, apart' \subseteq apart,
           \A d \in Served' : d \in Served /\ deliveries'[d].id = deliveries[d].id,
           \A d \in Served' : deliveries'[d].step = "append" =>
               \/ deliveries[d].step = "append" /\ deliveries'[d].todo = deliveries[d].todo
               \/ /\ deliveries[d].id \in EventIds
                  /\ <<deliveries'[d].todo[1], deliveries[d].id>> \in apart' =>
                         FirstReceipts(deliveries'[d].todo[1], deliveries[d].id) = {}
               \/ deliveries[d].id \notin EventIds
    PROVE  ApartIsOnce'
<1>1. \A t, id : ReceiptsOf(t, id)' = ReceiptsOf(t, id) /\ FirstReceipts(t, id)' = FirstReceipts(t, id)
  BY DEF ReceiptsOf, FirstReceipts, FirstOf, Read
<1> SUFFICES ASSUME NEW t \in Opened, NEW id \in Ids, <<t, id>> \in apart'
             PROVE  /\ \A d, e \in Served' : deliveries'[d].id = id /\ deliveries'[e].id = id => d = e
                    /\ id \in EventIds => \A d \in Served' :
                          deliveries'[d].step = "append" /\ deliveries'[d].id = id /\ deliveries'[d].todo[1] = t
                          => FirstReceipts(t, id) = {}
                    /\ id \in EventIds /\ FirstReceipts(t, id) # {} => \A k, l \in ReceiptsOf(t, id) : k = l
  BY <1>1 DEF ApartIsOnce
<1>2. <<t, id>> \in apart
  OBVIOUS
<1>3. \A d, e \in Served' : deliveries'[d].id = id /\ deliveries'[e].id = id => d = e
  BY <1>2 DEF ApartIsOnce
<1>4. ASSUME id \in EventIds, NEW d \in Served', deliveries'[d].step = "append", deliveries'[d].id = id,
             deliveries'[d].todo[1] = t
      PROVE  FirstReceipts(t, id) = {}
  <2>1. d \in Served /\ deliveries[d].id = id
    BY <1>4
  <2>2. CASE deliveries[d].step = "append" /\ deliveries'[d].todo = deliveries[d].todo
    BY <1>2, <1>4, <2>1, <2>2 DEF ApartIsOnce
  <2>3. CASE ~(deliveries[d].step = "append" /\ deliveries'[d].todo = deliveries[d].todo)
    BY <1>4, <2>1, <2>3
  <2> QED
    BY <2>2, <2>3
<1>5. id \in EventIds /\ FirstReceipts(t, id) # {} => \A k, l \in ReceiptsOf(t, id) : k = l
  BY <1>2 DEF ApartIsOnce
<1> QED
  BY <1>3, <1>4, <1>5

\* With a new event too, if it is no receipt that was among the first ones or is written again.
LEMMA ApartGrows ==
    ASSUME ApartIsOnce, activity \in Seq(Entries), NEW x \in Entries, activity' = Append(activity, x), apart' = apart,
           \A d \in Served' : d \in Served /\ deliveries'[d].id = deliveries[d].id,
           \A d \in Served' : deliveries'[d].step = "append" =>
               deliveries[d].step = "append" /\ deliveries'[d].todo = deliveries[d].todo,
           \A t \in Opened, id \in EventIds : x = Read(t, id) /\ <<t, id>> \in apart =>
               /\ FirstReceipts(t, id) = {}
               /\ \A d \in Served' : ~(deliveries'[d].step = "append" /\ deliveries'[d].id = id /\ deliveries'[d].todo[1] = t)
    PROVE  ApartIsOnce'
<1>1. PICK n : n = Len(activity) + 1
  OBVIOUS
<1>2. /\ activity' \in Seq(Entries) /\ DOMAIN activity' = DOMAIN activity \cup {n} /\ n \in Nat
      /\ \A k \in DOMAIN activity : k < n /\ k \in Nat
      /\ \A t, id : ReceiptsOf(t, id)' = ReceiptsOf(t, id) \cup (IF x = Read(t, id) THEN {n} ELSE {})
      /\ \A t : FirstOf(t)' \cap DOMAIN activity = FirstOf(t)
  BY <1>1, JournalGrows
<1>3. \A t, id : ReceiptsOf(t, id) \subseteq DOMAIN activity
  BY DEF ReceiptsOf
<1> SUFFICES ASSUME NEW t \in Opened, NEW id \in Ids, <<t, id>> \in apart
             PROVE  /\ \A d, e \in Served' : deliveries'[d].id = id /\ deliveries'[e].id = id => d = e
                    /\ id \in EventIds => \A d \in Served' :
                          deliveries'[d].step = "append" /\ deliveries'[d].id = id /\ deliveries'[d].todo[1] = t
                          => FirstReceipts(t, id)' = {}
                    /\ id \in EventIds /\ FirstReceipts(t, id)' # {} => \A k, l \in ReceiptsOf(t, id)' : k = l
  BY DEF ApartIsOnce
<1>4. \A d, e \in Served' : deliveries'[d].id = id /\ deliveries'[e].id = id => d = e
  BY DEF ApartIsOnce
<1>5. CASE x # Read(t, id)
  <2>1. ReceiptsOf(t, id)' = ReceiptsOf(t, id) /\ FirstReceipts(t, id)' = FirstReceipts(t, id)
    BY <1>2, <1>3, <1>5 DEF FirstReceipts
  <2>2. ASSUME id \in EventIds, NEW d \in Served', deliveries'[d].step = "append", deliveries'[d].id = id,
               deliveries'[d].todo[1] = t
        PROVE  FirstReceipts(t, id)' = {}
    <3>1. d \in Served /\ deliveries[d].id = id /\ deliveries[d].step = "append" /\ deliveries[d].todo[1] = t
      BY <2>2
    <3> QED
      BY <2>1, <2>2, <3>1 DEF ApartIsOnce
  <2>3. id \in EventIds /\ FirstReceipts(t, id)' # {} => \A k, l \in ReceiptsOf(t, id)' : k = l
    BY <2>1 DEF ApartIsOnce
  <2> QED
    BY <1>4, <2>2, <2>3
<1>6. CASE x = Read(t, id) /\ id \in EventIds
  <2>1. /\ FirstReceipts(t, id) = {}
        /\ \A d \in Served' : ~(deliveries'[d].step = "append" /\ deliveries'[d].id = id /\ deliveries'[d].todo[1] = t)
    BY <1>6
  <2>2. ReceiptsOf(t, id)' = ReceiptsOf(t, id) \cup {n}
    BY <1>2, <1>6
  <2>3. CASE ReceiptsOf(t, id) = {}
    BY <1>4, <2>1, <2>2, <2>3
  <2>4. CASE ReceiptsOf(t, id) # {}
    <3>1. PICK k \in ReceiptsOf(t, id) : TRUE
      BY <2>4
    <3>2. k \in DOMAIN activity /\ k \notin FirstOf(t)
      BY <1>3, <2>1 DEF FirstReceipts
    <3>3. k \notin FirstOf(t)' /\ k \in DOMAIN activity' /\ n \in DOMAIN activity' /\ k <= n
      BY <1>2, <3>2
    <3>4. n \in FirstOf(t)' => k \in FirstOf(t)'
      <4>1. PICK events : events = activity'
        OBVIOUS
      <4>2. FirstOf(t)' = FirstIn(events, t)
        BY <4>1 DEF FirstOf, FirstIn
      <4>3. events \in Seq(Entries) /\ k \in DOMAIN events /\ n \in DOMAIN events /\ k <= n
        BY <1>2, <3>3, <4>1
      <4>4. n \in FirstIn(events, t) => k \in FirstIn(events, t)
        BY <4>3, FirstsComeFirst
      <4> QED
        BY <4>2, <4>4
    <3>5. FirstReceipts(t, id)' = {}
      <4>1. \A m \in ReceiptsOf(t, id) : m \notin FirstOf(t)'
        BY <1>2, <1>3, <2>1 DEF FirstReceipts
      <4> QED
        BY <2>2, <3>3, <3>4, <4>1 DEF FirstReceipts
    <3> QED
      BY <1>4, <2>1, <3>5
  <2> QED
    BY <2>3, <2>4
<1> QED
  BY <1>4, <1>5, <1>6

\* Who is served, and under which id, when only one request has changed.
LEMMA ServedAre ==
    ASSUME NEW d \in Deliveries, NEW r \in DeliveryRecords, OnlyThis(d, r)
    PROVE  /\ \A e \in Deliveries \ {d} : (e \in Served' <=> e \in Served) /\ deliveries'[e] = deliveries[e]
           /\ d \in Served' <=> r.step # "idle"
           /\ deliveries'[d] = r
           /\ \A e \in Served' : e \in Deliveries
  BY DEF OnlyThis, Served

\* Every thread of every request stays noted, if what leaves the list of one of them is noted.
LEMMA ListedStays ==
    ASSUME ListedIsNoted, \A t, i : ReceiptsOf(t, i) \subseteq ReceiptsOf(t, i)', unread \subseteq unread', answered' = answered,
           NEW d \in Served, NEW r \in DeliveryRecords, OnlyThis(d, r), NEW id, id = deliveries[d].id,
           r.id = id, r.listed = deliveries[d].listed,
           \A t : t \in ToSet(deliveries[d].todo) => t \in ToSet(r.todo) \/ Noted(t, id)'
    PROVE  ListedIsNoted'
<1>1. d \in Deliveries
  BY DEF Served
<1>2. ASSUME NEW t, NEW i, Noted(t, i) PROVE Noted(t, i)'
  BY <1>2, NotedStays
<1>3. ASSUME NEW e \in Served', NEW t \in deliveries'[e].listed, NEW i, i = deliveries'[e].id
      PROVE  t \in ToSet(deliveries'[e].todo) \/ Noted(t, i)'
  <2>1. CASE e = d
    <3>1. deliveries'[e] = r /\ i = id /\ t \in deliveries[d].listed
      BY <1>1, <1>3, <2>1 DEF OnlyThis
    <3>2. t \in ToSet(deliveries[d].todo) \/ Noted(t, id)
      BY <3>1 DEF ListedIsNoted
    <3> QED
      BY <1>2, <3>1, <3>2
  <2>2. CASE e # d
    <3>1. e \in Served /\ deliveries'[e] = deliveries[e]
      BY <1>1, <2>2, ServedAre
    <3>2. t \in ToSet(deliveries[e].todo) \/ Noted(t, i)
      BY <1>3, <3>1 DEF ListedIsNoted
    <3> QED
      BY <1>2, <3>1, <3>2
  <2> QED
    BY <2>1, <2>2
<1>4. ASSUME NEW m \in answered PROVE Noted(m[1], m[2])'
  <2>1. PICK t, i : t = m[1] /\ i = m[2]
    OBVIOUS
  <2>2. Noted(t, i)
    BY <2>1 DEF ListedIsNoted
  <2>3. Noted(t, i)'
    BY <1>2, <2>2
  <2> QED
    BY <2>1, <2>3 DEF Noted, ReceiptsOf, Read
<1>5. \A e \in Served' : \A t \in deliveries'[e].listed :
         t \in ToSet(deliveries'[e].todo) \/ \A i : i = deliveries'[e].id => Noted(t, i)'
  BY <1>3
<1> QED
  BY <1>4, <1>5 DEF ListedIsNoted, Noted, ReceiptsOf, Read

\* What followers have heard of stays noted, if what they hear now is.
LEMMA HeardStays ==
    ASSUME HeardIsNoted, \A t, i : ReceiptsOf(t, i) \subseteq ReceiptsOf(t, i)', NEW t, NEW id,
           heard' \subseteq heard \cup {Read(t, id)}, ReceiptsOf(t, id)' # {}
    PROVE  HeardIsNoted'
<1>1. ASSUME NEW e \in heard' PROVE ReceiptsOf(e.thread, e.id)' # {}
  <2>1. CASE e \in heard
    <3>1. PICK s, i : s = e.thread /\ i = e.id
      OBVIOUS
    <3>2. ReceiptsOf(s, i) # {}
      BY <2>1, <3>1 DEF HeardIsNoted
    <3>3. ReceiptsOf(s, i)' # {}
      BY <3>2
    <3> QED
      BY <3>1, <3>3 DEF ReceiptsOf, Read
  <2>2. CASE e = Read(t, id)
    <3>1. e.thread = t /\ e.id = id
      BY <2>2 DEF Read
    <3> QED
      BY <3>1 DEF ReceiptsOf, Read
  <2> QED
    BY <2>1, <2>2
<1> QED
  BY <1>1 DEF HeardIsNoted, ReceiptsOf, Read

\* The journal stands still.
LEMMA SameJournal ==
    ASSUME activity' = activity
    PROVE  \A t, i : ReceiptsOf(t, i)' = ReceiptsOf(t, i) /\ FirstReceipts(t, i)' = FirstReceipts(t, i)
  BY DEF ReceiptsOf, FirstReceipts, FirstOf, Read

LEMMA HeardSame ==
    ASSUME HeardIsNoted, \A t, i : ReceiptsOf(t, i) \subseteq ReceiptsOf(t, i)', heard' = heard
    PROVE  HeardIsNoted'
<1>1. ASSUME NEW e \in heard PROVE ReceiptsOf(e.thread, e.id)' # {}
  <2>1. PICK s, i : s = e.thread /\ i = e.id
    OBVIOUS
  <2>2. ReceiptsOf(s, i)' # {}
    BY <2>1 DEF HeardIsNoted
  <2> QED
    BY <2>1, <2>2 DEF ReceiptsOf, Read
<1> QED
  BY <1>1 DEF HeardIsNoted, ReceiptsOf, Read

\* The line of those who wait to append.
LEMMA ChainGrows ==
    ASSUME ReceiptShapes, NEW x \in Deliveries \cup {Reply}, x \notin ToSet(chain), chain' = Append(chain, x)
    PROVE  /\ chain' \in Seq(Deliveries \cup {Reply}) /\ OnceEach(chain)' /\ (chain # <<>> => chain'[1] = chain[1])
           /\ chain' # <<>> /\ ToSet(chain)' = ToSet(chain) \cup {x}
<1>1. PICK S, s : S = Deliveries \cup {Reply} /\ s = chain
  OBVIOUS
<1>2. PICK t : t = chain'
  OBVIOUS
<1>3. s \in Seq(S) /\ OnceEach(s) /\ x \in S /\ x \notin ToSet(s) /\ t = Append(s, x)
  BY <1>1, <1>2 DEF ReceiptShapes
<1>4. /\ t \in Seq(S) /\ OnceEach(t) /\ t # <<>> /\ (s # <<>> => t[1] = s[1])
      /\ ToSet(t) = ToSet(s) \cup {x}
  <2>1. Longer(S, s, x, t)
    BY <1>3, LineGrows
  <2> QED
    BY <2>1 DEF Longer
<1> QED
  BY <1>1, <1>2, <1>4 DEF OnceEach, ToSet

LEMMA ChainShrinks ==
    ASSUME ReceiptShapes, chain # <<>>, chain' = Tail(chain)
    PROVE  /\ chain' \in Seq(Deliveries \cup {Reply}) /\ OnceEach(chain)'
           /\ ToSet(chain)' = ToSet(chain) \ {chain[1]} /\ chain[1] \in ToSet(chain)
<1>1. PICK S, s : S = Deliveries \cup {Reply} /\ s = chain
  OBVIOUS
<1>2. PICK t : t = chain'
  OBVIOUS
<1>3. s \in Seq(S) /\ OnceEach(s) /\ s # <<>> /\ t = Tail(s)
  BY <1>1, <1>2 DEF ReceiptShapes
<1>4. /\ t \in Seq(S) /\ OnceEach(t) /\ s[1] \notin ToSet(t)
      /\ \A y : y \in ToSet(s) <=> y \in ToSet(t) \/ y = s[1]
  BY <1>3, LineShrinks
<1>5. ToSet(t) = ToSet(s) \ {s[1]} /\ s[1] \in ToSet(s)
  BY <1>4
<1> QED
  BY <1>1, <1>2, <1>4, <1>5 DEF OnceEach, ToSet

\* Nobody comes into the line or leaves it.
LEMMA SameLine ==
    ASSUME ReceiptShapes, NEW d \in Deliveries, NEW r \in DeliveryRecords, OnlyThis(d, r),
           deliveries[d].step # "append", r.step # "append", r.step = "look" <=> r.todo # <<>>,
           activity' = activity, rewriting' = rewriting, chain' = chain
    PROVE  ReceiptShapes'
<1>1. ASSUME NEW e \in Deliveries
      PROVE  /\ e \in ToSet(chain) <=> deliveries'[e].step = "append"
             /\ deliveries'[e].step \in {"look", "append"} <=> deliveries'[e].todo # <<>>
  BY DEF ReceiptShapes, OnlyThis
<1>2. deliveries' \in [Deliveries -> DeliveryRecords]
  BY DEF OnlyThis
<1>3. ToSet(chain)' = ToSet(chain) /\ OnceEach(chain)'
  BY DEF ToSet, OnceEach, ReceiptShapes
<1> QED
  BY <1>1, <1>2, <1>3 DEF ReceiptShapes

-----------------------------------------------------------------------------
(* Read receipts: each step *)

\* The request that comes: it has all of its threads still to look for.
LEMMA DeliveredIs ==
    ASSUME NEW id \in Ids, NEW threads \in {SetToSeq(Opened)} \cup {<<t>> : t \in Opened}
    PROVE  \E r \in DeliveryRecords :
              /\ r = [Away EXCEPT !.step = "look", !.id = id, !.todo = threads, !.listed = ToSet(threads)]
              /\ r.step = "look" /\ r.id = id /\ r.todo # <<>> /\ r.listed = ToSet(r.todo)
<1>1. threads \in Seq(Opened) /\ threads # <<>>
  <2>1. CASE threads = SetToSeq(Opened)
    BY <2>1, SequenceOfAll
  <2>2. CASE threads # SetToSeq(Opened)
    <3>1. PICK t \in Opened : threads = <<t>>
      BY <2>2
    <3> QED
      BY <3>1
  <2> QED
    BY <2>1, <2>2
<1>2. PICK all : all = ToSet(threads)
  OBVIOUS
<1>3. all \in SUBSET Opened
  BY <1>1, <1>2 DEF ToSet
<1>4. PICK a : a = [Away EXCEPT !.step = "look"]
  OBVIOUS
<1>5. a \in DeliveryRecords /\ a.step = "look"
  <2>1. "look" \in DeliverySteps
    BY DEF DeliverySteps
  <2> QED
    BY <1>4, <2>1, AwayIs, AtStep
<1>6. PICK b : b = [a EXCEPT !.id = id]
  OBVIOUS
<1>7. b \in DeliveryRecords /\ b.step = "look" /\ b.id = id
  BY <1>5, <1>6, WithId
<1>8. PICK c : c = [b EXCEPT !.todo = threads]
  OBVIOUS
<1>9. c \in DeliveryRecords /\ c.step = "look" /\ c.id = id /\ c.todo = threads
  BY <1>1, <1>7, <1>8, WithTodo
<1>10. PICK r : r = [c EXCEPT !.listed = all]
  OBVIOUS
<1>11. r \in DeliveryRecords /\ r.step = "look" /\ r.id = id /\ r.todo = threads /\ r.listed = all
  BY <1>3, <1>9, <1>10, WithListed
<1>12. r = [Away EXCEPT !.step = "look", !.id = id, !.todo = threads, !.listed = ToSet(threads)]
  BY <1>2, <1>4, <1>6, <1>8, <1>10
<1> QED
  BY <1>1, <1>2, <1>11, <1>12

\* A request that comes under an id that is served already ends what is known of that id.
LEMMA DeliverKeeps ==
    ASSUME ReceiptsInv, NEW d \in Deliveries, NEW id \in Ids,
           NEW threads \in {SetToSeq(Opened)} \cup {<<t>> : t \in Opened}, Deliver(d, id, threads)
    PROVE  ReceiptsInv'
<1> USE DEF ReceiptsInv
<1>1. PICK r \in DeliveryRecords :
         /\ r = [Away EXCEPT !.step = "look", !.id = id, !.todo = threads, !.listed = ToSet(threads)]
         /\ r.step = "look" /\ r.id = id /\ r.todo # <<>> /\ r.listed = ToSet(r.todo)
  BY DeliveredIs
<1>2. r \in DeliveryRecords /\ r.step = "look" /\ r.id = id /\ r.todo # <<>> /\ r.listed = ToSet(r.todo)
  BY <1>1
<1>3. /\ deliveries[d].step = "idle" /\ deliveries' = [deliveries EXCEPT ![d] = r]
      /\ apart' = IF \E e \in Served : deliveries[e].id = id THEN apart \ (Opened \X {id}) ELSE apart
      /\ UNCHANGED <<activity, rewriting, chain, heard, answered, unread>>
  BY <1>1 DEF Deliver
<1>4. OnlyThis(d, r)
  <2>1. deliveries \in [Deliveries -> DeliveryRecords]
    BY DEF ReceiptShapes
  <2> QED
    BY <1>2, <1>3, <2>1, ThisIs
<1>5. /\ \A e \in Deliveries \ {d} : (e \in Served' <=> e \in Served) /\ deliveries'[e] = deliveries[e]
      /\ deliveries'[d] = r /\ d \notin Served
      /\ \A e \in Served' : e \in Deliveries
  BY <1>2, <1>3, <1>4, ServedAre DEF Served
<1>6. ReceiptShapes'
  BY <1>2, <1>3, <1>4, SameLine
<1>7. \A t, i : ReceiptsOf(t, i)' = ReceiptsOf(t, i) /\ FirstReceipts(t, i)' = FirstReceipts(t, i)
  BY <1>3, SameJournal
<1>8. ListedIsNoted'
  <2>1. \A t, i : Noted(t, i)' <=> Noted(t, i)
    BY <1>3, <1>7 DEF Noted
  <2>2. ASSUME NEW e \in Served', NEW t \in deliveries'[e].listed
        PROVE  t \in ToSet(deliveries'[e].todo) \/ \A i : i = deliveries'[e].id => Noted(t, i)
    <3>1. CASE e = d
      BY <1>2, <1>5, <2>2, <3>1
    <3>2. CASE e # d
      <4>1. e \in Served /\ deliveries'[e] = deliveries[e]
        BY <1>5, <3>2
      <4> QED
        BY <2>2, <4>1 DEF ListedIsNoted
    <3> QED
      BY <3>1, <3>2
  <2>3. \A m \in answered : Noted(m[1], m[2])
    BY DEF ListedIsNoted
  <2> QED
    BY <1>3, <1>7, <2>2, <2>3 DEF ListedIsNoted, Noted
<1>9. ApartIsOnce'
  <2> SUFFICES ASSUME NEW t \in Opened, NEW i \in Ids, <<t, i>> \in apart'
               PROVE  /\ \A e, f \in Served' : deliveries'[e].id = i /\ deliveries'[f].id = i => e = f
                      /\ i \in EventIds => \A e \in Served' :
                            deliveries'[e].step = "append" /\ deliveries'[e].id = i /\ deliveries'[e].todo[1] = t
                            => FirstReceipts(t, i) = {}
                      /\ i \in EventIds /\ FirstReceipts(t, i) # {} => \A k, l \in ReceiptsOf(t, i) : k = l
    BY <1>7 DEF ApartIsOnce
  <2>1. <<t, i>> \in apart /\ (i = id => \A e \in Served : deliveries[e].id # i)
    BY <1>3
  <2>2. \A e, f \in Served' : deliveries'[e].id = i /\ deliveries'[f].id = i => e = f
    <3>1. \A e, f \in Served : deliveries[e].id = i /\ deliveries[f].id = i => e = f
      BY <2>1 DEF ApartIsOnce
    <3>2. CASE i = id
      <4>1. \A e \in Served' : deliveries'[e].id = i => e = d
        BY <1>5, <2>1, <3>2
      <4> QED
        BY <4>1
    <3>3. CASE i # id
      <4>1. \A e \in Served' : deliveries'[e].id = i => e \in Served /\ deliveries[e].id = i
        BY <1>2, <1>5, <3>3
      <4> QED
        BY <3>1, <4>1
    <3> QED
      BY <3>2, <3>3
  <2>3. ASSUME i \in EventIds, NEW e \in Served', deliveries'[e].step = "append", deliveries'[e].id = i,
               deliveries'[e].todo[1] = t
        PROVE  FirstReceipts(t, i) = {}
    <3>1. e # d
      BY <1>2, <1>5, <2>3
    <3>2. e \in Served /\ deliveries'[e] = deliveries[e]
      BY <1>5, <3>1
    <3> QED
      BY <2>1, <2>3, <3>2 DEF ApartIsOnce
  <2>4. i \in EventIds /\ FirstReceipts(t, i) # {} => \A k, l \in ReceiptsOf(t, i) : k = l
    BY <2>1 DEF ApartIsOnce
  <2> QED
    BY <2>2, <2>3, <2>4
<1>10. HeardIsNoted'
  BY <1>3, <1>7, HeardSame
<1> QED
  BY <1>6, <1>8, <1>9, <1>10

\* Who looks for a receipt has a thread to look for.
LEMMA LookingFor ==
    ASSUME ReceiptShapes, NEW d \in Deliveries, deliveries[d].step \in {"look", "append"}
    PROVE  \E thread \in Opened, id \in Ids, todo \in Seq(Opened) :
              /\ todo = deliveries[d].todo /\ todo # <<>> /\ thread = todo[1] /\ id = deliveries[d].id
              /\ thread \in ToSet(todo)
<1>1. PICK q : q = deliveries[d]
  OBVIOUS
<1>2. q \in DeliveryRecords /\ q.todo # <<>>
  BY <1>1 DEF ReceiptShapes
<1>3. PICK todo : todo = q.todo
  OBVIOUS
<1>4. todo \in Seq(Opened) /\ todo # <<>> /\ q.id \in Ids
  BY <1>2, <1>3 DEF DeliveryRecords
<1>5. 1 \in DOMAIN todo /\ todo[1] \in Opened
  BY <1>4
<1>6. todo[1] \in ToSet(todo)
  BY <1>5 DEF ToSet
<1> QED
  BY <1>1, <1>3, <1>4, <1>5, <1>6

\* On to the next thread: everything stays true, if this one is noted now and the journal stands still.
LEMMA ProceedKeeps ==
    ASSUME ReceiptsInv, NEW d \in Deliveries, deliveries[d].step = "look", Proceed(d),
           NEW thread, thread = deliveries[d].todo[1], NEW id, id = deliveries[d].id,
           UNCHANGED <<activity, rewriting, chain, answered, apart>>, unread \subseteq unread', Noted(thread, id)'
    PROVE  ReceiptShapes' /\ ListedIsNoted' /\ ApartIsOnce'
<1> USE DEF ReceiptsInv
<1>1. deliveries \in [Deliveries -> DeliveryRecords] /\ deliveries[d].todo # <<>> /\ d \in Served
  BY DEF ReceiptShapes, Served
<1>2. PICK r \in DeliveryRecords :
              /\ OnlyThis(d, r) /\ r.id = deliveries[d].id /\ r.listed = deliveries[d].listed
              /\ r.step \in {"look", "answer"} /\ (r.step = "look" <=> r.todo # <<>>)
              /\ \A t : t \in ToSet(deliveries[d].todo) <=> t \in ToSet(r.todo) \/ t = deliveries[d].todo[1]
  BY <1>1, ProceedIs
<1>3. ReceiptShapes'
  BY <1>2, SameLine
<1>4. \A t, i : ReceiptsOf(t, i)' = ReceiptsOf(t, i) /\ FirstReceipts(t, i)' = FirstReceipts(t, i)
  BY SameJournal
<1>5. \A t : t \in ToSet(deliveries[d].todo) => t \in ToSet(r.todo) \/ Noted(t, id)'
  BY <1>2
<1>6. ListedIsNoted'
  <2>1. \A t, i : ReceiptsOf(t, i) \subseteq ReceiptsOf(t, i)'
    BY <1>4
  <2>2. answered' = answered /\ ListedIsNoted
    OBVIOUS
  <2> QED
    BY <1>1, <1>2, <1>5, <2>1, <2>2, ListedStays
<1>7. /\ \A e \in Deliveries \ {d} : (e \in Served' <=> e \in Served) /\ deliveries'[e] = deliveries[e]
      /\ deliveries'[d] = r
      /\ \A e \in Served' : e \in Deliveries
  BY <1>2, ServedAre
<1>8. \A e \in Served' : e \in Served /\ deliveries'[e].id = deliveries[e].id
  BY <1>1, <1>2, <1>7
<1>9. \A e \in Served' : deliveries'[e].step = "append" =>
          deliveries[e].step = "append" /\ deliveries'[e].todo = deliveries[e].todo
  BY <1>2, <1>7
<1>10. ApartIsOnce'
  BY <1>8, <1>9, ApartStays
<1> QED
  BY <1>3, <1>6, <1>10

\* What is there is announced; what is not waits for its turn.
LEMMA LookForReceiptKeeps ==
    ASSUME ReceiptsInv, NEW d \in Deliveries, LookForReceipt(d)
    PROVE  ReceiptsInv'
<1> USE DEF ReceiptsInv
<1>1. deliveries[d].step = "look" /\ UNCHANGED <<activity, rewriting, answered, unread>>
  BY DEF LookForReceipt
<1>2. PICK thread \in Opened, id \in Ids, todo \in Seq(Opened) :
              /\ todo = deliveries[d].todo /\ todo # <<>> /\ thread = todo[1] /\ id = deliveries[d].id
              /\ thread \in ToSet(todo)
  BY <1>1, LookingFor
<1>3. \A t, i : ReceiptsOf(t, i)' = ReceiptsOf(t, i) /\ FirstReceipts(t, i)' = FirstReceipts(t, i)
  BY <1>1, SameJournal
<1>4. \/ /\ Existing(thread, id) /\ Proceed(d)
         /\ heard' = heard \cup {Read(thread, id)} /\ UNCHANGED <<chain, apart>>
      \/ /\ ~Existing(thread, id) \/ rewriting # Nobody
         /\ deliveries' = [deliveries EXCEPT ![d].step = "append"] /\ chain' = Append(chain, d)
         /\ apart' = IF rewriting = Nobody THEN apart ELSE apart \ {<<thread, id>>}
         /\ UNCHANGED heard
  BY <1>2 DEF LookForReceipt
<1>5. CASE /\ Existing(thread, id) /\ Proceed(d)
           /\ heard' = heard \cup {Read(thread, id)} /\ UNCHANGED <<chain, apart>>
  <2>1. ReceiptsOf(thread, id)' # {}
    BY <1>3, <1>5 DEF Existing
  <2>2. Noted(thread, id)'
    BY <2>1 DEF Noted
  <2>3. ReceiptShapes' /\ ListedIsNoted' /\ ApartIsOnce'
    BY <1>1, <1>2, <1>5, <2>2, ProceedKeeps
  <2>4. HeardIsNoted'
    BY <1>3, <1>5, <2>1, HeardStays
  <2> QED
    BY <2>3, <2>4
<1>6. CASE /\ ~Existing(thread, id) \/ rewriting # Nobody
           /\ deliveries' = [deliveries EXCEPT ![d].step = "append"] /\ chain' = Append(chain, d)
           /\ apart' = IF rewriting = Nobody THEN apart ELSE apart \ {<<thread, id>>}
           /\ UNCHANGED heard
  <2>1. PICK q \in DeliveryRecords : q = deliveries[d]
    BY DEF ReceiptShapes
  <2>2. PICK r : r = [q EXCEPT !.step = "append"]
    OBVIOUS
  <2>3. r \in DeliveryRecords /\ r.step = "append" /\ r.id = q.id /\ r.todo = q.todo /\ r.listed = q.listed
    <3>1. "append" \in DeliverySteps
      BY DEF DeliverySteps
    <3> QED
      BY <2>1, <2>2, <3>1, AtStep
  <2>4. OnlyThis(d, r)
    <3>1. deliveries' = [deliveries EXCEPT ![d] = r]
      BY <1>6, <2>1, <2>2
    <3>2. deliveries \in [Deliveries -> DeliveryRecords]
      BY DEF ReceiptShapes
    <3> QED
      BY <2>3, <3>1, <3>2, ThisIs
  <2>5. /\ \A e \in Deliveries \ {d} : (e \in Served' <=> e \in Served) /\ deliveries'[e] = deliveries[e]
        /\ deliveries'[d] = r /\ d \in Served
        /\ \A e \in Served' : e \in Deliveries
    BY <1>1, <2>3, <2>4, ServedAre DEF Served
  <2>6. ReceiptShapes'
    <3>1. /\ chain' \in Seq(Deliveries \cup {Reply}) /\ OnceEach(chain)' /\ (chain # <<>> => chain'[1] = chain[1])
          /\ chain' # <<>> /\ ToSet(chain)' = ToSet(chain) \cup {d}
      <4>1. d \notin ToSet(chain)
        BY <1>1 DEF ReceiptShapes
      <4> QED
        BY <1>6, <4>1, ChainGrows
    <3>2. ASSUME NEW e \in Deliveries
          PROVE  /\ e \in ToSet(chain)' <=> deliveries'[e].step = "append"
                 /\ deliveries'[e].step \in {"look", "append"} <=> deliveries'[e].todo # <<>>
      <4>1. CASE e = d
        BY <1>2, <2>1, <2>3, <2>5, <3>1, <4>1
      <4>2. CASE e # d
        <5>1. deliveries'[e] = deliveries[e]
          BY <2>5, <4>2
        <5> QED
          BY <3>1, <4>2, <5>1 DEF ReceiptShapes
      <4> QED
        BY <4>1, <4>2
    <3>3. deliveries' \in [Deliveries -> DeliveryRecords]
      BY <2>4 DEF OnlyThis
    <3>4. /\ activity' \in Seq(Entries) /\ rewriting' \in Deliveries \cup {Nobody, Reply}
          /\ rewriting' # Nobody => chain' # <<>> /\ rewriting' = chain'[1]
      BY <1>1, <3>1 DEF ReceiptShapes
    <3> QED
      BY <3>1, <3>2, <3>3, <3>4 DEF ReceiptShapes
  <2>7. ListedIsNoted'
    <3>1. \A t, i : ReceiptsOf(t, i) \subseteq ReceiptsOf(t, i)'
      BY <1>3
    <3>2. answered' = answered /\ ListedIsNoted /\ unread \subseteq unread'
      BY <1>1
    <3>3. r.id = id /\ r.listed = deliveries[d].listed /\ r.todo = deliveries[d].todo
      BY <1>2, <2>1, <2>3
    <3>4. \A t : t \in ToSet(deliveries[d].todo) => t \in ToSet(r.todo) \/ Noted(t, id)'
      BY <3>3
    <3> QED
      BY <1>2, <2>3, <2>4, <2>5, <3>1, <3>2, <3>3, <3>4, ListedStays
  <2>8. ApartIsOnce'
    <3>1. apart' \subseteq apart
      BY <1>6
    <3>2. \A e \in Served' : e \in Served /\ deliveries'[e].id = deliveries[e].id
      BY <2>1, <2>3, <2>5
    <3>3. ASSUME NEW e \in Served', deliveries'[e].step = "append"
          PROVE  \/ deliveries[e].step = "append" /\ deliveries'[e].todo = deliveries[e].todo
                 \/ /\ deliveries[e].id \in EventIds
                    /\ <<deliveries'[e].todo[1], deliveries[e].id>> \in apart' =>
                           FirstReceipts(deliveries'[e].todo[1], deliveries[e].id) = {}
                 \/ deliveries[e].id \notin EventIds
      <4>1. CASE e # d
        BY <2>5, <3>3, <4>1
      <4>2. CASE e = d
        <5>1. deliveries[e].id = id /\ deliveries'[e].todo[1] = thread
          BY <1>2, <2>1, <2>3, <2>5, <4>2
        <5>2. id \in EventIds /\ <<thread, id>> \in apart' => FirstReceipts(thread, id) = {}
          <6> SUFFICES ASSUME id \in EventIds, <<thread, id>> \in apart'
                       PROVE  FirstReceipts(thread, id) = {}
            OBVIOUS
          <6>1. rewriting = Nobody
            BY <1>6
          <6>2. ~Existing(thread, id)
            BY <1>6, <6>1
          <6>3. id # NoEventId
            BY ReceiptsAssumption
          <6> QED
            BY <6>2, <6>3 DEF Existing, FirstReceipts
        <5> QED
          BY <5>1, <5>2
      <4> QED
        BY <4>1, <4>2
    <3>4. ApartIsOnce /\ activity' = activity
      BY <1>1
    <3> QED
      BY <3>1, <3>2, <3>3, <3>4, ApartStays
  <2>9. HeardIsNoted'
    BY <1>3, <1>6, HeardSame
  <2> QED
    BY <2>6, <2>7, <2>8, <2>9
<1> QED
  BY <1>4, <1>5, <1>6

\* A journal that could not be read costs the receipt, and that is remembered.
LEMMA LookForReceiptFailsKeeps ==
    ASSUME ReceiptsInv, NEW d \in Deliveries, LookForReceiptFails(d)
    PROVE  ReceiptsInv'
<1>1. /\ deliveries[d].step = "look" /\ Proceed(d)
      /\ UNCHANGED <<activity, rewriting, chain, heard, answered, apart>>
  BY DEF LookForReceiptFails
<1>2. PICK thread, id : thread = deliveries[d].todo[1] /\ id = deliveries[d].id
  OBVIOUS
<1>3. unread' = unread \cup {<<thread, id>>}
  BY <1>2 DEF LookForReceiptFails
<1>4. Noted(thread, id)'
  BY <1>3 DEF Noted
<1>5. ReceiptShapes' /\ ListedIsNoted' /\ ApartIsOnce'
  BY <1>1, <1>2, <1>3, <1>4, ProceedKeeps
<1>6. HeardIsNoted'
  <2>1. \A t, i : ReceiptsOf(t, i)' = ReceiptsOf(t, i) /\ FirstReceipts(t, i)' = FirstReceipts(t, i)
    BY <1>1, SameJournal
  <2> QED
    BY <1>1, <2>1, HeardSame DEF ReceiptsInv
<1> QED
  BY <1>5, <1>6 DEF ReceiptsInv

\* The turn of the first one in the line comes.
LEMMA StartAppendKeeps ==
    ASSUME ReceiptsInv, StartAppend
    PROVE  ReceiptsInv'
<1> USE DEF ReceiptsInv
<1>1. /\ chain # <<>> /\ rewriting' = Head(chain)
      /\ UNCHANGED <<activity, chain, deliveries, heard, answered, unread, apart>>
  BY DEF StartAppend
<1>2. \A t, i : ReceiptsOf(t, i)' = ReceiptsOf(t, i) /\ FirstReceipts(t, i)' = FirstReceipts(t, i)
  BY <1>1, SameJournal
<1>3. Served' = Served
  BY <1>1 DEF Served
<1>4. ReceiptShapes'
  <2>1. chain \in Seq(Deliveries \cup {Reply})
    BY DEF ReceiptShapes
  <2>2. rewriting' = chain[1] /\ chain[1] \in Deliveries \cup {Reply}
    BY <1>1, <2>1
  <2>3. ToSet(chain)' = ToSet(chain) /\ OnceEach(chain)' /\ OnceEach(chain)
    BY <1>1 DEF ToSet, OnceEach, ReceiptShapes
  <2> QED
    BY <1>1, <2>2, <2>3 DEF ReceiptShapes
<1>5. ListedIsNoted'
  BY <1>1, <1>2, <1>3 DEF ListedIsNoted, Noted, ToSet
<1>6. ApartIsOnce'
  <2>1. \A e \in Served' : e \in Served /\ deliveries'[e] = deliveries[e]
    BY <1>1, <1>3
  <2> QED
    BY <1>1, <2>1, ApartStays
<1>7. HeardIsNoted'
  BY <1>1, <1>2, HeardSame
<1> QED
  BY <1>4, <1>5, <1>6, <1>7

\* The receipt is written: the first of its id, if its deliveries never came together.
LEMMA FinishAppendKeeps ==
    ASSUME ReceiptsInv, NEW d \in Deliveries, FinishAppend(d)
    PROVE  ReceiptsInv'
<1> USE DEF ReceiptsInv
<1>1. /\ rewriting = d /\ rewriting' = Nobody /\ chain' = Tail(chain) /\ Proceed(d)
      /\ UNCHANGED <<answered, unread, apart>>
  BY DEF FinishAppend
<1>2. d # Nobody
  BY ReceiptsAssumption
<1>3. chain # <<>> /\ chain[1] = d
  BY <1>1, <1>2 DEF ReceiptShapes
<1>4. /\ chain' \in Seq(Deliveries \cup {Reply}) /\ OnceEach(chain)'
      /\ ToSet(chain)' = ToSet(chain) \ {d} /\ d \in ToSet(chain)
  BY <1>1, <1>3, ChainShrinks
<1>5. deliveries[d].step = "append" /\ d \in Served
  BY <1>4 DEF ReceiptShapes, Served
<1>6. PICK thread \in Opened, id \in Ids, todo \in Seq(Opened) :
              /\ todo = deliveries[d].todo /\ todo # <<>> /\ thread = todo[1] /\ id = deliveries[d].id
              /\ thread \in ToSet(todo)
  BY <1>5, LookingFor
<1>7. PICK x : x = Read(thread, id)
  OBVIOUS
<1>8. activity' = Append(activity, x) /\ heard' = heard \cup {x} /\ x \in Entries /\ activity \in Seq(Entries)
  BY <1>6, <1>7 DEF FinishAppend, Read, Entries, ReceiptShapes
<1>9. PICK n : n = Len(activity) + 1
  OBVIOUS
<1>10. /\ activity' \in Seq(Entries)
       /\ \A t, i : ReceiptsOf(t, i)' = ReceiptsOf(t, i) \cup (IF x = Read(t, i) THEN {n} ELSE {})
  BY <1>8, <1>9, JournalGrows
<1>11. \A t, i : ReceiptsOf(t, i) \subseteq ReceiptsOf(t, i)'
  BY <1>10
<1>12. ReceiptsOf(thread, id)' # {} /\ Noted(thread, id)'
  <2>1. n \in ReceiptsOf(thread, id)'
    BY <1>7, <1>10
  <2> QED
    BY <2>1 DEF Noted
<1>13. deliveries \in [Deliveries -> DeliveryRecords] /\ deliveries[d].todo # <<>>
  BY <1>6 DEF ReceiptShapes
<1>14. PICK r \in DeliveryRecords :
              /\ OnlyThis(d, r) /\ r.id = deliveries[d].id /\ r.listed = deliveries[d].listed
              /\ r.step \in {"look", "answer"} /\ (r.step = "look" <=> r.todo # <<>>)
              /\ \A t : t \in ToSet(deliveries[d].todo) <=> t \in ToSet(r.todo) \/ t = deliveries[d].todo[1]
  BY <1>1, <1>13, ProceedIs
<1>15. /\ \A e \in Deliveries \ {d} : (e \in Served' <=> e \in Served) /\ deliveries'[e] = deliveries[e]
       /\ deliveries'[d] = r
       /\ \A e \in Served' : e \in Deliveries
  BY <1>14, ServedAre
<1>16. ReceiptShapes'
  <2>1. ASSUME NEW e \in Deliveries
        PROVE  /\ e \in ToSet(chain)' <=> deliveries'[e].step = "append"
               /\ deliveries'[e].step \in {"look", "append"} <=> deliveries'[e].todo # <<>>
    <3>1. CASE e = d
      BY <1>4, <1>14, <1>15, <3>1
    <3>2. CASE e # d
      <4>1. deliveries'[e] = deliveries[e] /\ (e \in ToSet(chain)' <=> e \in ToSet(chain))
        BY <1>4, <1>15, <3>2
      <4> QED
        BY <4>1 DEF ReceiptShapes
    <3> QED
      BY <3>1, <3>2
  <2>2. deliveries' \in [Deliveries -> DeliveryRecords]
    BY <1>14 DEF OnlyThis
  <2> QED
    BY <1>1, <1>4, <1>10, <2>1, <2>2 DEF ReceiptShapes
<1>17. ListedIsNoted'
  <2>1. \A t : t \in ToSet(deliveries[d].todo) => t \in ToSet(r.todo) \/ Noted(t, id)'
    BY <1>6, <1>12, <1>14
  <2>2. r.id = id /\ unread \subseteq unread' /\ answered' = answered
    BY <1>1, <1>6, <1>14
  <2> QED
    BY <1>5, <1>6, <1>11, <1>14, <2>1, <2>2, ListedStays
<1>18. ApartIsOnce'
  <2>1. \A e \in Served' : e \in Served /\ deliveries'[e].id = deliveries[e].id
    BY <1>5, <1>14, <1>15
  <2>2. \A e \in Served' : deliveries'[e].step = "append" =>
               deliveries[e].step = "append" /\ deliveries'[e].todo = deliveries[e].todo /\ e # d
    BY <1>14, <1>15
  <2>3. ASSUME NEW t \in Opened, NEW i \in EventIds, x = Read(t, i), <<t, i>> \in apart
        PROVE  /\ FirstReceipts(t, i) = {}
               /\ \A e \in Served' : ~(deliveries'[e].step = "append" /\ deliveries'[e].id = i /\ deliveries'[e].todo[1] = t)
    <3>1. t = thread /\ i = id /\ i \in Ids
      BY <1>7, <2>3 DEF Read, Ids
    <3>2. FirstReceipts(t, i) = {}
      BY <1>5, <1>6, <2>3, <3>1 DEF ApartIsOnce
    <3>3. \A e \in Served : deliveries[e].id = i => e = d
      BY <1>5, <1>6, <2>3, <3>1 DEF ApartIsOnce
    <3> QED
      BY <2>1, <2>2, <3>2, <3>3
  <2> QED
    BY <1>1, <1>8, <2>1, <2>2, <2>3, ApartGrows
<1>19. HeardIsNoted'
  BY <1>7, <1>8, <1>11, <1>12, HeardStays
<1> QED
  BY <1>16, <1>17, <1>18, <1>19

\* Other events are no receipts.
LEMMA ReplyComesKeeps ==
    ASSUME ReceiptsInv, NEW thread \in Opened, ReplyComes(thread)
    PROVE  ReceiptsInv'
<1> USE DEF ReceiptsInv
<1>1. UNCHANGED <<deliveries, heard, answered, unread, apart>>
  BY DEF ReplyComes
<1>2. Served' = Served
  BY <1>1 DEF Served
<1>3. Reply \notin Deliveries
  BY ReceiptsAssumption
<1>4. ASSUME \A t, i : ReceiptsOf(t, i) \subseteq ReceiptsOf(t, i)'
      PROVE  ListedIsNoted' /\ HeardIsNoted'
  <2>1. HeardIsNoted'
    BY <1>1, <1>4, HeardSame
  <2>2. ASSUME NEW t, NEW i, Noted(t, i) PROVE Noted(t, i)'
    BY <1>1, <1>4, <2>2, NotedStays
  <2>3. ASSUME NEW e \in Served, NEW t \in deliveries[e].listed, NEW i, i = deliveries[e].id
        PROVE  t \in ToSet(deliveries[e].todo) \/ Noted(t, i)'
    <3>1. t \in ToSet(deliveries[e].todo) \/ Noted(t, i)
      BY <2>3 DEF ListedIsNoted
    <3> QED
      BY <2>2, <3>1
  <2>4. ASSUME NEW m \in answered, NEW t, NEW i, t = m[1], i = m[2] PROVE Noted(t, i)'
    <3>1. Noted(t, i)
      BY <2>4 DEF ListedIsNoted
    <3> QED
      BY <2>2, <3>1
  <2>5. /\ \A e \in Served : \A t \in deliveries[e].listed :
              t \in ToSet(deliveries[e].todo) \/ \A i : i = deliveries[e].id => Noted(t, i)'
        /\ \A m \in answered : \A t, i : t = m[1] /\ i = m[2] => Noted(t, i)'
    BY <2>3, <2>4
  <2>6. ListedIsNoted'
    BY <1>1, <1>2, <2>5 DEF ListedIsNoted, Noted, ReceiptsOf, Read, ToSet
  <2> QED
    BY <2>1, <2>6
<1>5. \A e \in Served' : e \in Served /\ deliveries'[e] = deliveries[e]
  BY <1>1, <1>2
<1>6. CASE /\ Reply \notin ToSet(chain) /\ chain' = Append(chain, Reply) /\ UNCHANGED <<activity, rewriting>>
  <2>1. \A t, i : ReceiptsOf(t, i)' = ReceiptsOf(t, i)
    BY <1>6, SameJournal
  <2>2. ListedIsNoted' /\ HeardIsNoted'
    BY <1>4, <2>1
  <2>3. ApartIsOnce'
    BY <1>1, <1>5, <1>6, ApartStays
  <2>4. /\ chain' \in Seq(Deliveries \cup {Reply}) /\ OnceEach(chain)' /\ (chain # <<>> => chain'[1] = chain[1])
        /\ chain' # <<>> /\ ToSet(chain)' = ToSet(chain) \cup {Reply}
    BY <1>6, ChainGrows
  <2>5. \A e \in Deliveries : e \in ToSet(chain)' <=> e \in ToSet(chain)
    BY <1>3, <2>4
  <2>6. ReceiptShapes'
    BY <1>1, <1>6, <2>4, <2>5 DEF ReceiptShapes
  <2> QED
    BY <2>2, <2>3, <2>6
<1>7. CASE /\ rewriting = Reply /\ rewriting' = Nobody /\ chain' = Tail(chain)
           /\ activity' = Append(activity, [thread |-> thread, id |-> Reply])
  <2>1. PICK x : x = [thread |-> thread, id |-> Reply]
    OBVIOUS
  <2>2. activity' = Append(activity, x) /\ x \in Entries /\ activity \in Seq(Entries)
    BY <1>7, <2>1 DEF Entries, ReceiptShapes
  <2>3. PICK n : n = Len(activity) + 1
    OBVIOUS
  <2>4. /\ activity' \in Seq(Entries)
        /\ \A t, i : ReceiptsOf(t, i)' = ReceiptsOf(t, i) \cup (IF x = Read(t, i) THEN {n} ELSE {})
    BY <2>2, <2>3, JournalGrows
  <2>5. \A t, i : ReceiptsOf(t, i) \subseteq ReceiptsOf(t, i)'
    BY <2>4
  <2>6. ListedIsNoted' /\ HeardIsNoted'
    BY <1>4, <2>5
  <2>7. ApartIsOnce'
    <3>1. \A t \in Opened, i \in EventIds : x # Read(t, i)
      BY <2>1, ReceiptsAssumption DEF Read
    <3> QED
      BY <1>1, <1>5, <2>2, <3>1, ApartGrows
  <2>8. chain # <<>> /\ chain[1] = Reply
    <3>1. Reply # Nobody
      BY DEF Reply, Nobody
    <3> QED
      BY <1>7, <3>1 DEF ReceiptShapes
  <2>9. /\ chain' \in Seq(Deliveries \cup {Reply}) /\ OnceEach(chain)'
        /\ ToSet(chain)' = ToSet(chain) \ {Reply}
    BY <1>7, <2>8, ChainShrinks
  <2>10. \A e \in Deliveries : e \in ToSet(chain)' <=> e \in ToSet(chain)
    BY <1>3, <2>9
  <2>11. ReceiptShapes'
    BY <1>1, <1>7, <2>4, <2>9, <2>10 DEF ReceiptShapes
  <2> QED
    BY <2>6, <2>7, <2>11
<1> QED
  BY <1>6, <1>7 DEF ReplyComes

\* Who is answered has no thread left to note.
LEMMA AnswerDeliveryKeeps ==
    ASSUME ReceiptsInv, NEW d \in Deliveries, AnswerDelivery(d)
    PROVE  ReceiptsInv'
<1> USE DEF ReceiptsInv
<1>1. /\ deliveries[d].step = "answer" /\ deliveries' = [deliveries EXCEPT ![d] = Away]
      /\ answered' = answered \cup (deliveries[d].listed \X {deliveries[d].id})
      /\ UNCHANGED <<activity, rewriting, chain, heard, unread, apart>>
  BY DEF AnswerDelivery
<1>2. PICK r \in DeliveryRecords : r = Away /\ r.step = "idle" /\ r.todo = <<>>
  BY AwayIs
<1>3. OnlyThis(d, r) /\ d \in Served /\ deliveries[d].todo = <<>>
  <2>1. deliveries \in [Deliveries -> DeliveryRecords] /\ deliveries[d].todo = <<>>
    BY <1>1 DEF ReceiptShapes
  <2>2. d \in Served
    BY <1>1 DEF Served
  <2> QED
    BY <1>1, <1>2, <2>1, <2>2, ThisIs
<1>4. ReceiptShapes'
  BY <1>1, <1>2, <1>3, SameLine
<1>5. \A e \in Served' : e \in Served /\ e # d /\ deliveries'[e] = deliveries[e]
  BY <1>2, <1>3, ServedAre
<1>6. \A t, i : ReceiptsOf(t, i)' = ReceiptsOf(t, i)
  BY <1>1, SameJournal
<1>7. \A t, i : Noted(t, i)' <=> Noted(t, i)
  BY <1>1, <1>6 DEF Noted
<1>8. ListedIsNoted'
  <2>1. ASSUME NEW m \in answered' PROVE Noted(m[1], m[2])
    <3>1. CASE m \in answered
      BY <3>1 DEF ListedIsNoted
    <3>2. CASE m \notin answered
      <4>1. PICK t \in deliveries[d].listed, i \in {deliveries[d].id} : m = <<t, i>>
        BY <1>1, <3>2
      <4>2. t \in ToSet(deliveries[d].todo) \/ Noted(t, i)
        BY <1>3, <4>1 DEF ListedIsNoted
      <4>3. t \notin ToSet(deliveries[d].todo)
        BY <1>3 DEF ToSet
      <4> QED
        BY <4>1, <4>2, <4>3
    <3> QED
      BY <3>1, <3>2
  <2>2. ASSUME NEW e \in Served', NEW t \in deliveries'[e].listed
        PROVE  t \in ToSet(deliveries'[e].todo) \/ Noted(t, deliveries'[e].id)
    BY <1>5, <2>2 DEF ListedIsNoted
  <2> QED
    BY <1>1, <1>6, <2>1, <2>2 DEF ListedIsNoted, Noted
<1>9. ApartIsOnce'
  BY <1>1, <1>5, ApartStays
<1>10. HeardIsNoted'
  BY <1>1, <1>6, HeardSame
<1> QED
  BY <1>4, <1>8, <1>9, <1>10

\* All steps together.
LEMMA ReceiptsGoOn ==
    ASSUME ReceiptsInv, [ReceiptsNext]_receiptVars
    PROVE  ReceiptsInv'
<1>1. CASE UNCHANGED receiptVars
  <2>1. UNCHANGED <<activity, rewriting, chain, deliveries, heard, answered, unread, apart>>
    BY <1>1 DEF receiptVars
  <2>2. ReceiptShapes'
    <3>1. ToSet(chain)' = ToSet(chain) /\ OnceEach(chain)' /\ OnceEach(chain)
      BY <2>1 DEF ToSet, OnceEach, ReceiptsInv, ReceiptShapes
    <3> QED
      BY <2>1, <3>1 DEF ReceiptsInv, ReceiptShapes
  <2>3. \A t, i : ReceiptsOf(t, i)' = ReceiptsOf(t, i)
    BY <2>1, SameJournal
  <2>4. Served' = Served
    BY <2>1 DEF Served
  <2>5. ListedIsNoted'
    BY <2>1, <2>3, <2>4 DEF ReceiptsInv, ListedIsNoted, Noted, ToSet
  <2>6. ApartIsOnce'
    <3>1. \A e \in Served' : e \in Served /\ deliveries'[e] = deliveries[e]
      BY <2>1, <2>4
    <3> QED
      BY <2>1, <3>1, ApartStays DEF ReceiptsInv
  <2>7. HeardIsNoted'
    BY <2>1, <2>3, HeardSame DEF ReceiptsInv
  <2> QED
    BY <2>2, <2>5, <2>6, <2>7 DEF ReceiptsInv
<1>2. ASSUME NEW d \in Deliveries, LookForReceipt(d) PROVE ReceiptsInv'
  BY <1>2, LookForReceiptKeeps
<1>3. ASSUME NEW d \in Deliveries, LookForReceiptFails(d) PROVE ReceiptsInv'
  BY <1>3, LookForReceiptFailsKeeps
<1>4. ASSUME NEW d \in Deliveries, FinishAppend(d) PROVE ReceiptsInv'
  BY <1>4, FinishAppendKeeps
<1>5. ASSUME NEW d \in Deliveries, AnswerDelivery(d) PROVE ReceiptsInv'
  BY <1>5, AnswerDeliveryKeeps
<1>6. ASSUME NEW d \in Deliveries, NEW id \in EventIds \cup {NoEventId},
             NEW threads \in {SetToSeq(Opened)} \cup {<<t>> : t \in Opened}, Deliver(d, id, threads)
      PROVE  ReceiptsInv'
  BY <1>6, DeliverKeeps DEF Ids
<1>7. ASSUME StartAppend PROVE ReceiptsInv'
  BY <1>7, StartAppendKeeps
<1>8. ASSUME NEW t \in Opened, ReplyComes(t) PROVE ReceiptsInv'
  BY <1>8, ReplyComesKeeps
<1> QED
  BY <1>1, <1>2, <1>3, <1>4, <1>5, <1>6, <1>7, <1>8 DEF ReceiptsNext

\* What was answered are threads with an id.
AnsweredArePairs == answered \subseteq Opened \X Ids

LEMMA PairsGoOn ==
    ASSUME ReceiptsInv, AnsweredArePairs, [ReceiptsNext]_receiptVars
    PROVE  AnsweredArePairs'
<1>1. CASE UNCHANGED answered
  BY <1>1 DEF AnsweredArePairs
<1>2. ASSUME NEW d \in Deliveries, AnswerDelivery(d) PROVE AnsweredArePairs'
  <2>1. deliveries[d] \in DeliveryRecords
    BY DEF ReceiptsInv, ReceiptShapes
  <2>2. deliveries[d].listed \subseteq Opened /\ deliveries[d].id \in Ids
    BY <2>1 DEF DeliveryRecords
  <2> QED
    BY <1>2, <2>2 DEF AnswerDelivery, AnsweredArePairs
<1>3. UNCHANGED answered \/ \E d \in Deliveries : AnswerDelivery(d)
  BY DEF receiptVars, ReceiptsNext, LookForReceipt, LookForReceiptFails, FinishAppend, Deliver,
         StartAppend, ReplyComes
<1> QED
  BY <1>1, <1>2, <1>3

LEMMA ReceiptsAreKept ==
    ASSUME ReceiptsInv, AnsweredArePairs
    PROVE  ReceiptsTypeOK /\ AnsweredIsNoted /\ RetriesAreNotedOnce /\ HeardIsNoted
<1>1. ReceiptsTypeOK
  BY DEF ReceiptsInv, ReceiptShapes, ReceiptsTypeOK
<1>2. AnsweredIsNoted
  <2>1. ASSUME NEW m \in answered \ unread PROVE ReceiptsOf(m[1], m[2]) # {}
    <3>1. Noted(m[1], m[2])
      BY DEF ReceiptsInv, ListedIsNoted
    <3>2. m = <<m[1], m[2]>>
      BY DEF AnsweredArePairs
    <3> QED
      BY <3>1, <3>2 DEF Noted
  <2> QED
    BY <2>1 DEF AnsweredIsNoted
<1>3. RetriesAreNotedOnce
  BY DEF ReceiptsInv, ApartIsOnce, RetriesAreNotedOnce, FirstReceipts, Ids
<1> QED
  BY <1>1, <1>2, <1>3 DEF ReceiptsInv

-----------------------------------------------------------------------------
(* The ledger and the receipts *)

RecordsInv == LedgerInv /\ ReceiptsInv /\ AnsweredArePairs

\* What the Node server keeps of reading is right: the ledger has what the last snapshot says of each
\* change, through failed writes and crashes, unless two calls came together; who was answered has a
\* receipt on every thread that was listed; a request that is asked again is noted once; and nobody hears
\* of a receipt that is not there (node-review-ledger-store.ts; observeCommentThreadRead).
THEOREM NodeRecordsStand == MCSpec => []NodeRecordsHold
<1>1. MCInit => RecordsInv
  BY LedgerStart, ReceiptsStart DEF MCInit, RecordsInv, AnsweredArePairs, ReceiptsInit
<1>2. RecordsInv /\ [MCNext]_recordVars => RecordsInv'
  <2> SUFFICES ASSUME RecordsInv, [MCNext]_recordVars PROVE RecordsInv'
    OBVIOUS
  <2>1. [LedgerNext]_ledgerVars /\ [ReceiptsNext]_receiptVars
    BY DEF MCNext, recordVars
  <2> QED
    BY <2>1, LedgerGoesOn, ReceiptsGoOn, PairsGoOn DEF RecordsInv
<1>3. RecordsInv => NodeRecordsHold
  BY LedgerIsKept, ReceiptsAreKept DEF RecordsInv, NodeRecordsHold
<1> QED
  BY <1>1, <1>2, <1>3, PTL DEF MCSpec

=============================================================================
