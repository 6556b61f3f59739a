---------------------------- MODULE WatcherProofs ----------------------------
(***************************************************************************)
(* Theorems about WorkspaceWatcher, for any directories, files and bounds: *)
(* its types, that its picture is the workspace once it has nothing left   *)
(* to do (from PictureInv, which says of every path what is on its way to  *)
(* put the picture right), and that nothing is missed in a directory whose *)
(* creation was reported and that lasts (from CompleteInv, which says that *)
(* such a directory is watched, or due to be watched and then scanned).    *)
(***************************************************************************)
EXTENDS WorkspaceWatcher, TLAPS, SequenceTheorems, WellFoundedInduction

-----------------------------------------------------------------------------
(* Paths *)

LEMMA PathFacts ==
  ASSUME NEW p \in Paths
  PROVE  /\ p \in Seq(STRING) /\ Len(p) \in Nat /\ Len(p) > 0 /\ p # Root
         /\ Parent(p) \in Seq(STRING) /\ Len(Parent(p)) = Len(p) - 1
         /\ Parent(p) \in Dirs \cup {Root} /\ Parent(p) # p
<1>1. p \in Seq(STRING) /\ Len(p) > 0 /\ Parent(p) \in Dirs \cup {Root}
  BY WatcherAssumption
<1>2. Len(p) \in Nat /\ \A i \in 1 .. Len(p) - 1 : p[i] \in STRING
  BY <1>1, ElementOfSeq, LenProperties
<1>3. Parent(p) \in Seq(STRING) /\ Len(Parent(p)) = Len(p) - 1
  <2>1. 1 \in Int /\ Len(p) - 1 \in Int /\ Len(p) - 1 >= 0
    BY <1>1, <1>2
  <2> DEFINE n == Len(p) - 1
  <2>2. n \in Int /\ \A i \in 1 .. n : p[i] \in STRING
    BY <1>2, <2>1
  <2> HIDE DEF n
  <2>3. SubSeq(p, 1, n) \in Seq(STRING) /\ Len(SubSeq(p, 1, n)) = IF 1 <= n THEN n - 1 + 1 ELSE 0
    BY <2>2, SubSeqProperties
  <2>4. n = Len(p) - 1 /\ Parent(p) = SubSeq(p, 1, n)
    BY DEF n, Parent
  <2>5. Len(Parent(p)) = n
    BY <2>1, <2>2, <2>3, <2>4
  <2>6. QED
    BY <2>3, <2>4, <2>5
<1>4. p # Root /\ Parent(p) # p
  BY <1>1, <1>2, <1>3, EmptySeq DEF Root
<1>5. QED
  BY <1>1, <1>2, <1>3, <1>4

LEMMA WithinSelf ==
  ASSUME NEW p \in Paths
  PROVE  p \in Within(p)
BY PathFacts, SubSeqFull DEF Within

\* What lies below a directory lies below it with the directory in between.
LEMMA ParentWithin ==
  ASSUME NEW q \in Paths, NEW p \in Within(q), p # q
  PROVE  Parent(p) \in Within(q) /\ Parent(p) \in Dirs /\ Len(Parent(p)) < Len(p)
<1>1. p \in Paths /\ Len(q) <= Len(p) /\ SubSeq(p, 1, Len(q)) = q
  BY DEF Within
<1>2. /\ p \in Seq(STRING) /\ Len(p) \in Nat /\ Len(p) > 0
      /\ q \in Seq(STRING) /\ Len(q) \in Nat /\ Len(q) > 0
      /\ Parent(p) \in Seq(STRING) /\ Len(Parent(p)) = Len(p) - 1
      /\ Parent(p) \in Dirs \cup {Root}
  BY <1>1, PathFacts
<1>3. Len(q) # Len(p)
  BY <1>1, <1>2, SubSeqFull
<1>4. Len(q) <= Len(Parent(p)) /\ Len(Parent(p)) > 0
  <2>1. \A a, b \in Nat : a <= b /\ a # b /\ a > 0 => a <= b - 1 /\ b - 1 > 0
    OBVIOUS
  <2>2. Len(q) <= Len(p) - 1 /\ Len(p) - 1 > 0
    BY <1>1, <1>2, <1>3, <2>1
  <2>3. QED
    BY <1>2, <2>2
<1>5. Parent(p) # Root
  BY <1>2, <1>4, EmptySeq DEF Root
<1>6. SubSeq(Parent(p), 1, Len(q)) = SubSeq(p, 1, Len(q))
  <2>1. Parent(p) = SubSeq(p, 1, Len(p) - 1)
    BY DEF Parent
  <2>2. /\ 1 \in 1 .. Len(p) /\ Len(p) - 1 \in 1 .. Len(p)
        /\ 1 \in 1 .. (Len(p) - 1) - 1 + 1 /\ Len(q) \in 1 .. (Len(p) - 1) - 1 + 1
        /\ 1 + 1 - 1 = 1 /\ 1 + Len(q) - 1 = Len(q)
    <3>1. \A a, b \in Nat : a > 0 /\ b > 0 /\ a <= b - 1 =>
             /\ 1 \in 1 .. b /\ b - 1 \in 1 .. b
             /\ 1 \in 1 .. (b - 1) - 1 + 1 /\ a \in 1 .. (b - 1) - 1 + 1
             /\ 1 + 1 - 1 = 1 /\ 1 + a - 1 = a
      OBVIOUS
    <3>2. Len(q) <= Len(p) - 1
      BY <1>2, <1>4
    <3>3. QED
      BY <1>2, <3>1, <3>2
  <2>3. SubSeq(SubSeq(p, 1, Len(p) - 1), 1, Len(q)) = SubSeq(p, 1 + 1 - 1, 1 + Len(q) - 1)
    BY <1>2, <2>2, SubSeqOfSubSeq
  <2>4. SubSeq(p, 1 + 1 - 1, 1 + Len(q) - 1) = SubSeq(p, 1, Len(q))
    BY <2>2
  <2>5. QED
    BY <2>1, <2>3, <2>4
<1>7. QED
  BY <1>1, <1>2, <1>4, <1>5, <1>6 DEF Within, Paths

LEMMA WithinParent ==
  ASSUME NEW p \in Paths, Parent(p) # Root
  PROVE  p \in Within(Parent(p)) /\ Parent(p) \in Paths
<1>1. /\ p \in Seq(STRING) /\ Len(p) \in Nat /\ Len(p) > 0
      /\ Len(Parent(p)) = Len(p) - 1 /\ Parent(p) \in Paths
  BY PathFacts DEF Paths
<1>2. SubSeq(p, 1, Len(Parent(p))) = Parent(p)
  BY <1>1 DEF Parent
<1>3. QED
  BY <1>1, <1>2 DEF Within

\* A set of paths that is not empty has a shortest one.
LEMMA ShortestPath ==
  ASSUME NEW T \in SUBSET Paths, T # {}
  PROVE  \E p \in T : \A q \in T : ~ (Len(q) < Len(p))
<1> DEFINE lens == {Len(p) : p \in T}
<1>1. lens \subseteq Nat /\ lens # {}
  BY PathFacts
<1>2. PICK n \in lens : \A m \in lens : ~ (<<m, n>> \in OpToRel(<,Nat))
  BY <1>1, NatLessThanWellFounded, WFMin
<1>3. \A m \in lens : ~ (m < n)
  BY <1>1, <1>2 DEF OpToRel
<1>4. QED
  BY <1>3

\* Nothing lies below a file.
LEMMA FileAlone ==
  ASSUME NEW f \in Files
  PROVE  Within(f) = {f}
<1> DEFINE others == Within(f) \ {f}
<1>1. f \in Paths /\ f \notin Dirs
  BY WatcherAssumption DEF Paths
<1>2. f \in Within(f)
  BY <1>1, WithinSelf
<1>3. others \in SUBSET Paths
  BY DEF Within
<1>4. ASSUME others # {} PROVE FALSE
  <2>1. PICK p \in others : \A q \in others : ~ (Len(q) < Len(p))
    BY <1>3, <1>4, ShortestPath
  <2>2. Parent(p) \in Within(f) /\ Parent(p) \in Dirs /\ Len(Parent(p)) < Len(p)
    BY <1>1, <2>1, ParentWithin
  <2>3. QED
    BY <1>1, <2>1, <2>2
<1>5. QED
  BY <1>2, <1>4

\* Where something exists, all directories above it do.
DiskClosed == \A p \in Paths : disk[p] > 0 => Exists(Parent(p))

LEMMA AboveExists ==
  ASSUME TypeOK, DiskClosed, NEW q \in Paths, NEW p \in Within(q), disk[p] > 0
  PROVE  disk[q] > 0
<1> DEFINE bad == {x \in Within(q) : disk[x] > 0}
<1>1. bad \in SUBSET Paths /\ bad # {}
  BY DEF Within
<1>2. PICK x \in bad : \A y \in bad : ~ (Len(y) < Len(x))
  BY <1>1, ShortestPath
<1>3. CASE x = q
  BY <1>2, <1>3
<1>4. CASE x # q
  <2>1. /\ Parent(x) \in Within(q) /\ Parent(x) \in Dirs /\ Len(Parent(x)) < Len(x)
        /\ x \in Paths
    BY <1>1, <1>2, <1>4, ParentWithin
  <2>2. Parent(x) # Root
    BY <2>1, PathFacts DEF Paths
  <2>3. disk[Parent(x)] > 0
    BY <1>2, <2>1, <2>2 DEF DiskClosed, Exists
  <2>4. QED
    BY <1>2, <2>1, <2>3
<1>5. QED
  BY <1>3, <1>4

-----------------------------------------------------------------------------
(* The queue *)

Covers(e, p) == e.op = "remove" /\ p \in Within(e.path)
Fixes(e, p) == e.op \in {"create", "write"} /\ p \in Within(e.path)

ErrorQueued == \E i \in DOMAIN queue : queue[i].op = "error"
Fixed(p) == \E i \in DOMAIN queue : Fixes(queue[i], p)
Removed(p) == \E i \in DOMAIN queue : queue[i].op = "remove" /\ queue[i].path = p

\* Every event that will take p from the picture is followed by one that brings
\* it back.
Answered(p) ==
    \A j \in DOMAIN queue : Covers(queue[j], p) =>
        \E i \in DOMAIN queue : i > j /\ (queue[i].op = "error" \/ Fixes(queue[i], p))

LEMMA QueueGrows ==
  ASSUME queue \in Seq(Events), NEW e \in Events, queue' = Append(queue, e)
  PROVE  /\ queue' \in Seq(Events)
         /\ \A i \in DOMAIN queue : /\ i \in DOMAIN queue' /\ queue'[i] = queue[i]
                                    /\ i \in Nat /\ Len(queue) + 1 > i
         /\ Len(queue) + 1 \in DOMAIN queue' /\ queue'[Len(queue) + 1] = e
         /\ \A i \in DOMAIN queue' : i \in DOMAIN queue \/ i = Len(queue) + 1
<1>1. /\ queue' \in Seq(Events) /\ Len(queue') = Len(queue) + 1
      /\ \A i \in 1 .. Len(queue) : queue'[i] = queue[i]
      /\ queue'[Len(queue) + 1] = e
  BY AppendProperties
<1>2. /\ Len(queue) \in Nat /\ DOMAIN queue = 1 .. Len(queue)
      /\ DOMAIN queue' = 1 .. Len(queue')
  BY <1>1, LenProperties
<1>3. QED
  BY <1>1, <1>2

LEMMA QueueShrinks ==
  ASSUME queue \in Seq(Events), queue # <<>>, queue' = Tail(queue)
  PROVE  /\ queue' \in Seq(Events) /\ Head(queue) \in Events
         /\ 1 \in DOMAIN queue /\ Head(queue) = queue[1]
         /\ \A i \in DOMAIN queue' : /\ i \in Nat /\ i + 1 \in DOMAIN queue
                                     /\ queue'[i] = queue[i + 1] /\ i + 1 > 1
         /\ \A i \in DOMAIN queue : /\ i \in Nat
                                    /\ \/ i = 1
                                       \/ /\ i - 1 \in DOMAIN queue'
                                          /\ queue'[i - 1] = queue[i]
<1>1. /\ Head(queue) \in Events /\ queue' \in Seq(Events)
      /\ Len(queue') = Len(queue) - 1
      /\ \A i \in 1 .. Len(queue') : queue'[i] = queue[i + 1]
  BY HeadTailProperties
<1>2. /\ Len(queue) \in Nat /\ DOMAIN queue = 1 .. Len(queue)
      /\ DOMAIN queue' = 1 .. Len(queue')
  BY <1>1, LenProperties
<1>3. Len(queue) > 0
  BY <1>2, EmptySeq
<1>4. Head(queue) = queue[1]
  OBVIOUS
<1>5. QED
  BY <1>1, <1>2, <1>3, <1>4

\* What one more event does to what the queue holds for a path.
LEMMA GrownQueue ==
  ASSUME queue \in Seq(Events), NEW e \in Events, queue' = Append(queue, e), NEW p
  PROVE  /\ ErrorQueued \/ e.op = "error" => ErrorQueued'
         /\ Fixed(p) \/ Fixes(e, p) => Fixed(p)'
         /\ Removed(p) \/ (e.op = "remove" /\ e.path = p) => Removed(p)'
         /\ Answered(p) /\ ~ Covers(e, p) => Answered(p)'
         /\ e.op = "error" \/ Fixes(e, p) => Answered(p)'
<1> DEFINE last == Len(queue) + 1
<1>1. /\ \A i \in DOMAIN queue : /\ i \in DOMAIN queue' /\ queue'[i] = queue[i]
                                 /\ i \in Nat /\ last > i
      /\ last \in DOMAIN queue' /\ queue'[last] = e
      /\ \A i \in DOMAIN queue' : i \in DOMAIN queue \/ i = last
  BY QueueGrows
<1> HIDE DEF last
<1>2. ErrorQueued \/ e.op = "error" => ErrorQueued'
  BY <1>1 DEF ErrorQueued
<1>3. Fixed(p) \/ Fixes(e, p) => Fixed(p)'
  <2>1. Fixes(e, p) => Fixes(queue'[last], p')
    BY <1>1
  <2>2. \A i \in DOMAIN queue : Fixes(queue[i], p) => Fixes(queue'[i], p)
    BY <1>1
  <2>3. QED
    BY <1>1, <2>2 DEF Fixed, Fixes, Within
<1>4. Removed(p) \/ (e.op = "remove" /\ e.path = p) => Removed(p)'
  BY <1>1 DEF Removed
<1>5. Answered(p) /\ ~ Covers(e, p) => Answered(p)'
  <2> SUFFICES ASSUME Answered(p), ~ Covers(e, p), NEW j \in DOMAIN queue',
                      Covers(queue'[j], p)
               PROVE  \E i \in DOMAIN queue' : i > j /\ (queue'[i].op = "error" \/ Fixes(queue'[i], p))
    BY DEF Answered, Covers, Fixes, Within
  <2>1. j \in DOMAIN queue /\ Covers(queue[j], p)
    BY <1>1
  <2>2. PICK i \in DOMAIN queue : i > j /\ (queue[i].op = "error" \/ Fixes(queue[i], p))
    BY <2>1 DEF Answered
  <2>3. QED
    BY <1>1, <2>2
<1>6. e.op = "error" \/ Fixes(e, p) => Answered(p)'
  <2> SUFFICES ASSUME e.op = "error" \/ Fixes(e, p), NEW j \in DOMAIN queue',
                      Covers(queue'[j], p)
               PROVE  \E i \in DOMAIN queue' : i > j /\ (queue'[i].op = "error" \/ Fixes(queue'[i], p))
    BY DEF Answered, Covers, Fixes, Within
  <2>1. j # last
    BY <1>1 DEF Covers, Fixes
  <2>2. QED
    BY <1>1, <2>1
<1>7. QED
  BY <1>2, <1>3, <1>4, <1>5, <1>6

\* What is left when the oldest event was taken.
LEMMA ShrunkQueue ==
  ASSUME queue \in Seq(Events), queue # <<>>, queue' = Tail(queue), NEW p
  PROVE  /\ ErrorQueued => ErrorQueued' \/ Head(queue).op = "error"
         /\ Fixed(p) => Fixed(p)' \/ Fixes(Head(queue), p)
         /\ Removed(p) => Removed(p)' \/ (Head(queue).op = "remove" /\ Head(queue).path = p)
         /\ Answered(p) => Answered(p)'
         /\ Answered(p) /\ Covers(Head(queue), p) => ErrorQueued' \/ Fixed(p)'
<1>1. /\ 1 \in DOMAIN queue /\ Head(queue) = queue[1]
      /\ \A i \in DOMAIN queue' : /\ i \in Nat /\ i + 1 \in DOMAIN queue
                                  /\ queue'[i] = queue[i + 1] /\ i + 1 > 1
      /\ \A i \in DOMAIN queue : /\ i \in Nat
                                 /\ \/ i = 1
                                    \/ /\ i - 1 \in DOMAIN queue'
                                       /\ queue'[i - 1] = queue[i]
  BY QueueShrinks
<1>2. ErrorQueued => ErrorQueued' \/ Head(queue).op = "error"
  BY <1>1 DEF ErrorQueued
<1>3. Fixed(p) => Fixed(p)' \/ Fixes(Head(queue), p)
  BY <1>1 DEF Fixed, Fixes, Within
<1>4. Removed(p) => Removed(p)' \/ (Head(queue).op = "remove" /\ Head(queue).path = p)
  BY <1>1 DEF Removed
<1>5. Answered(p) => Answered(p)'
  <2> SUFFICES ASSUME Answered(p), NEW j \in DOMAIN queue', Covers(queue'[j], p)
               PROVE  \E i \in DOMAIN queue' : i > j /\ (queue'[i].op = "error" \/ Fixes(queue'[i], p))
    BY DEF Answered, Covers, Fixes, Within
  <2>1. j \in Nat /\ j + 1 \in DOMAIN queue /\ Covers(queue[j + 1], p)
    BY <1>1
  <2>2. PICK i \in DOMAIN queue : i > j + 1 /\ (queue[i].op = "error" \/ Fixes(queue[i], p))
    BY <2>1 DEF Answered
  <2>3. i - 1 \in DOMAIN queue' /\ queue'[i - 1] = queue[i] /\ i - 1 > j
    BY <1>1, <2>1, <2>2
  <2>4. QED
    BY <2>2, <2>3
<1>6. Answered(p) /\ Covers(Head(queue), p) => ErrorQueued' \/ Fixed(p)'
  <2> SUFFICES ASSUME Answered(p), Covers(Head(queue), p)
               PROVE  ErrorQueued' \/ Fixed(p)'
    OBVIOUS
  <2>1. PICK i \in DOMAIN queue : i > 1 /\ (queue[i].op = "error" \/ Fixes(queue[i], p))
    BY <1>1 DEF Answered
  <2>2. i - 1 \in DOMAIN queue' /\ queue'[i - 1] = queue[i]
    BY <1>1, <2>1
  <2>3. QED
    BY <2>1, <2>2 DEF ErrorQueued, Fixed, Fixes, Within
<1>7. QED
  BY <1>2, <1>3, <1>4, <1>5, <1>6

-----------------------------------------------------------------------------
(* Types *)

\* The four changes of the workspace have the same shape.
Changed(op, p, new, at) ==
    /\ Change(p, new, at)
    /\ Report(op, p, new)
    /\ \/ op # "remove" /\ UNCHANGED <<watches, replaced>>
       \/ /\ op = "remove" /\ watches' = watches \ {p}
          /\ replaced' = replaced \cup ({p} \cap Dirs)

\* What each of the four asks for beforehand.
MayChange(op, p, new, at) ==
    /\ p \in Paths /\ p \in new /\ new \subseteq Within(p) /\ at \in Nat
    /\ \/ /\ op = "remove" /\ at = 0 /\ new = {p} /\ disk[p] > 0
          /\ \A q \in Within(p) \ {p} : ~ Exists(q)
       \/ /\ op = "create" /\ at > 0 /\ ~ Exists(p) /\ Exists(Parent(p))
          /\ \A q \in new \ {p} : Parent(q) \in new
          /\ p \in Files => new = {p}
       \/ op = "write" /\ at > 0 /\ new = {p} /\ disk[p] > 0 /\ p \in Files

Disturbs ==
    \E op \in {"create", "write", "remove"}, p \in Paths, new \in SUBSET Paths, at \in Nat :
        MayChange(op, p, new, at) /\ Changed(op, p, new, at)

LEMMA FourChanges ==
  ASSUME TypeOK, \/ \E p \in Paths : Create(p) \/ Remove(p)
                 \/ \E f \in Files : Write(f)
                 \/ \E d \in Dirs : \E new \in SUBSET Within(d) : Arrive(d, new)
  PROVE  Disturbs
<1> clock + 1 \in Nat /\ clock + 1 > 0 /\ 0 \in Nat
  BY DEF TypeOK
<1>1. ASSUME NEW p \in Paths, Create(p) PROVE Disturbs
  <2>1. {p} \in SUBSET Paths /\ {p} \subseteq Within(p)
    BY WithinSelf
  <2>2. MayChange("create", p, {p}, clock + 1)
    BY <1>1, <2>1 DEF Create, MayChange
  <2>3. Changed("create", p, {p}, clock + 1)
    BY <1>1 DEF Create, Changed
  <2>4. QED
    BY <2>1, <2>2, <2>3 DEF Disturbs
<1>2. ASSUME NEW p \in Paths, Remove(p) PROVE Disturbs
  <2>1. {p} \in SUBSET Paths /\ {p} \subseteq Within(p) /\ disk[p] > 0
    BY <1>2, WithinSelf, PathFacts DEF Remove, Exists
  <2>2. MayChange("remove", p, {p}, 0)
    BY <1>2, <2>1 DEF Remove, MayChange
  <2>3. Changed("remove", p, {p}, 0)
    BY <1>2 DEF Remove, Changed
  <2>4. QED
    BY <2>1, <2>2, <2>3 DEF Disturbs
<1>3. ASSUME NEW f \in Files, Write(f) PROVE Disturbs
  <2>1. f \in Paths
    BY DEF Paths
  <2>2. {f} \in SUBSET Paths /\ {f} \subseteq Within(f) /\ disk[f] > 0
    BY <1>3, <2>1, WithinSelf, PathFacts DEF Write, Exists
  <2>3. MayChange("write", f, {f}, clock + 1)
    BY <1>3, <2>1, <2>2 DEF Write, MayChange
  <2>4. Changed("write", f, {f}, clock + 1)
    BY <1>3 DEF Write, Changed
  <2>5. QED
    BY <2>1, <2>2, <2>3, <2>4 DEF Disturbs
<1>4. ASSUME NEW d \in Dirs, NEW new \in SUBSET Within(d), Arrive(d, new) PROVE Disturbs
  <2>1. d \in Paths /\ new \in SUBSET Paths /\ d \notin Files
    BY WatcherAssumption DEF Paths, Within
  <2>2. MayChange("create", d, new, clock + 1)
    BY <1>4, <2>1 DEF Arrive, MayChange
  <2>3. Changed("create", d, new, clock + 1)
    BY <1>4 DEF Arrive, Changed
  <2>4. QED
    BY <2>1, <2>2, <2>3 DEF Disturbs
<1>5. QED
  BY <1>1, <1>2, <1>3, <1>4

\* How a change shows: as an event, as the report of a lost event, or not at all.
Shows(op, p, new) ==
    \/ /\ Parent(p) \in watches \/ (op = "remove" /\ p \in watches)
       /\ queue' = Append(queue, [op |-> op, path |-> p]) /\ faults' = faults
       /\ blind' = blind \ new
       /\ reported' = IF op = "create" THEN reported \cup ({p} \cap Dirs) ELSE reported \ {p}
    \/ /\ Parent(p) \in watches \/ (op = "remove" /\ p \in watches)
       /\ queue' = Append(queue, [op |-> "error", path |-> Root]) /\ faults' = faults + 1
       /\ blind' = blind \ new /\ reported' = reported \ {p}
    \/ /\ queue' = queue /\ faults' = faults /\ Parent(p) \notin watches
       /\ (op = "remove" => p \notin watches)
       /\ blind' = blind \cup new /\ reported' = reported \ {p}

LEMMA ChangeEffect ==
  ASSUME TypeOK, NEW op \in {"create", "write", "remove"}, NEW p \in Paths,
         NEW new \in SUBSET Paths, NEW at \in Nat, Changed(op, p, new, at)
  PROVE  /\ clock' = clock + 1 /\ UNCHANGED picture
         /\ disk' \in [Paths -> Nat]
         /\ disk' = [q \in Paths |-> IF q \in new THEN at ELSE disk[q]]
         /\ Shows(op, p, new)
         /\ watches' = IF op = "remove" THEN watches \ {p} ELSE watches
         /\ replaced' = IF op = "remove" THEN replaced \cup ({p} \cap Dirs) ELSE replaced
<1>1. Change(p, new, at) /\ Report(op, p, new)
  BY DEF Changed
<1>2. clock' = clock + 1 /\ UNCHANGED picture
  BY <1>1 DEF Change
<1>3. disk' = [q \in Paths |-> IF q \in new THEN at ELSE disk[q]]
  BY <1>1 DEF Change
<1>4. disk' \in [Paths -> Nat]
  BY <1>3 DEF TypeOK
<1>5. Shows(op, p, new)
  BY <1>1 DEF Report, Shows
<1>6. /\ watches' = IF op = "remove" THEN watches \ {p} ELSE watches
      /\ replaced' = IF op = "remove" THEN replaced \cup ({p} \cap Dirs) ELSE replaced
  BY DEF Changed
<1>7. QED
  BY <1>2, <1>3, <1>4, <1>5, <1>6

LEMMA ChangeKeepsTypes ==
  ASSUME TypeOK, Disturbs
  PROVE  TypeOK'
<1>1. PICK op \in {"create", "write", "remove"}, p \in Paths, new \in SUBSET Paths, at \in Nat :
        MayChange(op, p, new, at) /\ Changed(op, p, new, at)
  BY DEF Disturbs
<1>2. /\ clock' = clock + 1 /\ UNCHANGED picture /\ disk' \in [Paths -> Nat]
      /\ Shows(op, p, new)
      /\ watches' = IF op = "remove" THEN watches \ {p} ELSE watches
      /\ replaced' = IF op = "remove" THEN replaced \cup ({p} \cap Dirs) ELSE replaced
  BY <1>1, ChangeEffect
<1>3. [op |-> op, path |-> p] \in Events /\ [op |-> "error", path |-> Root] \in Events
  BY DEF Events
<1>4. /\ queue' \in Seq(Events) /\ faults' \in Nat
      /\ blind' \subseteq Paths /\ reported' \subseteq Dirs
  <2>1. queue \in Seq(Events) /\ faults \in Nat /\ blind \subseteq Paths /\ reported \subseteq Dirs
    BY DEF TypeOK
  <2>2. /\ Append(queue, [op |-> op, path |-> p]) \in Seq(Events)
        /\ Append(queue, [op |-> "error", path |-> Root]) \in Seq(Events)
    BY <1>3, <2>1, AppendProperties
  <2>3. /\ \/ queue' = Append(queue, [op |-> op, path |-> p])
           \/ queue' = Append(queue, [op |-> "error", path |-> Root]) \/ queue' = queue
        /\ faults' \in {faults, faults + 1}
    BY <1>2, Zenon DEF Shows
  <2>4. queue' \in Seq(Events)
    BY <2>1, <2>2, <2>3, Zenon
  <2>5. blind' \subseteq Paths /\ reported' \subseteq Dirs
    BY <1>2, <2>1 DEF Shows
  <2>6. QED
    BY <2>1, <2>3, <2>4, <2>5
<1>5. QED
  BY <1>2, <1>4 DEF TypeOK, picture

\* What a reconciliation of ps leaves.
LEMMA ReconcileEffect ==
  ASSUME TypeOK, NEW ps \in SUBSET Paths, Reconcile(ps)
  PROVE  /\ known' \in [Paths -> Nat]
         /\ \A p \in Paths : known'[p] = IF p \in ps THEN disk[p] ELSE known[p]
         /\ \A p \in Paths : p \notin blind' => p \notin blind \/ (p \in ps /\ p \notin Doomed)
         /\ \A p \in blind' : p \in blind /\ (p \in ps => p \in Doomed)
         /\ todo' = {d \in Dirs \cap ps : Exists(d)}
BY DEF Reconcile, Scanned, TypeOK

LEMMA WatcherKeepsTypes ==
  ASSUME TypeOK, Watcher
  PROVE  TypeOK'
<1>0. Paths \in SUBSET Paths /\ \A d \in Dirs : Within(d) \in SUBSET Paths
  BY DEF Within
<1>1. CASE Start
  BY <1>1 DEF Start, TypeOK, history
<1>2. CASE StartupScan
  <2>1. known' \in [Paths -> Nat] /\ blind' \subseteq Paths /\ todo' \subseteq Dirs
    BY <1>0, <1>2, ReconcileEffect DEF StartupScan, TypeOK
  <2>2. QED
    BY <1>2, <2>1 DEF StartupScan, TypeOK, history, platform
<1>3. CASE Rescan
  <2>1. PICK d \in rescan : Reconcile(Within(d))
    BY <1>3 DEF Rescan
  <2>2. Within(d) \in SUBSET Paths
    BY <1>0 DEF TypeOK
  <2>3. known' \in [Paths -> Nat] /\ blind' \subseteq Paths /\ todo' \subseteq Dirs
    BY <2>1, <2>2, ReconcileEffect DEF TypeOK
  <2>4. QED
    BY <1>3, <2>3 DEF Rescan, AfterRescan, TypeOK, history, platform
<1>4. CASE TakeEvent
  <2>1. queue \in Seq(Events) /\ queue # <<>> /\ queue' = Tail(queue) /\ Head(queue).op # "error"
    BY <1>4 DEF TakeEvent, TypeOK
  <2>2. queue' \in Seq(Events) /\ Head(queue) \in Events
    BY <2>1, QueueShrinks
  <2>3. Head(queue).path \in Paths
    BY <2>1, <2>2 DEF Events
  <2>4. /\ known' \in [Paths -> Nat] /\ watched' \subseteq Dirs \cup {Root}
        /\ watches' \subseteq Dirs \cup {Root} /\ todo' \subseteq Dirs
        /\ rescan' \subseteq Dirs /\ blind' \subseteq Paths
    <3>1. CASE Head(queue).op = "remove"
      <4>1. HandleRemove(Head(queue).path)
        BY <1>4, <3>1 DEF TakeEvent
      <4>2. known' \in [Paths -> Nat] /\ blind' = blind /\ todo' = todo /\ rescan' = rescan
        BY <4>1 DEF HandleRemove, TypeOK
      <4>3. watched' \subseteq watched /\ watches' \subseteq watches
        BY <4>1 DEF HandleRemove
      <4>4. QED
        BY <4>2, <4>3 DEF TypeOK
    <3>2. CASE Head(queue).op # "remove"
      <4>1. HandleUpdate(Head(queue).path)
        BY <1>4, <3>2 DEF TakeEvent
      <4>2. QED
        BY <2>3, <4>1 DEF HandleUpdate, TypeOK, Paths
    <3>3. QED
      BY <3>1, <3>2
  <2>5. QED
    BY <1>4, <2>2, <2>4 DEF TakeEvent, TypeOK, history
<1>5. CASE \E d \in Dirs : AddWatch(d)
  BY <1>5 DEF AddWatch, TypeOK, history
<1>6. CASE BecomeReady
  BY <1>6 DEF BecomeReady, TypeOK, history, platform
<1>7. CASE StartupError \/ TakeError
  <2>1. queue \in Seq(Events) /\ queue # <<>> /\ queue' = Tail(queue)
    BY <1>7 DEF StartupError, TakeError, TakeAnError, TypeOK
  <2>2. queue' \in Seq(Events)
    BY <2>1, QueueShrinks
  <2>3. known' \in [Paths -> Nat] /\ blind' \subseteq Paths /\ todo' \subseteq Dirs
    <3>1. CASE StartupError
      BY <1>0, <3>1, ReconcileEffect DEF StartupError, TypeOK
    <3>2. CASE TakeError
      BY <3>2 DEF TakeError, TypeOK
    <3>3. QED
      BY <1>7, <3>1, <3>2
  <2>4. QED
    BY <1>7, <2>2, <2>3 DEF StartupError, TakeError, TypeOK, history
<1>8. CASE TimerFires
  <2>1. known' \in [Paths -> Nat] /\ blind' \subseteq Paths /\ todo' \subseteq Dirs
    BY <1>0, <1>8, ReconcileEffect DEF TimerFires, TypeOK
  <2>2. QED
    BY <1>8, <2>1 DEF TimerFires, TypeOK, history, platform
<1>9. CASE Poll
  BY <1>9 DEF Poll, Scan, TypeOK, history, platform
<1>10. QED
  BY <1>1, <1>2, <1>3, <1>4, <1>5, <1>6, <1>7, <1>8, <1>9 DEF Watcher

LEMMA InitHasTypes ==
  ASSUME Init
  PROVE  TypeOK
<1>1. <<>> \in Seq(Events)
  BY EmptySeq
<1>2. disk \in [Paths -> Nat]
  BY DEF Init
<1>3. known \in [Paths -> Nat]
  BY DEF Init
<1>4. QED
  BY <1>1, <1>2, <1>3 DEF Init, TypeOK

LEMMA StepKeepsTypes ==
  ASSUME TypeOK, [Next]_vars
  PROVE  TypeOK'
<1>1. CASE Watcher
  BY <1>1, WatcherKeepsTypes
<1>2. CASE UNCHANGED vars
  BY <1>2 DEF vars, TypeOK, platform, picture, history
<1>3. CASE Next /\ ~ Watcher
  BY <1>3, FourChanges, ChangeKeepsTypes DEF Next
<1>4. QED
  BY <1>1, <1>2, <1>3

\* Every variable of the watcher keeps its type (src/server/workspace_watcher.go).
THEOREM WatcherTypeCorrect == Spec => []TypeOK
<1>1. Init => TypeOK
  BY InitHasTypes
<1>2. TypeOK /\ [Next]_vars => TypeOK'
  BY StepKeepsTypes
<1>3. QED
  BY <1>1, <1>2, PTL DEF Spec

-----------------------------------------------------------------------------
(* The picture *)

FullScanComing == step \in {"start", "scan"} \/ scheduled \/ ErrorQueued

RescanComing(p) == \E d \in rescan : p \in Within(d)

\* What the picture says of p is right, or something on its way will put it right
\* and nothing later in the queue will undo that.
Explained(p) ==
    /\ disk[p] > 0 =>
        Answered(p) /\ (known[p] = disk[p] \/ FullScanComing \/ RescanComing(p) \/ Fixed(p))
    /\ disk[p] = 0 =>
        known[p] = 0 \/ FullScanComing \/ RescanComing(p) \/ Removed(p)

\* The inductive invariant behind KnownIsCurrent.
PictureInv ==
    /\ TypeOK
    /\ DiskClosed
    /\ \A a, b \in rescan : a = b
    /\ step # "poll" => \A p \in Paths \ blind : Explained(p)

LEMMA SameQueue ==
  ASSUME queue' = queue, NEW q
  PROVE  /\ ErrorQueued' <=> ErrorQueued
         /\ Fixed(q)' <=> Fixed(q)
         /\ Removed(q)' <=> Removed(q)
         /\ Answered(q)' <=> Answered(q)
         /\ (\A j \in DOMAIN queue : ~ Covers(queue[j], q)) => Answered(q)'
BY DEF ErrorQueued, Fixed, Removed, Answered, Covers, Fixes, Within

LEMMA ChangeKeepsDiskClosed ==
  ASSUME TypeOK, DiskClosed, Disturbs
  PROVE  DiskClosed'
<1>1. PICK op \in {"create", "write", "remove"}, p \in Paths, new \in SUBSET Paths, at \in Nat :
        MayChange(op, p, new, at) /\ Changed(op, p, new, at)
  BY DEF Disturbs
<1>2. disk' = [q \in Paths |-> IF q \in new THEN at ELSE disk[q]]
  BY <1>1 DEF Changed, Change
<1>3. \A q \in Paths : disk[q] \in Nat
  BY DEF TypeOK
<1> SUFFICES ASSUME NEW q \in Paths, disk'[q] > 0, Parent(q) # Root
             PROVE  disk'[Parent(q)] > 0
  BY DEF DiskClosed, Exists
<1>4. Parent(q) \in Paths /\ q \in Within(Parent(q)) /\ Parent(q) # q
  BY PathFacts, WithinParent
<1>5. CASE op = "remove"
  <2>1. new = {p} /\ at = 0 /\ \A x \in Within(p) \ {p} : ~ Exists(x)
    BY <1>1, <1>5 DEF MayChange
  <2>2. q # p /\ disk[q] > 0
    BY <1>2, <2>1
  <2>3. Parent(q) # p
    BY <1>4, <2>1, <2>2 DEF Exists
  <2>4. QED
    BY <1>2, <1>4, <2>1, <2>2, <2>3 DEF DiskClosed, Exists
<1>6. CASE op # "remove"
  <2>1. at > 0 /\ p \in new
    BY <1>1, <1>6 DEF MayChange
  <2>2. CASE q \in new
    <3>1. Parent(q) \in new \/ disk[Parent(q)] > 0
      <4>1. CASE op = "create"
        BY <1>1, <1>4, <2>2, <4>1 DEF MayChange, Exists
      <4>2. CASE op = "write"
        BY <1>1, <1>4, <2>2, <4>2 DEF MayChange, DiskClosed, Exists
      <4>3. QED
        BY <1>6, <4>1, <4>2
    <3>2. QED
      BY <1>2, <1>4, <2>1, <3>1
  <2>3. CASE q \notin new
    BY <1>2, <1>4, <2>1, <2>3 DEF DiskClosed, Exists
  <2>4. QED
    BY <2>2, <2>3
<1>7. QED
  BY <1>5, <1>6

LEMMA ChangeExplained ==
  ASSUME PictureInv, Disturbs, step # "poll", NEW q \in Paths, q \notin blind'
  PROVE  Explained(q)'
<1>1. PICK op \in {"create", "write", "remove"}, p \in Paths, new \in SUBSET Paths, at \in Nat :
        MayChange(op, p, new, at) /\ Changed(op, p, new, at)
  BY DEF Disturbs
<1>2. TypeOK /\ \A x \in Paths : disk[x] \in Nat
  BY DEF PictureInv, TypeOK
<1>3. /\ UNCHANGED picture /\ Shows(op, p, new)
      /\ disk' = [x \in Paths |-> IF x \in new THEN at ELSE disk[x]]
  <2>1. disk' = [x \in Paths |-> IF x \in new THEN at ELSE disk[x]]
    BY <1>1 DEF Changed, Change
  <2>2. UNCHANGED picture /\ Shows(op, p, new)
    BY <1>1, <1>2, ChangeEffect
  <2>3. QED
    BY <2>1, <2>2
<1>4. queue \in Seq(Events)
  BY <1>2 DEF TypeOK
<1>5. FullScanComing => FullScanComing' \/ ErrorQueued
  BY <1>3 DEF FullScanComing, picture
<1>6. ErrorQueued' => FullScanComing'
  BY DEF FullScanComing
<1>7. RescanComing(q) => RescanComing(q)'
  BY <1>3 DEF RescanComing, picture, Within
<1>8. known' = known
  BY <1>3 DEF picture
<1>9. q \notin blind => Explained(q)
  BY DEF PictureInv
<1>10. ASSUME queue' = Append(queue, [op |-> op, path |-> p]), blind' = blind \ new
       PROVE  Explained(q)'
  <2> DEFINE e == [op |-> op, path |-> p]
  <2>1. e \in Events /\ e.op = op /\ e.path = p
    BY DEF Events
  <2> HIDE DEF e
  <2>2. queue' = Append(queue, e)
    BY <1>10 DEF e
  <2>3. /\ ErrorQueued => ErrorQueued'
        /\ Fixed(q) \/ Fixes(e, q) => Fixed(q)'
        /\ Removed(q) \/ (op = "remove" /\ p = q) => Removed(q)'
        /\ Answered(q) /\ ~ Covers(e, q) => Answered(q)'
        /\ Fixes(e, q) => Answered(q)'
    BY <1>4, <2>1, <2>2, GrownQueue
  <2>4. CASE q \in new
    <3>1. CASE op = "remove"
      <4>1. q = p /\ disk'[q] = 0
        BY <1>1, <1>3, <2>4, <3>1 DEF MayChange
      <4>2. Removed(q)'
        BY <2>3, <3>1, <4>1
      <4>3. QED
        BY <4>1, <4>2 DEF Explained
    <3>2. CASE op # "remove"
      <4>1. Fixes(e, q) /\ disk'[q] > 0
        BY <1>1, <1>3, <2>1, <2>4, <3>2 DEF MayChange, Fixes
      <4>2. Answered(q)' /\ Fixed(q)'
        BY <2>3, <4>1
      <4>3. QED
        BY <4>1, <4>2 DEF Explained
    <3>3. QED
      BY <3>1, <3>2
  <2>5. CASE q \notin new
    <3>1. disk'[q] = disk[q] /\ q \notin blind
      BY <1>3, <1>10, <2>5
    <3>2. disk[q] > 0 => ~ Covers(e, q)
      <4> SUFFICES ASSUME disk[q] > 0, Covers(e, q) PROVE FALSE
        OBVIOUS
      <4>1. op = "remove" /\ q \in Within(p)
        BY <2>1 DEF Covers
      <4>2. q # p /\ ~ Exists(q)
        BY <1>1, <2>5, <4>1 DEF MayChange
      <4>3. QED
        BY <4>2 DEF Exists
    <3>3. QED
      BY <1>5, <1>6, <1>7, <1>8, <1>9, <2>3, <3>1, <3>2 DEF Explained
  <2>6. QED
    BY <2>4, <2>5
<1>11. ASSUME queue' = Append(queue, [op |-> "error", path |-> Root]) PROVE Explained(q)'
  <2> DEFINE e == [op |-> "error", path |-> Root]
  <2>1. e \in Events /\ e.op = "error"
    BY DEF Events
  <2> HIDE DEF e
  <2>2. queue' = Append(queue, e)
    BY <1>11 DEF e
  <2>3. ErrorQueued' /\ Answered(q)'
    BY <1>4, <2>1, <2>2, GrownQueue
  <2>4. QED
    BY <1>6, <2>3 DEF Explained
<1>12. ASSUME queue' = queue, blind' = blind \cup new PROVE Explained(q)'
  <2>1. q \notin new /\ q \notin blind
    BY <1>12
  <2>2. disk'[q] = disk[q] /\ Explained(q)
    BY <1>3, <1>9, <2>1
  <2>3. /\ ErrorQueued => ErrorQueued'
        /\ Fixed(q) => Fixed(q)'
        /\ Removed(q) => Removed(q)'
        /\ Answered(q) => Answered(q)'
    BY <1>12, SameQueue
  <2>4. QED
    BY <1>5, <1>6, <1>7, <1>8, <2>2, <2>3 DEF Explained
<1>13. QED
  BY <1>3, <1>10, <1>11, <1>12 DEF Shows

\* A scan explains what it looks at, whatever is still in the queue.
LEMMA ReconcileExplains ==
  ASSUME PictureInv, step # "poll", NEW ps \in SUBSET Paths, Reconcile(ps), disk' = disk,
         NEW q \in ps, q \notin blind', Answered(q) => Answered(q)',
         (\A j \in DOMAIN queue : ~ Covers(queue[j], q)) => Answered(q)'
  PROVE  Explained(q)'
<1>1. TypeOK /\ q \in Paths /\ disk[q] \in Nat
  BY DEF PictureInv, TypeOK
<1>2. known'[q] = disk[q] /\ (q \notin blind \/ q \notin Doomed)
  BY <1>1, ReconcileEffect
<1>3. ASSUME disk[q] > 0 PROVE Answered(q)'
  <2>1. CASE q \notin blind
    BY <1>1, <1>3, <2>1 DEF PictureInv, Explained
  <2>2. CASE q \notin Doomed
    BY <2>2 DEF Doomed, Covers
  <2>3. QED
    BY <1>2, <2>1, <2>2
<1>4. QED
  BY <1>1, <1>2, <1>3 DEF Explained

\* Steps that leave alone what explains a path, or add to it.
LEMMA StillExplained ==
  ASSUME NEW q, Explained(q), disk' = disk, known' = known,
         Answered(q) => Answered(q)',
         FullScanComing \/ RescanComing(q) \/ Fixed(q)
            => FullScanComing' \/ RescanComing(q)' \/ Fixed(q)',
         FullScanComing \/ RescanComing(q) \/ Removed(q)
            => FullScanComing' \/ RescanComing(q)' \/ Removed(q)'
  PROVE  Explained(q)'
BY DEF Explained

LEMMA TakeExplained ==
  ASSUME PictureInv, TakeEvent, NEW q \in Paths, q \notin blind'
  PROVE  Explained(q)'
<1> DEFINE e == Head(queue)
<1>1. /\ TypeOK /\ DiskClosed /\ step = "work" /\ rescan = {}
      /\ queue \in Seq(Events) /\ queue # <<>> /\ queue' = Tail(queue) /\ e.op # "error"
      /\ disk' = disk /\ step' = step /\ scheduled' = scheduled
      /\ \A p \in Paths : disk[p] \in Nat
      /\ IF e.op = "remove" THEN HandleRemove(e.path) ELSE HandleUpdate(e.path)
  BY DEF TakeEvent, Idle, PictureInv, TypeOK
<1>2. e \in Events
  BY <1>1, QueueShrinks
<1>3. e.op \in {"create", "write", "remove"} /\ e.path \in Paths
  BY <1>1, <1>2 DEF Events
<1>4. /\ ErrorQueued => ErrorQueued'
      /\ Fixed(q) => Fixed(q)' \/ Fixes(e, q)
      /\ Removed(q) => Removed(q)' \/ (e.op = "remove" /\ e.path = q)
      /\ Answered(q) => Answered(q)'
      /\ Answered(q) /\ Covers(e, q) => ErrorQueued' \/ Fixed(q)'
  BY <1>1, ShrunkQueue
<1> HIDE DEF e
<1>5. (FullScanComing => FullScanComing') /\ (ErrorQueued' => FullScanComing')
  BY <1>1, <1>4 DEF FullScanComing
<1>6. ~ RescanComing(q)
  BY <1>1 DEF RescanComing
<1>7. CASE e.op = "remove"
  <2>1. HandleRemove(e.path)
    BY <1>1, <1>7
  <2>2. q \notin blind /\ Explained(q)
    BY <1>1, <2>1 DEF HandleRemove, PictureInv
  <2>3. known'[q] = IF q \in Within(e.path) /\ known[q] > 0 /\ known[e.path] > 0 THEN 0 ELSE known[q]
    BY <2>1 DEF HandleRemove
  <2>4. known[q] \in Nat
    BY <1>1 DEF TypeOK
  <2>5. CASE disk[q] > 0
    <3>1. ~ Fixes(e, q)
      BY <1>7 DEF Fixes
    <3>2. Answered(q)'
      BY <1>4, <2>2, <2>5 DEF Explained
    <3>3. CASE q \in Within(e.path)
      <4>1. Covers(e, q) /\ Answered(q)
        BY <1>7, <2>2, <2>5, <3>3 DEF Covers, Explained
      <4>2. QED
        BY <1>1, <1>4, <1>5, <2>5, <3>2, <4>1 DEF Explained
    <3>4. CASE q \notin Within(e.path)
      <4>1. known'[q] = known[q]
        BY <2>3, <3>4
      <4>2. QED
        BY <1>1, <1>4, <1>5, <1>6, <2>2, <2>5, <3>1, <3>2, <4>1 DEF Explained
    <3>5. QED
      BY <3>3, <3>4
  <2>6. CASE disk[q] = 0
    <3>1. known[q] = 0 => known'[q] = 0
      BY <2>3, <2>4
    <3>2. e.path = q => known'[q] = 0
      BY <2>3, <2>4, WithinSelf
    <3>3. QED
      BY <1>1, <1>4, <1>5, <1>6, <2>2, <2>6, <3>1, <3>2 DEF Explained
  <2>7. QED
    BY <1>1, <2>5, <2>6
<1>8. CASE e.op # "remove"
  <2>1. HandleUpdate(e.path)
    BY <1>1, <1>8
  <2>2. q \notin blind /\ Explained(q)
    BY <1>1, <2>1 DEF HandleUpdate, PictureInv
  <2>3. disk[q] > 0 => Answered(q)'
    BY <1>4, <2>2 DEF Explained
  <2>4. Removed(q) => Removed(q)'
    BY <1>4, <1>8
  <2>5. CASE ~ Exists(e.path)
    <3>1. known' = known
      BY <2>1, <2>5 DEF HandleUpdate
    <3>2. disk[q] > 0 => q \notin Within(e.path)
      BY <1>1, <1>3, <2>5, AboveExists DEF Exists
    <3>3. disk[q] > 0 => ~ Fixes(e, q)
      BY <3>2 DEF Fixes
    <3>4. QED
      BY <1>1, <1>4, <1>5, <1>6, <2>2, <2>3, <2>4, <3>1, <3>3 DEF Explained
  <2>6. CASE Exists(e.path) /\ e.path \in Files
    <3>1. known' = [known EXCEPT ![e.path] = disk[e.path]]
      BY <2>1, <2>6, WatcherAssumption DEF HandleUpdate
    <3>2. known'[q] = IF q = e.path THEN disk[q] ELSE known[q]
      BY <1>1, <3>1 DEF TypeOK
    <3>3. CASE q = e.path
      BY <1>1, <2>3, <3>2, <3>3 DEF Explained
    <3>4. CASE q # e.path
      <4>1. ~ Fixes(e, q)
        BY <2>6, <3>4, FileAlone DEF Fixes
      <4>2. known'[q] = known[q]
        BY <3>2, <3>4
      <4>3. QED
        BY <1>1, <1>4, <1>5, <1>6, <2>2, <2>3, <2>4, <4>1, <4>2 DEF Explained
    <3>5. QED
      BY <3>3, <3>4
  <2>7. CASE Exists(e.path) /\ e.path \in Dirs
    <3>1. known' = known /\ rescan' = {e.path}
      BY <2>1, <2>7, WatcherAssumption DEF HandleUpdate
    <3>2. Fixes(e, q) => RescanComing(q)'
      BY <3>1 DEF Fixes, RescanComing, Within
    <3>3. QED
      BY <1>1, <1>4, <1>5, <1>6, <2>2, <2>3, <2>4, <3>1, <3>2 DEF Explained
  <2>8. QED
    BY <1>3, <2>5, <2>6, <2>7 DEF Paths
<1>9. QED
  BY <1>7, <1>8

LEMMA WatcherExplains ==
  ASSUME PictureInv, Watcher, step' # "poll", NEW q \in Paths, q \notin blind'
  PROVE  Explained(q)'
<1>0. TypeOK /\ queue \in Seq(Events) /\ disk[q] \in Nat /\ Paths \in SUBSET Paths
  BY DEF PictureInv, TypeOK
<1>1. CASE Start
  <2>1. /\ disk' = disk /\ known' = known /\ queue' = queue /\ step # "poll"
        /\ FullScanComing' /\ q \notin blind
    BY <1>1 DEF Start, FullScanComing
  <2>2. Explained(q)
    BY <2>1 DEF PictureInv
  <2>3. QED
    BY <2>1, <2>2, SameQueue, StillExplained
<1>2. CASE StartupScan \/ TimerFires
  <2>1. disk' = disk /\ queue' = queue /\ step # "poll" /\ Reconcile(Paths)
    BY <1>2 DEF StartupScan, TimerFires, Idle, platform
  <2>2. QED
    BY <1>0, <2>1, SameQueue, ReconcileExplains
<1>3. CASE Rescan
  <2>1. /\ disk' = disk /\ queue' = queue /\ step = "work" /\ rescan' = {}
        /\ step' = step /\ scheduled' = scheduled
    BY <1>3 DEF Rescan, AfterRescan, platform
  <2>2. PICK d \in rescan : Reconcile(Within(d))
    BY <1>3 DEF Rescan
  <2>3. Within(d) \in SUBSET Paths
    BY DEF Within
  <2>4. CASE q \in Within(d)
    BY <2>1, <2>2, <2>3, <2>4, SameQueue, ReconcileExplains
  <2>5. CASE q \notin Within(d)
    <3>1. q \notin blind /\ known'[q] = known[q]
      BY <1>0, <2>2, <2>3, <2>5, ReconcileEffect
    <3>2. Explained(q)
      BY <2>1, <3>1 DEF PictureInv
    <3>3. ~ RescanComing(q)
      BY <2>2, <2>5 DEF PictureInv, RescanComing
    <3>4. FullScanComing => FullScanComing'
      BY <2>1, SameQueue DEF FullScanComing
    <3>5. QED
      BY <2>1, <3>1, <3>2, <3>3, <3>4, SameQueue DEF Explained
  <2>6. QED
    BY <2>4, <2>5
<1>4. CASE TakeEvent
  BY <1>4, TakeExplained
<1>5. CASE (\E d \in Dirs : AddWatch(d)) \/ BecomeReady
  <2>1. /\ disk' = disk /\ known' = known /\ queue' = queue /\ step = "work" /\ step' = step
        /\ scheduled' = scheduled /\ rescan' = rescan /\ blind' = blind
    BY <1>5 DEF AddWatch, BecomeReady, Idle, platform
  <2>2. Explained(q)
    BY <2>1 DEF PictureInv
  <2>3. FullScanComing => FullScanComing'
    BY <2>1, SameQueue DEF FullScanComing
  <2>4. RescanComing(q) => RescanComing(q)'
    BY <2>1 DEF RescanComing, Within
  <2>5. QED
    BY <2>1, <2>2, <2>3, <2>4, SameQueue, StillExplained
<1>6. CASE StartupError \/ TakeError
  <2>1. /\ disk' = disk /\ queue # <<>> /\ queue' = Tail(queue) /\ Head(queue).op = "error"
        /\ step = "work" /\ rescan = {}
    BY <1>6 DEF StartupError, TakeError, TakeAnError, Idle
  <2>2. /\ Fixed(q) => Fixed(q)' \/ Fixes(Head(queue), q)
        /\ Removed(q) => Removed(q)' \/ (Head(queue).op = "remove" /\ Head(queue).path = q)
        /\ Answered(q) => Answered(q)'
    BY <1>0, <2>1, ShrunkQueue
  <2>3. CASE StartupError
    <3>1. Reconcile(Paths)
      BY <2>3 DEF StartupError
    <3>2. (\A j \in DOMAIN queue : ~ Covers(queue[j], q)) => Answered(q)'
      BY <2>2 DEF Answered
    <3>3. QED
      BY <1>0, <2>1, <2>2, <3>1, <3>2, ReconcileExplains
  <2>4. CASE TakeError
    <3>1. known' = known /\ FullScanComing' /\ blind' = blind
      BY <2>4 DEF TakeError, FullScanComing
    <3>2. Explained(q)
      BY <2>1, <3>1 DEF PictureInv
    <3>3. QED
      BY <2>1, <2>2, <3>1, <3>2, StillExplained
  <2>5. QED
    BY <1>6, <2>3, <2>4
<1>7. CASE Poll
  BY <1>7 DEF Poll, Scan, platform
<1>8. QED
  BY <1>1, <1>2, <1>3, <1>4, <1>5, <1>6, <1>7 DEF Watcher

LEMMA InitPicture ==
  ASSUME Init
  PROVE  PictureInv
<1>1. TypeOK
  BY InitHasTypes
<1>2. DiskClosed
  BY DEF Init, DiskClosed
<1>3. rescan = {}
  BY DEF Init
<1>4. ASSUME NEW p \in Paths PROVE Explained(p)
  <2>1. FullScanComing
    BY DEF Init, FullScanComing
  <2>2. Answered(p)
    BY DEF Init, Answered
  <2>3. QED
    BY <2>1, <2>2 DEF Explained
<1>5. QED
  BY <1>1, <1>2, <1>3, <1>4 DEF PictureInv

LEMMA StepKeepsPicture ==
  ASSUME PictureInv, [Next]_vars
  PROVE  PictureInv'
<1>1. TypeOK /\ TypeOK'
  BY StepKeepsTypes DEF PictureInv
<1>2. CASE Watcher
  <2>1. disk' = disk
    BY <1>2 DEF Watcher, Start, StartupScan, Rescan, AfterRescan, TakeEvent, AddWatch, BecomeReady,
                StartupError, TakeError, TimerFires, Poll, Scan
  <2>2. DiskClosed'
    BY <2>1 DEF PictureInv, DiskClosed, Exists
  <2>3. rescan' = rescan \/ rescan' = {} \/ \E x : rescan' = {x}
    BY <1>2 DEF Watcher, Start, StartupScan, Rescan, AfterRescan, TakeEvent, HandleRemove,
                HandleUpdate, AddWatch, BecomeReady, StartupError, TakeError, TimerFires, Poll, Scan
  <2>4. \A a, b \in rescan' : a = b
    BY <2>3 DEF PictureInv
  <2>5. QED
    BY <1>1, <1>2, <2>2, <2>4, WatcherExplains DEF PictureInv, Paths
<1>3. CASE UNCHANGED vars
  <2>1. /\ disk' = disk /\ known' = known /\ queue' = queue /\ step' = step /\ blind' = blind
        /\ scheduled' = scheduled /\ rescan' = rescan
    BY <1>3 DEF vars, platform, picture
  <2>2. DiskClosed'
    BY <2>1 DEF PictureInv, DiskClosed, Exists
  <2>3. \A q : Explained(q) => Explained(q)'
    BY <2>1, SameQueue DEF Explained, FullScanComing, RescanComing, Within
  <2>4. QED
    BY <1>1, <2>1, <2>2, <2>3 DEF PictureInv
<1>4. CASE Next /\ ~ Watcher
  <2>1. Disturbs
    BY <1>1, <1>4, FourChanges DEF Next
  <2>2. DiskClosed'
    BY <2>1, ChangeKeepsDiskClosed DEF PictureInv
  <2>3. rescan' = rescan /\ step' = step
    BY <1>1, <2>1, ChangeEffect DEF Disturbs, picture
  <2>4. QED
    BY <1>1, <2>1, <2>2, <2>3, ChangeExplained DEF PictureInv
<1>5. QED
  BY <1>2, <1>3, <1>4

LEMMA QuietIsCurrent ==
  ASSUME PictureInv
  PROVE  KnownIsCurrent
<1> SUFFICES ASSUME Quiet, NEW p \in Paths, p \notin blind
             PROVE  known[p] = disk[p]
  BY DEF KnownIsCurrent
<1>1. queue = <<>> /\ rescan = {} /\ step = "work" /\ ~ scheduled
  BY DEF Quiet, Idle
<1>2. Explained(p) /\ disk[p] \in Nat
  BY <1>1 DEF PictureInv, TypeOK
<1>3. ~ ErrorQueued /\ ~ Fixed(p) /\ ~ Removed(p)
  BY <1>1 DEF ErrorQueued, Fixed, Removed
<1>4. ~ FullScanComing /\ ~ RescanComing(p)
  BY <1>1, <1>3 DEF FullScanComing, RescanComing
<1>5. QED
  BY <1>2, <1>3, <1>4 DEF Explained

\* Whatever happens in the workspace while the watcher works - changes, stale
\* events, lost events, refused watches - once it has nothing left to do its
\* picture is the workspace, but for what nobody watched
\* (src/server/workspace_watcher.go).
THEOREM PictureIsCurrent == Spec => []KnownIsCurrent
<1>1. Init => PictureInv
  BY InitPicture
<1>2. PictureInv /\ [Next]_vars => PictureInv'
  BY StepKeepsPicture
<1>3. PictureInv => KnownIsCurrent
  BY QuietIsCurrent
<1>4. QED
  BY <1>1, <1>2, <1>3, PTL DEF Spec

-----------------------------------------------------------------------------
(* The watches *)

\* The events that are waiting, in whatever order.
Waiting == {queue[i] : i \in DOMAIN queue}

Creation(d) == [op |-> "create", path |-> d]
Removal(p) == [op |-> "remove", path |-> p]

\* The directory exists or was removed at some time.
Existed(p) == Exists(p) \/ p \in replaced

\* What the events in the queue are about.
WaitingInv ==
    /\ \A e \in Waiting : e.op = "remove" /\ e.path \in Dirs => e.path \in replaced
    /\ \A e \in Waiting : e.op # "error" => Existed(Parent(e.path))
    /\ faults = 0 => ~ scheduled /\ \A e \in Waiting : e.op # "error"

\* What the platform watches and what the watcher believes that it watches.
WatchesInv ==
    /\ watches \subseteq watched
    /\ watched \ replaced \subseteq watches
    /\ \A d \in watches : Exists(d)
    /\ step = "start" => queue = <<>> /\ watches = {}
    /\ step \in {"scan", "work"} => Root \in watches

\* What the watcher is about to do.
TodoInv ==
    /\ \A d \in todo \cup rescan : Existed(Parent(d))
    /\ step \in {"start", "scan"} => todo = {} /\ rescan = {}

WatchInv ==
    /\ WaitingInv
    /\ WatchesInv
    /\ TodoInv
    /\ \A d \in reported : Exists(d)

\* A directory whose creation was reported is watched or will be, after the watches of
\* the directories above it; what changed in it before that will be looked at.
Complete(d) ==
    /\ d \in watches \/ d \in rescan \cap todo \/ Creation(d) \in Waiting
    /\ \A e \in Waiting : e.op # "error" /\ Parent(e.path) = d => d \in watches
    /\ \A p \in watches \ {Root} : Parent(p) = d => d \in watches
    /\ \A p \in rescan : Parent(p) = d => d \in watches
    /\ \A p \in todo : Parent(p) = d => d \in watches \cup todo
    /\ \A p \in blind : Parent(p) = d => d \in rescan \/ Creation(d) \in Waiting

\* In the root and in such directories nothing stays unseen.
CompleteInv ==
    faults = 0 /\ step # "poll" =>
        /\ \A d \in LastingDirs : Complete(d)
        /\ \A p \in blind : Parent(p) = Root => step \in {"start", "scan"}
        /\ \A p \in blind : Parent(p) \in LastingDirs \cup {Root} => Removal(p) \notin Waiting

LEMMA WaitingGrows ==
  ASSUME queue \in Seq(Events), NEW e \in Events, queue' = Append(queue, e)
  PROVE  Waiting' = Waiting \cup {e}
<1>1. /\ \A i \in DOMAIN queue : i \in DOMAIN queue' /\ queue'[i] = queue[i]
      /\ Len(queue) + 1 \in DOMAIN queue' /\ queue'[Len(queue) + 1] = e
      /\ \A i \in DOMAIN queue' : i \in DOMAIN queue \/ i = Len(queue) + 1
  BY QueueGrows
<1>2. QED
  BY <1>1 DEF Waiting

LEMMA WaitingShrinks ==
  ASSUME queue \in Seq(Events), queue # <<>>, queue' = Tail(queue)
  PROVE  Waiting = Waiting' \cup {Head(queue)} /\ Head(queue) \in Events
<1>1. /\ Head(queue) \in Events /\ 1 \in DOMAIN queue /\ Head(queue) = queue[1]
      /\ \A i \in DOMAIN queue' : i + 1 \in DOMAIN queue /\ queue'[i] = queue[i + 1]
      /\ \A i \in DOMAIN queue : \/ i = 1
                                 \/ i - 1 \in DOMAIN queue' /\ queue'[i - 1] = queue[i]
  BY QueueShrinks
<1>2. ASSUME NEW e \in Waiting PROVE e \in Waiting' \cup {Head(queue)}
  <2>1. PICK i \in DOMAIN queue : e = queue[i]
    BY DEF Waiting
  <2>2. i = 1 \/ (i - 1 \in DOMAIN queue' /\ queue'[i - 1] = queue[i])
    BY <1>1
  <2>3. QED
    BY <1>1, <2>1, <2>2 DEF Waiting
<1>3. ASSUME NEW e \in Waiting' PROVE e \in Waiting
  <2>1. PICK i \in DOMAIN queue' : e = queue'[i]
    BY DEF Waiting
  <2>2. i + 1 \in DOMAIN queue /\ queue'[i] = queue[i + 1]
    BY <1>1
  <2>3. QED
    BY <2>1, <2>2 DEF Waiting
<1>4. Head(queue) \in Waiting
  BY <1>1 DEF Waiting
<1>5. QED
  BY <1>1, <1>2, <1>3, <1>4

LEMMA WaitingTypes ==
  ASSUME TypeOK, NEW e \in Waiting
  PROVE  e \in Events /\ (e.op # "error" => e.path \in Paths)
<1>1. PICK i \in DOMAIN queue : e = queue[i]
  BY DEF Waiting
<1>2. queue \in Seq(Events) /\ i \in 1 .. Len(queue)
  BY <1>1, LenProperties DEF TypeOK
<1>3. e \in Events
  BY <1>1, <1>2, ElementOfSeq
<1>4. QED
  BY <1>3 DEF Events

LEMMA ChangeKeepsExisted ==
  ASSUME TypeOK, Disturbs, NEW x \in Dirs \cup {Root}, Existed(x)
  PROVE  Existed(x)'
<1>1. PICK op \in {"create", "write", "remove"}, p \in Paths, new \in SUBSET Paths, at \in Nat :
        MayChange(op, p, new, at) /\ Changed(op, p, new, at)
  BY DEF Disturbs
<1>2. disk' = [q \in Paths |-> IF q \in new THEN at ELSE disk[q]]
  BY <1>1 DEF Changed, Change
<1>3. replaced' = IF op = "remove" THEN replaced \cup ({p} \cap Dirs) ELSE replaced
  BY <1>1 DEF Changed
<1>4. x # Root => x \in Paths
  BY DEF Paths
<1>5. CASE op = "remove"
  BY <1>1, <1>2, <1>3, <1>4, <1>5 DEF MayChange, Existed, Exists
<1>6. CASE op # "remove"
  BY <1>1, <1>2, <1>3, <1>4, <1>6 DEF MayChange, Existed, Exists
<1>7. QED
  BY <1>5, <1>6

LEMMA ChangeKeepsWatches ==
  ASSUME PictureInv, WatchInv, Disturbs
  PROVE  WatchInv'
<1>1. PICK op \in {"create", "write", "remove"}, p \in Paths, new \in SUBSET Paths, at \in Nat :
        MayChange(op, p, new, at) /\ Changed(op, p, new, at)
  BY DEF Disturbs
<1>2. TypeOK /\ DiskClosed /\ queue \in Seq(Events) /\ faults \in Nat
  BY DEF PictureInv, TypeOK
<1>3. disk' = [q \in Paths |-> IF q \in new THEN at ELSE disk[q]]
  BY <1>1 DEF Changed, Change
<1>4. /\ step' = step /\ watched' = watched /\ todo' = todo /\ rescan' = rescan
      /\ scheduled' = scheduled
      /\ Shows(op, p, new)
      /\ watches' = IF op = "remove" THEN watches \ {p} ELSE watches
      /\ replaced' = IF op = "remove" THEN replaced \cup ({p} \cap Dirs) ELSE replaced
  BY <1>1, <1>2, ChangeEffect DEF picture
<1>5. /\ p # Root /\ Parent(p) \in Dirs \cup {Root} /\ Parent(p) # p
      /\ watches \subseteq Dirs \cup {Root} /\ reported \subseteq Dirs
      /\ \A x \in todo \cup rescan : Parent(x) \in Dirs \cup {Root}
  BY <1>2, PathFacts DEF TypeOK, Paths
<1>6. \A x \in Dirs \cup {Root} : Existed(x) => Existed(x)'
  BY <1>2, ChangeKeepsExisted
<1>7. Existed(Parent(p))'
  <2>1. Exists(Parent(p))
    BY <1>1, <1>2 DEF MayChange, DiskClosed
  <2>2. QED
    BY <1>5, <1>6, <2>1 DEF Existed
<1>8. ASSUME NEW e \in Waiting', e.op # "error" PROVE e \in Waiting \/ e = [op |-> op, path |-> p]
  <2>1. [op |-> op, path |-> p] \in Events /\ [op |-> "error", path |-> Root] \in Events
    BY DEF Events
  <2>2. CASE queue' = Append(queue, [op |-> op, path |-> p])
    BY <1>2, <1>8, <2>1, <2>2, WaitingGrows
  <2>3. CASE queue' = Append(queue, [op |-> "error", path |-> Root])
    <3>1. Waiting' = Waiting \cup {[op |-> "error", path |-> Root]}
      BY <1>2, <2>1, <2>3, WaitingGrows
    <3>2. QED
      BY <1>8, <3>1
  <2>4. CASE queue' = queue
    BY <1>8, <2>4 DEF Waiting
  <2>5. QED
    BY <1>4, <2>2, <2>3, <2>4 DEF Shows
<1>9. WaitingInv'
  <2>1. ASSUME NEW e \in Waiting', e.op = "remove", e.path \in Dirs PROVE e.path \in replaced'
    <3>1. CASE e \in Waiting
      BY <1>4, <2>1, <3>1 DEF WatchInv, WaitingInv
    <3>2. CASE e = [op |-> op, path |-> p]
      BY <1>4, <2>1, <3>2
    <3>3. QED
      BY <1>8, <2>1, <3>1, <3>2
  <2>2. ASSUME NEW e \in Waiting', e.op # "error" PROVE Existed(Parent(e.path))'
    <3>1. CASE e \in Waiting
      <4>1. Existed(Parent(e.path)) /\ e.path \in Paths
        BY <1>2, <2>2, <3>1, WaitingTypes DEF WatchInv, WaitingInv
      <4>2. Parent(e.path) \in Dirs \cup {Root}
        BY <4>1, PathFacts
      <4>3. QED
        BY <1>6, <4>1, <4>2
    <3>2. CASE e = [op |-> op, path |-> p]
      BY <1>7, <3>2
    <3>3. QED
      BY <1>8, <2>2, <3>1, <3>2
  <2>3. ASSUME faults' = 0 PROVE ~ scheduled' /\ \A e \in Waiting' : e.op # "error"
    <3>1. faults = 0 /\ queue' \in {queue, Append(queue, [op |-> op, path |-> p])}
      BY <1>2, <1>4, <2>3 DEF Shows
    <3>2. [op |-> op, path |-> p] \in Events
      BY DEF Events
    <3>3. Waiting' = Waiting \/ Waiting' = Waiting \cup {[op |-> op, path |-> p]}
      <4>1. CASE queue' = queue
        BY <4>1 DEF Waiting
      <4>2. CASE queue' = Append(queue, [op |-> op, path |-> p])
        BY <1>2, <3>2, <4>2, WaitingGrows
      <4>3. QED
        BY <3>1, <4>1, <4>2
    <3>4. QED
      BY <1>4, <3>1, <3>3 DEF WatchInv, WaitingInv
  <2>4. QED
    BY <2>1, <2>2, <2>3 DEF WaitingInv, Existed, Exists, Parent
<1>10. WatchesInv'
  <2>1. watches' \subseteq watched' /\ watched' \ replaced' \subseteq watches'
    BY <1>4, <1>5 DEF WatchInv, WatchesInv
  <2>2. \A d \in watches' : Exists(d)'
    <3> SUFFICES ASSUME NEW d \in watches' PROVE Exists(d)'
      OBVIOUS
    <3>1. d \in watches /\ Exists(d) /\ (d # Root => d \in Paths)
      BY <1>4, <1>5 DEF WatchInv, WatchesInv, Paths
    <3>2. op = "remove" => d # p
      BY <1>4
    <3>3. QED
      BY <1>1, <1>3, <3>1, <3>2 DEF MayChange, Exists
  <2>3. step' = "start" => queue' = <<>> /\ watches' = {}
    BY <1>4 DEF WatchInv, WatchesInv, Shows
  <2>4. step' \in {"scan", "work"} => Root \in watches'
    BY <1>4, <1>5 DEF WatchInv, WatchesInv
  <2>5. QED
    BY <2>1, <2>2, <2>3, <2>4 DEF WatchesInv, Exists
<1>11. TodoInv'
  <2>1. \A d \in todo' \cup rescan' : Existed(Parent(d))'
    BY <1>4, <1>5, <1>6 DEF WatchInv, TodoInv
  <2>2. QED
    BY <1>4, <2>1 DEF WatchInv, TodoInv, Existed, Exists, Parent
<1>12. \A d \in reported' : Exists(d)'
  <2> SUFFICES ASSUME NEW d \in reported' PROVE Exists(d)'
    OBVIOUS
  <2>1. CASE d = p
    <3>1. op = "create"
      BY <1>4, <2>1 DEF Shows
    <3>2. QED
      BY <1>1, <1>3, <2>1, <3>1 DEF MayChange, Exists
  <2>2. CASE d # p
    <3>1. d \in reported /\ d \in Paths
      BY <1>4, <1>5, <2>2 DEF Shows, Paths
    <3>2. Exists(d)
      BY <3>1 DEF WatchInv
    <3>3. QED
      BY <1>1, <1>3, <2>2, <3>1, <3>2 DEF MayChange, Exists
  <2>3. QED
    BY <2>1, <2>2
<1>13. QED
  BY <1>9, <1>10, <1>11, <1>12 DEF WatchInv, Exists

\* A directory that lasts exists, and no removal of it or of a directory above it
\* was ever queued.
LEMMA LastingFacts ==
  ASSUME PictureInv, WatchInv, NEW d \in LastingDirs
  PROVE  /\ d \in reported /\ d \in Dirs /\ d \in Paths /\ d # Root
         /\ disk[d] > 0 /\ Exists(d) /\ d \notin replaced
         /\ \A e \in Waiting : ~ Covers(e, d)
<1>1. d \in reported /\ (\A r \in replaced : d \notin Within(r)) /\ d \in Dirs /\ d \in Paths
  BY DEF LastingDirs, PictureInv, TypeOK, Paths
<1>2. d # Root /\ Exists(d) /\ disk[d] > 0
  BY <1>1, PathFacts DEF WatchInv, Exists
<1>3. d \notin replaced
  BY <1>1, WithinSelf
<1>4. ASSUME NEW e \in Waiting, Covers(e, d) PROVE FALSE
  <2>1. e.op = "remove" /\ d \in Within(e.path)
    BY <1>4 DEF Covers
  <2>2. e.path \in Paths
    BY <2>1, WaitingTypes DEF PictureInv
  <2>3. CASE e.path \in Dirs
    BY <1>1, <2>1, <2>3 DEF WatchInv, WaitingInv
  <2>4. CASE e.path \in Files
    BY <1>1, <2>1, <2>4, FileAlone, WatcherAssumption
  <2>5. QED
    BY <2>2, <2>3, <2>4 DEF Paths
<1>5. QED
  BY <1>1, <1>2, <1>3, <1>4

\* What a change says about the directories that last.
LEMMA LastingAfterChange ==
  ASSUME PictureInv, WatchInv, NEW op \in {"create", "write", "remove"}, NEW p \in Paths,
         NEW new \in SUBSET Paths, NEW at \in Nat,
         MayChange(op, p, new, at), Changed(op, p, new, at), faults' = 0,
         NEW d \in LastingDirs'
  PROVE  \/ d \in LastingDirs /\ (op = "remove" => d # p)
         \/ /\ d = p /\ op = "create" /\ d \in Dirs /\ ~ Existed(d)
            /\ queue' = Append(queue, Creation(d)) /\ blind' = blind \ new
<1>1. TypeOK /\ faults \in Nat
  BY DEF PictureInv, TypeOK
<1>2. /\ Shows(op, p, new)
      /\ replaced' = IF op = "remove" THEN replaced \cup ({p} \cap Dirs) ELSE replaced
  BY <1>1, ChangeEffect
<1>3. /\ reported' \in {reported \cup ({p} \cap Dirs), reported \ {p}}
      /\ reported' # reported \ {p} =>
            /\ op = "create" /\ queue' = Append(queue, [op |-> op, path |-> p])
            /\ blind' = blind \ new
  BY <1>1, <1>2 DEF Shows
<1>4. d \in reported' /\ \A r \in replaced' : d \notin Within(r)
  BY DEF LastingDirs, Within
<1>5. replaced \subseteq replaced'
  BY <1>2
<1>6. CASE d \in reported
  <2>1. d \in LastingDirs /\ d \in Dirs
    BY <1>1, <1>4, <1>5, <1>6 DEF LastingDirs, TypeOK
  <2>2. op = "remove" => d # p
    BY <1>2, <1>4, <2>1, WithinSelf
  <2>3. QED
    BY <2>1, <2>2
<1>7. CASE d \notin reported
  <2>1. /\ d = p /\ d \in Dirs /\ op = "create"
        /\ queue' = Append(queue, [op |-> op, path |-> p]) /\ blind' = blind \ new
    BY <1>3, <1>4, <1>7
  <2>2. ~ Exists(d) /\ d \notin replaced
    BY <1>2, <1>4, <2>1, WithinSelf DEF MayChange
  <2>3. QED
    BY <2>1, <2>2 DEF Existed, Creation
<1>8. QED
  BY <1>6, <1>7

\* What is new in the queue after a change.
LEMMA WaitingAfterChange ==
  ASSUME TypeOK, NEW op \in {"create", "write", "remove"}, NEW p \in Paths,
         NEW new \in SUBSET Paths, Shows(op, p, new), faults' = 0
  PROVE  /\ Waiting \subseteq Waiting'
         /\ \/ /\ Parent(p) \in watches \/ (op = "remove" /\ p \in watches)
               /\ Waiting' = Waiting \cup {[op |-> op, path |-> p]}
               /\ blind' = blind \ new
            \/ /\ Waiting' = Waiting
               /\ Parent(p) \notin watches /\ blind' = blind \cup new
<1>1. [op |-> op, path |-> p] \in Events /\ queue \in Seq(Events) /\ faults \in Nat
  BY DEF Events, TypeOK
<1>2. CASE queue' = queue /\ Parent(p) \notin watches /\ blind' = blind \cup new
  BY <1>2 DEF Waiting
<1>3. CASE /\ Parent(p) \in watches \/ (op = "remove" /\ p \in watches)
           /\ queue' = Append(queue, [op |-> op, path |-> p]) /\ blind' = blind \ new
  BY <1>1, <1>3, WaitingGrows
<1>4. QED
  BY <1>1, <1>2, <1>3 DEF Shows

\* A directory that lasts through a change is as complete as before.
LEMMA ChangeKeepsDirComplete ==
  ASSUME PictureInv, WatchInv, CompleteInv, step # "poll",
         NEW op \in {"create", "write", "remove"}, NEW p \in Paths,
         NEW new \in SUBSET Paths, NEW at \in Nat,
         MayChange(op, p, new, at), Changed(op, p, new, at), faults = 0, faults' = 0,
         NEW d \in LastingDirs, op = "remove" => d # p
  PROVE  /\ Complete(d)'
         /\ \A x \in blind' : Parent(x) = d => Removal(x) \notin Waiting'
<1>1. TypeOK /\ DiskClosed /\ Complete(d)
  BY DEF PictureInv, CompleteInv
<1>2. /\ step' = step /\ todo' = todo /\ rescan' = rescan
      /\ Shows(op, p, new)
      /\ watches' = IF op = "remove" THEN watches \ {p} ELSE watches
  BY <1>1, ChangeEffect DEF picture
<1>3. /\ Waiting \subseteq Waiting'
      /\ \/ /\ Parent(p) \in watches \/ (op = "remove" /\ p \in watches)
            /\ Waiting' = Waiting \cup {[op |-> op, path |-> p]}
            /\ blind' = blind \ new
         \/ /\ Waiting' = Waiting
            /\ Parent(p) \notin watches /\ blind' = blind \cup new
  BY <1>1, <1>2, WaitingAfterChange
<1>4. d \in Paths /\ disk[d] > 0 /\ d # Root
  BY LastingFacts
<1>5. p # Root
  BY PathFacts
<1>6. watches' \subseteq watches /\ (d \in watches => d \in watches')
  BY <1>2
\* Nothing arrives below a directory that was there already, but directly in it.
<1>7. ASSUME NEW x \in new, Parent(x) = d PROVE x = p
  <2>1. CASE op = "create"
    <3> SUFFICES ASSUME x # p PROVE FALSE
      OBVIOUS
    <3>1. d \in new /\ new \subseteq Within(p)
      BY <1>7, <2>1 DEF MayChange
    <3>2. disk[p] > 0
      BY <1>1, <1>4, <3>1, AboveExists
    <3>3. QED
      BY <1>5, <2>1, <3>2 DEF MayChange, Exists
  <2>2. CASE op # "create"
    BY <2>2 DEF MayChange
  <2>3. QED
    BY <2>1, <2>2
<1>8. d \in watches' \/ d \in rescan' \cap todo' \/ Creation(d) \in Waiting'
  BY <1>1, <1>2, <1>3, <1>6 DEF Complete
<1>9. ASSUME NEW e \in Waiting', e.op # "error", Parent(e.path) = d PROVE d \in watches'
  <2>1. CASE e \in Waiting
    BY <1>1, <1>6, <1>9, <2>1 DEF Complete
  <2>2. CASE e \notin Waiting
    <3>1. Parent(p) = d /\ (Parent(p) \in watches \/ p \in watches)
      BY <1>3, <1>9, <2>2
    <3>2. p \in watches => d \in watches
      BY <1>1, <1>5, <3>1 DEF Complete
    <3>3. QED
      BY <1>6, <3>1, <3>2
  <2>3. QED
    BY <2>1, <2>2
<1>10. ASSUME NEW x \in blind', Parent(x) = d
       PROVE  d \in rescan' \/ Creation(d) \in Waiting'
  <2>1. CASE x \in blind
    BY <1>1, <1>2, <1>3, <1>10, <2>1 DEF Complete
  <2>2. CASE x \notin blind
    <3>1. x \in new /\ Parent(p) \notin watches
      BY <1>3, <1>10, <2>2
    <3>2. d \notin watches
      BY <1>7, <1>10, <3>1
    <3>3. QED
      BY <1>1, <1>2, <1>3, <3>2 DEF Complete
  <2>3. QED
    BY <2>1, <2>2
<1>11. ASSUME NEW x \in blind', Parent(x) = d, Removal(x) \in Waiting' PROVE FALSE
  <2>0. Removal(x).op = "remove" /\ Removal(x).path = x
    BY DEF Removal
  <2>1. CASE x \in blind
    <3>1. Removal(x) \notin Waiting
      BY <1>11, <2>1 DEF CompleteInv
    <3>2. Removal(x) = [op |-> op, path |-> p] /\ blind' = blind \ new
      BY <1>3, <1>11, <3>1
    <3>3. x = p
      BY <2>0, <3>2
    <3>4. QED
      BY <1>11, <3>2, <3>3 DEF MayChange
  <2>2. CASE x \notin blind
    <3>1. x \in new /\ Parent(p) \notin watches /\ Waiting' = Waiting
      BY <1>3, <1>11, <2>2
    <3>2. d \notin watches
      BY <1>7, <1>11, <3>1
    <3>3. QED
      BY <1>1, <1>11, <2>0, <3>1, <3>2 DEF Complete
  <2>3. QED
    BY <2>1, <2>2
<1>12. /\ \A x \in watches' \ {Root} : Parent(x) = d => d \in watches'
       /\ \A x \in rescan' : Parent(x) = d => d \in watches'
       /\ \A x \in todo' : Parent(x) = d => d \in watches' \cup todo'
  BY <1>1, <1>2, <1>6 DEF Complete
<1>13. QED
  BY <1>8, <1>9, <1>10, <1>11, <1>12 DEF Complete, Parent, Creation

\* A directory whose creation is reported just now.
LEMMA NewDirComplete ==
  ASSUME PictureInv, WatchInv, NEW d \in Dirs, ~ Existed(d),
         queue' = Append(queue, Creation(d)), watches' = watches, rescan' = rescan, todo' = todo
  PROVE  /\ Complete(d)'
         /\ \A x : Parent(x) = d => Removal(x) \notin Waiting'
<1>1. TypeOK /\ DiskClosed /\ queue \in Seq(Events) /\ d \in Paths
  BY DEF PictureInv, TypeOK, Paths
<1>2. Creation(d) \in Events /\ Creation(d).path = d /\ Creation(d).op = "create"
  BY <1>1 DEF Events, Creation
<1>3. Waiting' = Waiting \cup {Creation(d)}
  BY <1>1, <1>2, WaitingGrows
<1>4. Parent(d) # d
  BY <1>1, PathFacts
<1>5. ASSUME NEW e \in Waiting', e.op # "error" PROVE Parent(e.path) # d
  BY <1>2, <1>3, <1>4, <1>5 DEF WatchInv, WaitingInv
<1>6. ASSUME NEW x \in watches \ {Root} PROVE Parent(x) # d
  <2>1. x \in Paths /\ disk[x] > 0
    BY <1>1 DEF WatchInv, WatchesInv, TypeOK, Paths, Exists
  <2>2. Exists(Parent(x))
    BY <1>1, <2>1 DEF DiskClosed
  <2>3. QED
    BY <2>2 DEF Existed
<1>7. \A x \in todo \cup rescan : Parent(x) # d
  BY DEF WatchInv, TodoInv
<1>8. ASSUME NEW x, Parent(x) = d, Removal(x) \in Waiting' PROVE FALSE
  BY <1>5, <1>8 DEF Removal
<1>9. QED
  BY <1>3, <1>5, <1>6, <1>7, <1>8 DEF Complete, Parent, Creation

LEMMA ChangeKeepsComplete ==
  ASSUME PictureInv, WatchInv, CompleteInv, Disturbs
  PROVE  CompleteInv'
<1>1. PICK op \in {"create", "write", "remove"}, p \in Paths, new \in SUBSET Paths, at \in Nat :
        MayChange(op, p, new, at) /\ Changed(op, p, new, at)
  BY DEF Disturbs
<1>2. TypeOK /\ faults \in Nat
  BY DEF PictureInv, TypeOK
<1>3. /\ step' = step /\ todo' = todo /\ rescan' = rescan
      /\ Shows(op, p, new)
      /\ watches' = IF op = "remove" THEN watches \ {p} ELSE watches
  BY <1>1, <1>2, ChangeEffect DEF picture
<1> SUFFICES ASSUME faults' = 0, step # "poll" PROVE CompleteInv'
  BY <1>3 DEF CompleteInv
<1>4. faults = 0
  BY <1>2, <1>3 DEF Shows
<1>5. ASSUME NEW d \in LastingDirs'
      PROVE  /\ Complete(d)'
             /\ \A x \in blind' : Parent(x) = d => Removal(x) \notin Waiting'
  <2>1. CASE d \in LastingDirs /\ (op = "remove" => d # p)
    BY <1>1, <1>4, <2>1, ChangeKeepsDirComplete
  <2>2. CASE /\ d = p /\ op = "create" /\ d \in Dirs /\ ~ Existed(d)
             /\ queue' = Append(queue, Creation(d))
    BY <1>3, <2>2, NewDirComplete
  <2>3. QED
    BY <1>1, <2>1, <2>2, LastingAfterChange
<1>6. /\ Waiting \subseteq Waiting'
      /\ \/ Waiting' = Waiting \cup {[op |-> op, path |-> p]} /\ blind' = blind \ new
         \/ /\ Waiting' = Waiting
            /\ Parent(p) \notin watches /\ blind' = blind \cup new
  BY <1>2, <1>3, WaitingAfterChange
<1>7. ASSUME NEW x \in blind', Parent(x) = Root
      PROVE  step' \in {"start", "scan"} /\ Removal(x) \notin Waiting'
  <2>0. Removal(x).op = "remove" /\ Removal(x).path = x
    BY DEF Removal
  <2>1. CASE x \in blind
    <3>1. step \in {"start", "scan"} /\ Removal(x) \notin Waiting
      BY <1>4, <1>7, <2>1 DEF CompleteInv
    <3>2. Removal(x) \in Waiting' => x = p /\ x \notin new
      BY <1>6, <1>7, <2>0, <3>1
    <3>3. QED
      BY <1>1, <1>3, <3>1, <3>2 DEF MayChange
  <2>2. CASE x \notin blind
    <3>1. x \in new /\ Parent(p) \notin watches /\ Waiting' = Waiting
      BY <1>6, <1>7, <2>2
    <3>2. x = p
      <4>1. x # p => Parent(x) \in Paths
        BY <1>1, <3>1 DEF MayChange
      <4>2. QED
        BY <1>7, <4>1, PathFacts
    <3>3. Root \notin watches
      BY <1>7, <3>1, <3>2
    <3>4. step = "start" /\ queue = <<>>
      BY <1>2, <3>3 DEF WatchInv, WatchesInv, TypeOK
    <3>5. Waiting = {}
      BY <3>4 DEF Waiting
    <3>6. QED
      BY <1>3, <3>1, <3>4, <3>5
  <2>3. QED
    BY <2>1, <2>2
<1>8. /\ \A d \in LastingDirs' : Complete(d)'
      /\ \A x \in blind' : Parent(x) = Root => step' \in {"start", "scan"}
      /\ \A x \in blind' : Parent(x) \in LastingDirs' \cup {Root} => Removal(x) \notin Waiting'
  BY <1>5, <1>7
<1>9. QED
  BY <1>8 DEF CompleteInv, Parent, Removal, Root

-----------------------------------------------------------------------------
(* The steps of the watcher *)

\* None of them touches the workspace.
LEMMA WatcherLeavesWorkspace ==
  ASSUME Watcher
  PROVE  disk' = disk /\ reported' = reported /\ replaced' = replaced
BY DEF Watcher, Start, StartupScan, Rescan, AfterRescan, TakeEvent, AddWatch, BecomeReady,
       StartupError, TakeError, TimerFires, Poll, Scan, history

\* What a reconciliation is about to watch exists, and so do the directories above it.
LEMMA FoundDirs ==
  ASSUME PictureInv, NEW ps \in SUBSET Paths, Reconcile(ps)
  PROVE  /\ \A d \in todo' : d \in Dirs /\ d \in ps /\ Exists(d) /\ Existed(Parent(d))
         /\ \A d \in Dirs \cap ps : Exists(d) => d \in todo'
         /\ blind' \subseteq blind
         /\ \A p \in blind' : p \in ps => p \in Doomed
<1>1. TypeOK
  BY DEF PictureInv
<1>2. todo' = {d \in Dirs \cap ps : Exists(d)} /\ \A p \in blind' : p \in blind /\ (p \in ps => p \in Doomed)
  BY <1>1, ReconcileEffect
<1>3. ASSUME NEW d \in todo' PROVE Existed(Parent(d))
  <2>1. d \in Paths /\ disk[d] > 0
    BY <1>2, PathFacts DEF Exists
  <2>2. QED
    BY <2>1 DEF PictureInv, DiskClosed, Existed
<1>4. QED
  BY <1>2, <1>3

\* The event taken is no longer waiting; the others are.
LEMMA TakenEvent ==
  ASSUME PictureInv, TakeEvent
  PROVE  /\ Head(queue) \in Waiting /\ Waiting = Waiting' \cup {Head(queue)}
         /\ Head(queue).op \in {"create", "write", "remove"} /\ Head(queue).path \in Paths
         /\ step = "work" /\ todo = {} /\ rescan = {} /\ step' = step /\ faults' = faults
         /\ scheduled' = scheduled
<1>1. /\ queue \in Seq(Events) /\ queue # <<>> /\ queue' = Tail(queue) /\ Head(queue).op # "error"
      /\ step = "work" /\ todo = {} /\ rescan = {} /\ step' = step /\ faults' = faults
      /\ scheduled' = scheduled
  BY DEF TakeEvent, Idle, PictureInv, TypeOK
<1>2. Head(queue) \in Events /\ Waiting = Waiting' \cup {Head(queue)}
  BY <1>1, WaitingShrinks
<1>3. Head(queue).op \in {"create", "write", "remove"} /\ Head(queue).path \in Paths
  BY <1>1, <1>2 DEF Events
<1>4. QED
  BY <1>1, <1>2, <1>3

\* A removal takes no watch of a directory that was not removed.
LEMMA RemovalKeepsWatches ==
  ASSUME PictureInv, WatchInv, TakeEvent, Head(queue).op = "remove"
  PROVE  /\ todo' = {} /\ rescan' = {} /\ blind' = blind
         /\ \E gone \in SUBSET Within(Head(queue).path) :
               watched' = watched \ gone /\ watches' = watches \ (watched \cap gone)
         /\ watches' \subseteq watches /\ Root \notin Paths
         /\ \A d \in LastingDirs : d \in watches => d \in watches'
<1> DEFINE e == Head(queue)
<1>1. e \in Waiting /\ todo = {} /\ rescan = {}
  BY TakenEvent
<1>2. HandleRemove(e.path)
  BY DEF TakeEvent
<1>3. Root \notin Paths
  BY PathFacts
<1> HIDE DEF e
<1>4. PICK gone \in SUBSET Within(e.path) :
         watched' = watched \ gone /\ watches' = watches \ (watched \cap gone)
  <2> DEFINE g == IF known[e.path] > 0 THEN {q \in Within(e.path) : known[q] > 0} ELSE {}
  <2>1. g \in SUBSET Within(e.path)
    OBVIOUS
  <2>2. watched' = watched \ g /\ watches' = watches \ (watched \cap g)
    BY <1>2 DEF HandleRemove
  <2>3. QED
    BY <2>1, <2>2
<1>5. ASSUME NEW d \in LastingDirs, d \in watches PROVE d \in watches'
  <2>1. ~ Covers(e, d)
    BY <1>1, LastingFacts
  <2>2. d \notin gone
    BY <1>4, <2>1 DEF Covers, e
  <2>3. QED
    BY <1>4, <1>5, <2>2
<1>6. todo' = {} /\ rescan' = {} /\ blind' = blind
  BY <1>1, <1>2 DEF HandleRemove
<1>7. QED
  BY <1>3, <1>4, <1>5, <1>6 DEF e

\* An update announces a directory to watch and scan, or nothing to do.
LEMMA UpdateEffect ==
  ASSUME TakeEvent, Head(queue).op # "remove", TypeOK, Head(queue).path \in Paths,
         todo = {}, rescan = {}
  PROVE  /\ watches' = watches /\ watched' = watched /\ blind' = blind
         /\ \/ /\ todo' = {} /\ rescan' = {}
               /\ Head(queue).path \notin Dirs \/ ~ Exists(Head(queue).path)
            \/ todo' = {Head(queue).path} /\ rescan' = {Head(queue).path}
               /\ Head(queue).path \in Dirs
<1>1. HandleUpdate(Head(queue).path)
  BY DEF TakeEvent
<1>2. QED
  BY <1>1, WatcherAssumption DEF HandleUpdate

LEMMA WatcherKeepsWaiting ==
  ASSUME PictureInv, WatchInv, Watcher
  PROVE  WaitingInv'
<1>1. disk' = disk /\ replaced' = replaced /\ TypeOK /\ queue \in Seq(Events) /\ faults \in Nat
  BY WatcherLeavesWorkspace DEF PictureInv, TypeOK
<1>2. ASSUME Waiting' \subseteq Waiting, faults' \in Nat,
             faults' = 0 => faults = 0 /\ (scheduled' => scheduled)
      PROVE  WaitingInv'
  BY <1>1, <1>2 DEF WatchInv, WaitingInv, Existed, Exists, Parent
<1>3. CASE \/ Start \/ StartupScan \/ Rescan \/ (\E d \in Dirs : AddWatch(d))
           \/ BecomeReady \/ TimerFires \/ Poll
  <2>1. queue' = queue /\ faults' \in Nat /\ (faults' = 0 => faults = 0) /\ (scheduled' => scheduled)
    BY <1>1, <1>3 DEF Start, StartupScan, Rescan, AfterRescan, AddWatch, BecomeReady,
                      TimerFires, Poll, Scan, platform, TypeOK
  <2>2. Waiting' = Waiting
    BY <2>1 DEF Waiting
  <2>3. QED
    BY <1>2, <2>1, <2>2
<1>4. CASE TakeEvent
  BY <1>1, <1>2, <1>4, TakenEvent
<1>5. CASE StartupError \/ TakeError
  <2>1. queue # <<>> /\ queue' = Tail(queue) /\ Head(queue).op = "error" /\ faults' = faults
    BY <1>5 DEF StartupError, TakeError, TakeAnError
  <2>2. Waiting = Waiting' \cup {Head(queue)}
    BY <1>1, <2>1, WaitingShrinks
  <2>3. faults' # 0
    BY <2>1, <2>2 DEF WatchInv, WaitingInv
  <2>4. QED
    BY <1>1, <1>2, <2>1, <2>2, <2>3
<1>6. QED
  BY <1>3, <1>4, <1>5 DEF Watcher

LEMMA WatcherKeepsWatches ==
  ASSUME PictureInv, WatchInv, Watcher
  PROVE  WatchesInv'
<1>1. disk' = disk /\ replaced' = replaced /\ TypeOK
  BY WatcherLeavesWorkspace DEF PictureInv
<1>2. CASE Start
  <2>1. /\ queue = <<>> /\ watches = {} /\ watched \ replaced \subseteq watches
        /\ queue' = queue
    BY <1>2 DEF Start, WatchInv, WatchesInv
  <2>2. \/ step' = "scan" /\ watches' = {Root} /\ watched' = {Root}
        \/ step' = "poll" /\ watches' = watches /\ watched' = watched
    BY <1>2 DEF Start
  <2>3. \A d \in watches' : Exists(d)'
    BY <2>1, <2>2 DEF Exists
  <2>4. QED
    BY <1>1, <2>1, <2>2, <2>3 DEF WatchInv, WatchesInv
<1>3. CASE TakeEvent
  <2>1. step = "work" /\ step' = step
    BY <1>3, TakenEvent
  <2>2. CASE Head(queue).op = "remove"
    <3>1. Root \notin Paths
      BY <1>3, <2>2, RemovalKeepsWatches
    <3>2. PICK gone \in SUBSET Within(Head(queue).path) :
             watched' = watched \ gone /\ watches' = watches \ (watched \cap gone)
      BY <1>3, <2>2, RemovalKeepsWatches
    <3>3. Root \notin gone
      BY <3>1, <3>2 DEF Within
    <3>4. QED
      BY <1>1, <2>1, <3>2, <3>3 DEF WatchInv, WatchesInv, Exists
  <2>3. CASE Head(queue).op # "remove"
    <3>1. watches' = watches /\ watched' = watched
      BY <1>1, <1>3, <2>3, TakenEvent, UpdateEffect
    <3>2. QED
      BY <1>1, <2>1, <3>1 DEF WatchInv, WatchesInv, Exists
  <2>4. QED
    BY <2>2, <2>3
<1>4. CASE \E d \in Dirs : AddWatch(d)
  <2>1. PICK d \in Dirs : AddWatch(d)
    BY <1>4
  <2>2. /\ step' = step /\ step = "work"
        /\ \/ watches' = watches /\ watched' = watched
           \/ watches' = watches \cup {d} /\ watched' = watched \cup {d} /\ Exists(d)
    BY <2>1 DEF AddWatch
  <2>3. \A x \in watches' : Exists(x)'
    BY <1>1, <2>2 DEF WatchInv, WatchesInv, Exists
  <2>4. watches' \subseteq watched' /\ watched' \ replaced' \subseteq watches' /\ Root \in watches'
    BY <1>1, <2>2 DEF WatchInv, WatchesInv
  <2>5. QED
    BY <2>2, <2>3, <2>4 DEF WatchesInv
<1>5. CASE StartupScan \/ Rescan \/ BecomeReady \/ TimerFires \/ Poll \/ StartupError \/ TakeError
  <2>1. /\ watches' = watches /\ watched' = watched
        /\ step' # "start" /\ (step' \in {"scan", "work"} => step \in {"scan", "work"})
    BY <1>5 DEF StartupScan, Rescan, AfterRescan, BecomeReady, TimerFires, Poll, Scan,
                StartupError, TakeError, TakeAnError, Idle, platform
  <2>2. \A d \in watches : Exists(d)'
    BY <1>1 DEF WatchInv, WatchesInv, Exists
  <2>3. QED
    BY <1>1, <2>1, <2>2 DEF WatchInv, WatchesInv
<1>6. QED
  BY <1>2, <1>3, <1>4, <1>5 DEF Watcher

LEMMA WatcherKeepsTodo ==
  ASSUME PictureInv, WatchInv, Watcher
  PROVE  TodoInv'
<1>1. /\ disk' = disk /\ replaced' = replaced /\ TypeOK /\ Paths \in SUBSET Paths
      /\ \A d \in rescan : Within(d) \in SUBSET Paths
  BY WatcherLeavesWorkspace DEF PictureInv, Within
<1>2. ASSUME step' \notin {"start", "scan"}, \A d \in todo' \cup rescan' : Existed(Parent(d))
      PROVE  TodoInv'
  BY <1>1, <1>2 DEF TodoInv, Existed, Exists, Parent
<1>3. CASE Start
  BY <1>1, <1>3 DEF Start, WatchInv, TodoInv
<1>4. CASE StartupScan \/ StartupError \/ TimerFires
  <2>1. Reconcile(Paths) /\ rescan' = rescan /\ step' = "work"
    BY <1>4 DEF StartupScan, StartupError, TimerFires, TakeAnError, Idle
  <2>2. QED
    BY <1>1, <1>2, <2>1, FoundDirs DEF WatchInv, TodoInv
<1>5. CASE Rescan
  <2>1. PICK d \in rescan : Reconcile(Within(d))
    BY <1>5 DEF Rescan
  <2>2. rescan' = {} /\ step' = "work"
    BY <1>5 DEF Rescan, AfterRescan
  <2>3. QED
    BY <1>1, <1>2, <2>1, <2>2, FoundDirs
<1>6. CASE TakeEvent
  <2>1. /\ step' = "work" /\ todo = {} /\ rescan = {} /\ Head(queue).path \in Paths
        /\ Existed(Parent(Head(queue).path))
    BY <1>6, TakenEvent DEF WatchInv, WaitingInv
  <2>2. CASE Head(queue).op = "remove"
    <3>1. todo' = {} /\ rescan' = {}
      BY <1>6, <2>2, RemovalKeepsWatches
    <3>2. QED
      BY <1>2, <2>1, <3>1
  <2>3. CASE Head(queue).op # "remove"
    <3>1. todo' \cup rescan' \subseteq {Head(queue).path}
      BY <1>1, <1>6, <2>1, <2>3, UpdateEffect
    <3>2. QED
      BY <1>2, <2>1, <3>1
  <2>4. QED
    BY <2>2, <2>3
<1>7. CASE (\E d \in Dirs : AddWatch(d)) \/ BecomeReady \/ TakeError \/ Poll
  <2>1. todo' \subseteq todo /\ rescan' = rescan /\ step' \notin {"start", "scan"}
    BY <1>7 DEF AddWatch, BecomeReady, TakeError, TakeAnError, Poll, Scan, Idle
  <2>2. QED
    BY <1>2, <2>1 DEF WatchInv, TodoInv
<1>8. QED
  BY <1>3, <1>4, <1>5, <1>6, <1>7 DEF Watcher

LEMMA WatcherKeepsWatchInv ==
  ASSUME PictureInv, WatchInv, Watcher
  PROVE  WatchInv'
<1>1. WaitingInv' /\ WatchesInv' /\ TodoInv'
  BY WatcherKeepsWaiting, WatcherKeepsWatches, WatcherKeepsTodo
<1>2. \A d \in reported' : Exists(d)'
  BY WatcherLeavesWorkspace DEF WatchInv, Exists
<1>3. QED
  BY <1>1, <1>2 DEF WatchInv

LEMMA WatcherKeepsComplete ==
  ASSUME PictureInv, WatchInv, CompleteInv, Watcher
  PROVE  CompleteInv'
<1>1. /\ TypeOK /\ DiskClosed /\ LastingDirs' = LastingDirs /\ Paths \in SUBSET Paths
      /\ faults \in Nat
  BY WatcherLeavesWorkspace DEF PictureInv, LastingDirs, Within, TypeOK
<1>2. faults' = 0 => faults = 0
  BY <1>1 DEF Watcher, Start, StartupScan, Rescan, AfterRescan, TakeEvent, AddWatch, BecomeReady,
              StartupError, TakeError, TimerFires, Poll, Scan, platform
\* What has to be shown of a step that loses nothing.
<1>3. ASSUME \A d \in LastingDirs : Complete(d)',
             \A p \in blind' : p \in blind,
             \A p \in blind' : Parent(p) = Root => step' \in {"start", "scan"},
             Waiting' \subseteq Waiting, faults = 0, step # "poll"
      PROVE  CompleteInv'
  <2>1. \A p \in blind' : Parent(p) \in LastingDirs' \cup {Root} => Removal(p) \notin Waiting'
    BY <1>1, <1>3 DEF CompleteInv
  <2>2. QED
    BY <1>1, <1>3, <2>1 DEF CompleteInv, Parent, Removal, Root
<1> SUFFICES ASSUME faults' = 0, step' # "poll" PROVE CompleteInv'
  BY DEF CompleteInv
<1>4. faults = 0 /\ (step # "poll" => \A d \in LastingDirs : Complete(d))
  BY <1>2 DEF CompleteInv
<1>5. CASE Start
  <2>1. /\ step = "start" /\ queue = <<>> /\ queue' = queue /\ blind' = blind
        /\ step' = "scan" /\ watches = {} /\ rescan = {}
    BY <1>5 DEF Start, WatchInv, WatchesInv, TodoInv
  <2>2. Waiting = {} /\ Waiting' = {}
    BY <2>1 DEF Waiting
  <2>3. LastingDirs = {}
    BY <1>4, <2>1, <2>2 DEF Complete
  <2>4. QED
    BY <1>3, <1>4, <2>1, <2>2, <2>3
<1>6. CASE StartupScan
  <2>1. /\ step = "scan" /\ step' = "work" /\ Reconcile(Paths) /\ queue' = queue
        /\ watches' = watches /\ rescan' = rescan /\ rescan = {}
    BY <1>6 DEF StartupScan, platform, WatchInv, TodoInv
  <2>2. Waiting' = Waiting
    BY <2>1 DEF Waiting
  <2>3. blind' \subseteq blind /\ \A p \in blind' : p \in Doomed
    BY <1>1, <2>1, FoundDirs DEF TypeOK
  <2>4. ASSUME NEW d \in LastingDirs PROVE Complete(d)'
    <3>1. d \in todo'
      BY <1>1, <2>1, FoundDirs, LastingFacts
    <3>2. Complete(d)
      BY <1>4, <2>1
    <3>3. QED
      BY <2>1, <2>2, <2>3, <3>1, <3>2 DEF Complete, Parent, Creation
  <2>5. ASSUME NEW p \in blind', Parent(p) = Root PROVE FALSE
    <3>1. p \in blind /\ p \in Paths /\ p \in Doomed
      BY <1>1, <2>3 DEF TypeOK
    <3>2. PICK i \in DOMAIN queue : queue[i].op = "remove" /\ p \in Within(queue[i].path)
      BY <3>1 DEF Doomed
    <3>3. queue[i] \in Waiting /\ queue[i] \in Events /\ queue[i].path \in Paths
      BY <1>1, <3>2, WaitingTypes DEF Waiting
    <3>4. CASE queue[i].path = p
      <4>1. queue[i] = Removal(p)
        BY <3>2, <3>3, <3>4 DEF Events, Removal
      <4>2. QED
        BY <1>4, <2>1, <2>5, <3>1, <3>3, <4>1 DEF CompleteInv
    <3>5. CASE queue[i].path # p
      <4>1. Parent(p) \in Dirs
        BY <3>2, <3>3, <3>5, ParentWithin
      <4>2. QED
        BY <2>5, <4>1, PathFacts DEF Paths
    <3>6. QED
      BY <3>4, <3>5
  <2>6. QED
    BY <1>3, <1>4, <2>1, <2>2, <2>3, <2>4, <2>5
<1>7. CASE Rescan
  <2>1. /\ step = "work" /\ step' = "work" /\ queue' = queue /\ watches' = watches
        /\ rescan' = {} /\ todo = {}
    BY <1>7 DEF Rescan, AfterRescan, platform
  <2>2. PICK a \in rescan : Reconcile(Within(a))
    BY <1>7 DEF Rescan
  <2>3. Waiting' = Waiting /\ a \in Dirs /\ a \in Paths /\ Within(a) \in SUBSET Paths
    BY <1>1, <2>1 DEF Waiting, TypeOK, Within, Paths
  <2>4. /\ \A d \in todo' : d \in Dirs /\ d \in Within(a)
        /\ \A d \in Dirs \cap Within(a) : Exists(d) => d \in todo'
        /\ blind' \subseteq blind /\ \A p \in blind' : p \in Within(a) => p \in Doomed
    BY <2>2, <2>3, FoundDirs
  <2>5. ASSUME NEW d \in LastingDirs PROVE Complete(d)'
    <3>1. Complete(d)
      BY <1>4, <2>1
    <3>2. d \in watches \/ Creation(d) \in Waiting
      BY <2>1, <3>1 DEF Complete
    <3>3. ASSUME NEW x \in todo', Parent(x) = d PROVE d \in watches \cup todo'
      <4>1. CASE x = a
        BY <2>2, <3>1, <3>3, <4>1 DEF Complete
      <4>2. CASE x # a
        <5>1. d \in Within(a)
          BY <2>3, <2>4, <3>3, <4>2, ParentWithin
        <5>2. QED
          BY <2>4, <5>1, LastingFacts
      <4>3. QED
        BY <4>1, <4>2
    <3>4. ASSUME NEW x \in blind', Parent(x) = d PROVE Creation(d) \in Waiting
      <4>1. x \in blind /\ x \in Paths /\ Removal(x) \notin Waiting
        BY <1>1, <1>4, <2>1, <2>4, <3>4 DEF CompleteInv, TypeOK
      <4>2. CASE d \in rescan
        <5>1. d = a /\ d # Root
          BY <2>2, <4>2, LastingFacts DEF PictureInv
        <5>2. x \in Within(a) /\ x \in Doomed
          BY <2>4, <3>4, <4>1, <5>1, WithinParent
        <5>3. PICK i \in DOMAIN queue : queue[i].op = "remove" /\ x \in Within(queue[i].path)
          BY <5>2 DEF Doomed
        <5>4. queue[i] \in Waiting /\ queue[i] \in Events /\ queue[i].path \in Paths
          BY <1>1, <5>3, WaitingTypes DEF Waiting
        <5>5. queue[i].path # x
          BY <4>1, <5>3, <5>4 DEF Events, Removal
        <5>6. d \in Within(queue[i].path)
          BY <3>4, <5>3, <5>4, <5>5, ParentWithin
        <5>7. Covers(queue[i], d)
          BY <5>3, <5>6 DEF Covers
        <5>8. QED
          BY <5>4, <5>7, LastingFacts
      <4>3. CASE d \notin rescan
        BY <3>1, <3>4, <4>1, <4>3 DEF Complete
      <4>4. QED
        BY <4>2, <4>3
    <3>5. QED
      BY <2>1, <2>3, <3>1, <3>2, <3>3, <3>4 DEF Complete, Parent, Creation
  <2>6. \A p \in blind' : Parent(p) # Root
    BY <1>4, <2>1, <2>4 DEF CompleteInv
  <2>7. QED
    BY <1>3, <1>4, <2>1, <2>3, <2>4, <2>5, <2>6
<1>8. CASE TakeEvent
  <2> DEFINE e == Head(queue)
  <2>1. /\ e \in Waiting /\ Waiting = Waiting' \cup {e}
        /\ e.op \in {"create", "write", "remove"} /\ e.path \in Paths
        /\ step = "work" /\ todo = {} /\ rescan = {} /\ step' = step
    BY <1>8, TakenEvent
  <2>2. \A d : Creation(d).op = "create" /\ Creation(d).path = d
    BY DEF Creation
  <2> HIDE DEF e
  <2>3. CASE e.op = "remove"
    <3>1. /\ todo' = {} /\ rescan' = {} /\ blind' = blind /\ watches' \subseteq watches
          /\ \A d \in LastingDirs : d \in watches => d \in watches'
      BY <1>8, <2>3, RemovalKeepsWatches DEF e
    <3>2. ASSUME NEW d \in LastingDirs PROVE Complete(d)'
      <4>1. Complete(d)
        BY <1>4, <2>1
      <4>2. Creation(d) \in Waiting => Creation(d) \in Waiting'
        BY <2>1, <2>2, <2>3
      <4>3. QED
        BY <2>1, <3>1, <4>1, <4>2 DEF Complete, Parent, Creation
    <3>3. QED
      BY <1>3, <1>4, <2>1, <3>1, <3>2 DEF CompleteInv
  <2>4. CASE e.op # "remove"
    <3>1. /\ watches' = watches /\ blind' = blind
          /\ \/ todo' = {} /\ rescan' = {} /\ (e.path \notin Dirs \/ ~ Exists(e.path))
             \/ todo' = {e.path} /\ rescan' = {e.path} /\ e.path \in Dirs
      BY <1>1, <1>8, <2>1, <2>4, UpdateEffect DEF e
    <3>2. ASSUME NEW d \in LastingDirs PROVE Complete(d)'
      <4>1. Complete(d) /\ d \in Dirs /\ Exists(d)
        BY <1>4, <2>1, LastingFacts
      <4>2. Creation(d) \in Waiting => Creation(d) \in Waiting' \/ d \in rescan' \cap todo'
        BY <2>1, <2>2, <3>1, <4>1
      <4>3. \A x \in todo' \cup rescan' : Parent(x) = d => d \in watches
        BY <2>1, <3>1, <4>1 DEF Complete
      <4>4. d \in watches' \/ d \in rescan' \cap todo' \/ Creation(d) \in Waiting'
        BY <2>1, <3>1, <4>1, <4>2 DEF Complete
      <4>5. \A x \in blind' : Parent(x) = d => d \in rescan' \/ Creation(d) \in Waiting'
        BY <2>1, <3>1, <4>1, <4>2 DEF Complete
      <4>6. /\ \A x \in Waiting' : x.op # "error" /\ Parent(x.path) = d => d \in watches'
            /\ \A p \in watches' \ {Root} : Parent(p) = d => d \in watches'
        BY <2>1, <3>1, <4>1 DEF Complete
      <4>7. QED
        BY <3>1, <4>3, <4>4, <4>5, <4>6 DEF Complete, Parent, Creation
    <3>3. QED
      BY <1>3, <1>4, <2>1, <3>1, <3>2 DEF CompleteInv
  <2>5. QED
    BY <2>3, <2>4
<1>9. CASE \E d \in Dirs : AddWatch(d)
  <2>1. PICK a \in Dirs : AddWatch(a)
    BY <1>9
  <2>2. /\ step = "work" /\ step' = step /\ queue' = queue /\ rescan' = rescan /\ blind' = blind
        /\ a \in todo /\ todo' = todo \ {a} /\ \A q \in todo : a \in Within(q) => q = a
        /\ \/ watches' = watches \cup {a}
           \/ watches' = watches /\ (a \in watched \/ ~ Exists(a))
    BY <1>1, <1>4, <2>1 DEF AddWatch
  <2>3. Waiting' = Waiting
    BY <2>2 DEF Waiting
  <2>4. ASSUME NEW d \in LastingDirs PROVE Complete(d)'
    <3>1. Complete(d) /\ d \in Dirs /\ d # Root /\ Exists(d) /\ d \notin replaced
      BY <1>4, <2>2, LastingFacts
    <3>2. d = a => d \in watches'
      BY <2>2, <3>1 DEF WatchInv, WatchesInv
    <3>3. Parent(a) = d => d \in watches
      <4> SUFFICES ASSUME Parent(a) = d, d \in todo PROVE FALSE
        BY <2>2, <3>1 DEF Complete
      <4>1. a \in Paths /\ a \in Within(d) /\ d # a
        BY <3>1, WithinParent, PathFacts DEF Paths
      <4>2. QED
        BY <2>2, <4>1
    <3>4. d \in watches' \/ d \in rescan' \cap todo' \/ Creation(d) \in Waiting'
      BY <2>2, <2>3, <3>1, <3>2 DEF Complete
    <3>5. /\ \A p \in watches' \ {Root} : Parent(p) = d => d \in watches'
          /\ \A p \in rescan' : Parent(p) = d => d \in watches'
          /\ \A p \in todo' : Parent(p) = d => d \in watches' \cup todo'
      BY <2>2, <3>1, <3>2, <3>3 DEF Complete
    <3>6. /\ \A x \in Waiting' : x.op # "error" /\ Parent(x.path) = d => d \in watches'
          /\ \A x \in blind' : Parent(x) = d => d \in rescan' \/ Creation(d) \in Waiting'
      BY <2>2, <2>3, <3>1 DEF Complete
    <3>7. QED
      BY <3>4, <3>5, <3>6 DEF Complete, Parent, Creation
  <2>5. QED
    BY <1>3, <1>4, <2>2, <2>3, <2>4 DEF CompleteInv
<1>10. CASE BecomeReady
  <2>1. /\ step = "work" /\ step' = step /\ queue' = queue /\ rescan' = rescan /\ blind' = blind
        /\ todo' = todo /\ watches' = watches
    BY <1>10 DEF BecomeReady, Idle, platform
  <2>2. Waiting' = Waiting
    BY <2>1 DEF Waiting
  <2>3. \A d \in LastingDirs : Complete(d)'
    BY <1>4, <2>1, <2>2 DEF Complete, Parent, Creation
  <2>4. QED
    BY <1>3, <1>4, <2>1, <2>2, <2>3 DEF CompleteInv
<1>11. CASE StartupError \/ TakeError
  <2>1. queue \in Seq(Events) /\ queue # <<>> /\ queue' = Tail(queue) /\ Head(queue).op = "error"
    BY <1>1, <1>11 DEF StartupError, TakeError, TakeAnError, TypeOK
  <2>2. Head(queue) \in Waiting
    BY <2>1, WaitingShrinks
  <2>3. QED
    BY <1>4, <2>1, <2>2 DEF WatchInv, WaitingInv
<1>12. CASE TimerFires
  BY <1>4, <1>12 DEF TimerFires, WatchInv, WaitingInv
<1>13. CASE Poll
  BY <1>13 DEF Poll, Scan, platform
<1>14. QED
  BY <1>5, <1>6, <1>7, <1>8, <1>9, <1>10, <1>11, <1>12, <1>13 DEF Watcher

-----------------------------------------------------------------------------

ReportInv == PictureInv /\ WatchInv /\ CompleteInv

LEMMA InitReports ==
  ASSUME Init
  PROVE  ReportInv
<1>1. PictureInv
  BY InitPicture
<1>2. Waiting = {} /\ LastingDirs = {}
  BY DEF Init, Waiting, LastingDirs
<1>3. WatchInv
  BY <1>2 DEF Init, WatchInv, WaitingInv, WatchesInv, TodoInv
<1>4. CompleteInv
  BY <1>2 DEF Init, CompleteInv
<1>5. QED
  BY <1>1, <1>3, <1>4 DEF ReportInv

LEMMA StepKeepsReports ==
  ASSUME ReportInv, [Next]_vars
  PROVE  ReportInv'
<1>1. PictureInv'
  BY StepKeepsPicture DEF ReportInv
<1>2. PictureInv /\ WatchInv /\ CompleteInv /\ TypeOK
  BY DEF ReportInv, PictureInv
<1>3. CASE Watcher
  BY <1>1, <1>2, <1>3, WatcherKeepsWatchInv, WatcherKeepsComplete DEF ReportInv
<1>4. CASE UNCHANGED vars
  <2>1. /\ disk' = disk /\ queue' = queue /\ watches' = watches /\ watched' = watched
        /\ step' = step /\ todo' = todo /\ rescan' = rescan /\ scheduled' = scheduled
        /\ faults' = faults /\ blind' = blind /\ reported' = reported /\ replaced' = replaced
    BY <1>4 DEF vars, platform, picture, history
  <2>2. Waiting' = Waiting
    BY <2>1 DEF Waiting
  <2>3. LastingDirs' = LastingDirs
    BY <2>1 DEF LastingDirs, Within
  <2>4. WatchInv'
    BY <1>2, <2>1, <2>2 DEF WatchInv, WaitingInv, WatchesInv, TodoInv, Existed, Exists, Parent
  <2>5. \A d : Complete(d) => Complete(d)'
    BY <2>1, <2>2 DEF Complete, Parent, Creation
  <2>6. CompleteInv'
    BY <1>2, <2>1, <2>2, <2>3, <2>5 DEF CompleteInv, Parent, Removal, Root
  <2>7. QED
    BY <1>1, <2>4, <2>6 DEF ReportInv
<1>5. CASE Next /\ ~ Watcher
  <2>1. Disturbs
    BY <1>2, <1>5, FourChanges DEF Next
  <2>2. QED
    BY <1>1, <1>2, <2>1, ChangeKeepsWatches, ChangeKeepsComplete DEF ReportInv
<1>6. QED
  BY <1>3, <1>4, <1>5

LEMMA QuietIsComplete ==
  ASSUME ReportInv
  PROVE  ReportedDirsAreComplete
<1> SUFFICES ASSUME Quiet, faults = 0, NEW p \in Paths, Parent(p) \in LastingDirs \cup {Root}
             PROVE  known[p] = disk[p]
  BY DEF ReportedDirsAreComplete
<1>1. queue = <<>> /\ rescan = {} /\ step = "work"
  BY DEF Quiet, Idle
<1>2. Waiting = {}
  BY <1>1 DEF Waiting
<1>3. p \notin blind
  BY <1>1, <1>2 DEF ReportInv, CompleteInv, Complete
<1>4. KnownIsCurrent
  BY QuietIsCurrent DEF ReportInv
<1>5. QED
  BY <1>3, <1>4 DEF KnownIsCurrent

\* Unless events were lost or watches refused, nothing is missed in the root, nor in
\* a directory whose creation was reported while neither it nor one above it is ever
\* removed: it is watched after those above it and scanned after that
\* (addWatchPath, reconcileWatchSubtree in src/server/workspace_watcher.go).
THEOREM ReportedDirsMissNothing == Spec => []ReportedDirsAreComplete
<1>1. Init => ReportInv
  BY InitReports
<1>2. ReportInv /\ [Next]_vars => ReportInv'
  BY StepKeepsReports
<1>3. ReportInv => ReportedDirsAreComplete
  BY QuietIsComplete
<1>4. QED
  BY <1>1, <1>2, <1>3, PTL DEF Spec
=============================================================================
