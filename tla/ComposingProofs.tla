--------------------------- MODULE ComposingProofs ---------------------------
(***************************************************************************)
(* What MCComposing states, for any places, panes, versions, threads and      *)
(* lines.  The text a reader types who takes the Cautions is kept, saved once, *)
(* and gone when it was discarded: sessions are a sequence that is filtered,   *)
(* and what the rest needs of it is the text at each place, which are open,    *)
(* and which of these is the first.  The cards of a rendered page follow it,   *)
(* by what may be on its way between page and frame.  The lines of a source    *)
(* and of a diff show their inputs, by which threads are chosen for a line.    *)
(***************************************************************************)
EXTENDS MCComposing, TLAPS, SequenceTheorems, WellFoundedInduction, FiniteSetTheorems

-----------------------------------------------------------------------------
(* Filtering a sequence *)

\* A set of natural numbers that has 0, and with each number the next one, has all of them.
LEMMA SetInduction ==
    ASSUME NEW A, 0 \in A, \A n \in Nat : n \in A => n + 1 \in A
    PROVE  Nat \subseteq A
<1> DEFINE R == OpToRel(<, Nat)
           T == Nat \ A
<1>1. IsWellFoundedOn(R, Nat)
  BY NatLessThanWellFounded DEF OpToRel
<1>2. R = {ss \in Nat \X Nat : ss[1] < ss[2]}
  BY DEF OpToRel
<1> SUFFICES ASSUME T # {} PROVE FALSE
  OBVIOUS
<1> HIDE DEF R, T
<1>3. T \subseteq Nat
  BY DEF T
<1>4. PICK n \in T : \A m \in T : ~ (<<m, n>> \in R)
  BY <1>1, <1>3, WFMin
<1>5. n \in Nat /\ n # 0 /\ n - 1 \in Nat
  BY <1>3 DEF T
<1>6. n - 1 \in A
  <2>1. <<n - 1, n>> \in R
    BY <1>5, <1>2
  <2> QED
    BY <1>4, <2>1, <1>5 DEF T
<1> QED
  BY <1>4, <1>5, <1>6 DEF T

\* The sequence q has, in their order, those of the first n elements of ss that are wanted.
Picks(ss, wanted, n, q) ==
    \E f \in [1..Len(q) -> 1..n] :
        /\ \A i, j \in 1..Len(q) : i < j => f[i] < f[j]
        /\ \A k \in 1..Len(q) : q[k] = ss[f[k]]
        /\ \A i \in 1..n : ss[i] \in wanted <=> \E k \in 1..Len(q) : f[k] = i

LEMMA PicksNext ==
    ASSUME NEW S, NEW ss \in Seq(S), NEW wanted, NEW n \in 0..(Len(ss) - 1), NEW q \in Seq(S),
           Picks(ss, wanted, n, q)
    PROVE  LET r == IF ss[n + 1] \in wanted THEN Append(q, ss[n + 1]) ELSE q
           IN  r \in Seq(S) /\ Picks(ss, wanted, n + 1, r)
<1>1. n \in Nat /\ n + 1 \in 1..Len(ss) /\ ss[n + 1] \in S /\ Len(q) \in Nat
  OBVIOUS
<1>2. PICK f \in [1..Len(q) -> 1..n] :
        /\ \A i, j \in 1..Len(q) : i < j => f[i] < f[j]
        /\ \A k \in 1..Len(q) : q[k] = ss[f[k]]
        /\ \A i \in 1..n : ss[i] \in wanted <=> \E k \in 1..Len(q) : f[k] = i
  BY DEF Picks
<1>3. CASE ss[n + 1] \in wanted
  <2> DEFINE r == Append(q, ss[n + 1])
             g == [k \in 1..(Len(q) + 1) |-> IF k = Len(q) + 1 THEN n + 1 ELSE f[k]]
  <2>1. r \in Seq(S) /\ Len(r) = Len(q) + 1 /\ r[Len(q) + 1] = ss[n + 1]
        /\ \A k \in 1..Len(q) : r[k] = q[k]
    BY <1>1
  <2> HIDE DEF r
  <2>2. \A k \in 1..Len(q) : f[k] \in 1..n
    BY <1>2
  <2>3. g \in [1..Len(r) -> 1..(n + 1)]
    BY <1>1, <2>1, <2>2
  <2>4. \A i, j \in 1..Len(r) : i < j => g[i] < g[j]
    <3> SUFFICES ASSUME NEW i \in 1..Len(r), NEW j \in 1..Len(r), i < j PROVE g[i] < g[j]
      OBVIOUS
    <3>1. i \in 1..Len(q) /\ g[i] = f[i] /\ f[i] \in 1..n
      BY <1>1, <2>1, <2>2
    <3>2. CASE j = Len(q) + 1
      BY <1>1, <2>1, <3>1, <3>2
    <3>3. CASE j # Len(q) + 1
      BY <1>1, <1>2, <2>1, <3>1, <3>3
    <3> QED
      BY <3>2, <3>3
  <2>5. \A k \in 1..Len(r) : r[k] = ss[g[k]]
    BY <1>1, <1>2, <2>1
  <2>6. \A i \in 1..(n + 1) : ss[i] \in wanted <=> \E k \in 1..Len(r) : g[k] = i
    <3> SUFFICES ASSUME NEW i \in 1..(n + 1)
                 PROVE  ss[i] \in wanted <=> \E k \in 1..Len(r) : g[k] = i
      OBVIOUS
    <3>1. CASE i = n + 1
      BY <3>1, <1>1, <1>3, <2>1
    <3>2. CASE i # n + 1
      BY <1>1, <1>2, <2>1, <3>2
    <3> QED
      BY <3>1, <3>2
  <2> HIDE DEF g
  <2>7. Picks(ss, wanted, n + 1, r)
    BY <2>3, <2>4, <2>5, <2>6 DEF Picks
  <2> QED
    BY <1>3, <2>1, <2>7 DEF r
<1>4. CASE ss[n + 1] \notin wanted
  <2>1. f \in [1..Len(q) -> 1..(n + 1)]
    BY <1>1, <1>2
  <2>2. \A k \in 1..Len(q) : f[k] # n + 1
    BY <1>1, <1>2
  <2>3. \A i \in 1..(n + 1) : ss[i] \in wanted <=> \E k \in 1..Len(q) : f[k] = i
    BY <1>1, <1>2, <1>4, <2>2
  <2>4. Picks(ss, wanted, n + 1, q)
    BY <2>1, <2>3, <1>2 DEF Picks
  <2> QED
    BY <1>4, <2>4
<1> QED
  BY <1>3, <1>4

\* Keeping is defined by recursion over the length; both that there is such a function and what
\* it computes are shown by induction.
LEMMA KeepingPicks ==
    ASSUME NEW S, NEW ss \in Seq(S), NEW wanted
    PROVE  Keeping(ss, wanted) \in Seq(S) /\ Picks(ss, wanted, Len(ss), Keeping(ss, wanted))
<1> DEFINE Step(g, m) ==
               IF m = 0 THEN <<>> ELSE IF ss[m] \in wanted THEN Append(g[m - 1], ss[m]) ELSE g[m - 1]
           upTo == CHOOSE g : g = [m \in 0..Len(ss) |-> Step(g, m)]
           A == {n \in Nat : \E g : g = [m \in 0..n |-> Step(g, m)]}
           B == {n \in Nat : n <= Len(ss) => upTo[n] \in Seq(S) /\ Picks(ss, wanted, n, upTo[n])}
<1>0. Len(ss) \in Nat
  OBVIOUS
<1>1. Keeping(ss, wanted) = upTo[Len(ss)]
  BY DEF Keeping
<1>2. 0 \in A
  <2>1. [m \in 0..0 |-> <<>>] = [m \in 0..0 |-> Step([i \in 0..0 |-> <<>>], m)]
    OBVIOUS
  <2> QED
    BY <2>1
<1>3. \A n \in Nat : n \in A => n + 1 \in A
  <2> SUFFICES ASSUME NEW n \in Nat, n \in A PROVE n + 1 \in A
    OBVIOUS
  <2>1. PICK g : g = [m \in 0..n |-> Step(g, m)]
    OBVIOUS
  <2> DEFINE h == [m \in 0..(n + 1) |-> IF m = n + 1 THEN Step(g, m) ELSE g[m]]
  <2>2. \A m \in 0..(n + 1) : h[m] = Step(h, m)
    <3> SUFFICES ASSUME NEW m \in 0..(n + 1) PROVE h[m] = Step(h, m)
      OBVIOUS
    <3>1. m = 0 \/ (m - 1 \in 0..n /\ h[m - 1] = g[m - 1])
      OBVIOUS
    <3>2. Step(h, m) = Step(g, m)
      BY <3>1
    <3>3. m = n + 1 \/ g[m] = Step(g, m)
      <4>1. \A i \in 0..n : g[i] = [k \in 0..n |-> Step(g, k)][i]
        BY <2>1
      <4>2. \A i \in 0..n : g[i] = Step(g, i)
        BY <4>1
      <4> QED
        BY <4>2
    <3> QED
      BY <3>2, <3>3
  <2>3. h = [m \in 0..(n + 1) |-> Step(h, m)]
    BY <2>2
  <2> HIDE DEF h
  <2>4. \E k : k = [m \in 0..(n + 1) |-> Step(k, m)]
    BY <2>3
  <2>5. n + 1 \in Nat
    OBVIOUS
  <2> HIDE DEF Step
  <2> QED
    BY <2>4, <2>5
<1>4. Len(ss) \in A
  BY <1>0, <1>2, <1>3, SetInduction
<1>5. upTo = [m \in 0..Len(ss) |-> Step(upTo, m)]
  BY <1>4
<1> HIDE DEF upTo
<1>6. 0 \in B
  <2>1. upTo[0] = <<>>
    BY <1>0, <1>5
  <2>2. Len(<<>>) = 0 /\ 1..0 = {} /\ [i \in 1..0 |-> 0] \in [1..0 -> 1..0]
    OBVIOUS
  <2>3. Picks(ss, wanted, 0, <<>>)
    BY <2>2 DEF Picks
  <2>4. <<>> \in Seq(S)
    OBVIOUS
  <2> QED
    BY <2>1, <2>3, <2>4
<1>7. \A n \in Nat : n \in B => n + 1 \in B
  <2> SUFFICES ASSUME NEW n \in Nat, n \in B, n + 1 <= Len(ss)
               PROVE  upTo[n + 1] \in Seq(S) /\ Picks(ss, wanted, n + 1, upTo[n + 1])
    OBVIOUS
  <2>1. n \in 0..(Len(ss) - 1) /\ n + 1 \in 0..Len(ss) /\ n + 1 # 0 /\ (n + 1) - 1 = n
    BY <1>0
  <2>2. upTo[n] \in Seq(S) /\ Picks(ss, wanted, n, upTo[n])
    BY <1>0
  <2>3. upTo[n + 1] = Step(upTo, n + 1)
    BY <1>5, <2>1
  <2>4. upTo[n + 1] = IF ss[n + 1] \in wanted THEN Append(upTo[n], ss[n + 1]) ELSE upTo[n]
    BY <2>1, <2>3
  <2> QED
    BY <2>1, <2>2, <2>4, PicksNext
<1>8. Len(ss) \in B
  BY <1>0, <1>6, <1>7, SetInduction
<1> QED
  BY <1>0, <1>1, <1>8

-----------------------------------------------------------------------------
(* Sessions *)

Sessions == [anchor : Anchors, text : SUBSET Nat, hash : Nat, stale : BOOLEAN, collapsed : BOOLEAN]
SessionsOK(ss) == ss \in Seq(Sessions) /\ \A i, j \in DOMAIN ss : ss[i].anchor = ss[j].anchor => i = j
Fresh(ss, hash) == \A i \in DOMAIN ss : ~ss[i].stale => ss[i].hash = hash
Opened(ss) == {ss[i].anchor : i \in {j \in DOMAIN ss : ~ss[j].collapsed}}
Stale(ss) == {ss[i].anchor : i \in {j \in DOMAIN ss : ss[j].stale}}
FirstOpen(ss) == Head(OpenSessions(ss)).anchor

LEMMA AtIs ==
    ASSUME NEW ss, SessionsOK(ss)
    PROVE  /\ \A i \in DOMAIN ss : /\ ss[i] \in Sessions /\ ss[i].anchor \in AnchorsOf(ss)
                                   /\ At(ss, ss[i].anchor) = ss[i] /\ BodyAt(ss, ss[i].anchor) = ss[i].text
           /\ \A a : a \notin AnchorsOf(ss) => BodyAt(ss, a) = {}
<1>1. ASSUME NEW i \in DOMAIN ss
      PROVE  /\ ss[i] \in Sessions /\ ss[i].anchor \in AnchorsOf(ss)
             /\ At(ss, ss[i].anchor) = ss[i] /\ BodyAt(ss, ss[i].anchor) = ss[i].text
  BY DEF SessionsOK, AnchorsOf, ToSet, At, BodyAt
<1> QED
  BY <1>1 DEF BodyAt

LEMMA BodiesAre ==
    ASSUME NEW ss, SessionsOK(ss)
    PROVE  /\ AnchorsOf(ss) \subseteq Anchors /\ Opened(ss) \subseteq AnchorsOf(ss) /\ Stale(ss) \subseteq AnchorsOf(ss)
           /\ \A a \in AnchorsOf(ss) : \E i \in DOMAIN ss : a = ss[i].anchor /\ At(ss, a) = ss[i]
           /\ \A a : BodyAt(ss, a) \in SUBSET Nat /\ (BodyAt(ss, a) # {} => a \in AnchorsOf(ss))
           /\ \A t : t \in Texts(ToSet(ss)) <=> \E a \in Anchors : t \in BodyAt(ss, a)
           /\ \A a : a \in AnchorsOf(ss) /\ At(ss, a).stale <=> a \in Stale(ss)
           /\ \A a : a \in AnchorsOf(ss) /\ ~At(ss, a).collapsed <=> a \in Opened(ss)
<1>1. AnchorsOf(ss) \subseteq Anchors /\ Opened(ss) \subseteq AnchorsOf(ss) /\ Stale(ss) \subseteq AnchorsOf(ss)
  BY AtIs DEF AnchorsOf, Opened, Stale, Sessions
<1>2. \A a \in AnchorsOf(ss) : \E i \in DOMAIN ss : a = ss[i].anchor /\ At(ss, a) = ss[i]
  BY AtIs DEF AnchorsOf
<1>3. \A i \in DOMAIN ss : ss[i].text \in SUBSET Nat
  BY AtIs DEF Sessions
<1>4. \A a : BodyAt(ss, a) \in SUBSET Nat /\ (BodyAt(ss, a) # {} => a \in AnchorsOf(ss))
  BY <1>2, <1>3 DEF BodyAt
<1>5. ASSUME NEW t PROVE t \in Texts(ToSet(ss)) <=> \E a \in Anchors : t \in BodyAt(ss, a)
  BY <1>1, <1>2, <1>4, AtIs DEF Texts, ToSet, BodyAt
<1>6. ASSUME NEW a
      PROVE  /\ a \in AnchorsOf(ss) /\ At(ss, a).stale <=> a \in Stale(ss)
             /\ a \in AnchorsOf(ss) /\ ~At(ss, a).collapsed <=> a \in Opened(ss)
  BY <1>1, <1>2, AtIs DEF Stale, Opened
<1> QED
  BY <1>1, <1>2, <1>4, <1>5, <1>6

\* What is left of the sessions when some are taken out.
LEMMA KeepingIs ==
    ASSUME NEW ss, SessionsOK(ss), NEW wanted, NEW tt, tt = Keeping(ss, wanted)
    PROVE  /\ SessionsOK(tt)
           /\ \A r : r \in ToSet(tt) <=> r \in ToSet(ss) /\ r \in wanted
           /\ tt # <<>> => \E i \in DOMAIN ss : /\ Head(tt) = ss[i] /\ ss[i] \in wanted
                                                /\ \A j \in DOMAIN ss : j < i => ss[j] \notin wanted
           /\ \A hash : Fresh(ss, hash) => Fresh(tt, hash)
<1>1. ss \in Seq(Sessions) /\ DOMAIN ss = 1..Len(ss) /\ Len(ss) \in Nat
  BY DEF SessionsOK
<1>2. tt \in Seq(Sessions) /\ Picks(ss, wanted, Len(ss), tt)
  BY <1>1, KeepingPicks
<1>3. DOMAIN tt = 1..Len(tt) /\ Len(tt) \in Nat
  BY <1>2
<1>4. PICK f \in [1..Len(tt) -> 1..Len(ss)] :
        /\ \A i, j \in 1..Len(tt) : i < j => f[i] < f[j]
        /\ \A k \in 1..Len(tt) : tt[k] = ss[f[k]]
        /\ \A i \in 1..Len(ss) : ss[i] \in wanted <=> \E k \in 1..Len(tt) : f[k] = i
  BY <1>2 DEF Picks
<1>5. \A k \in DOMAIN tt : f[k] \in DOMAIN ss /\ tt[k] = ss[f[k]] /\ ss[f[k]] \in wanted
  BY <1>1, <1>3, <1>4
<1>6. \A i, j \in DOMAIN tt : tt[i].anchor = tt[j].anchor => i = j
  BY <1>1, <1>3, <1>4, <1>5 DEF SessionsOK
<1>7. \A r : r \in ToSet(tt) <=> r \in ToSet(ss) /\ r \in wanted
  BY <1>1, <1>3, <1>4, <1>5 DEF ToSet
<1>8. ASSUME tt # <<>>
      PROVE  \E i \in DOMAIN ss : /\ Head(tt) = ss[i] /\ ss[i] \in wanted
                                  /\ \A j \in DOMAIN ss : j < i => ss[j] \notin wanted
  <2>1. 1 \in DOMAIN tt /\ Head(tt) = tt[1]
    BY <1>2, <1>3, <1>8
  <2>2. \A j \in DOMAIN ss : j < f[1] => ss[j] \notin wanted
    BY <1>1, <1>3, <1>4, <1>5, <2>1
  <2> QED
    BY <1>5, <2>1, <2>2
<1>9. \A hash : Fresh(ss, hash) => Fresh(tt, hash)
  BY <1>5 DEF Fresh
<1> QED
  BY <1>2, <1>6, <1>7, <1>8, <1>9 DEF SessionsOK

LEMMA KeptBodies ==
    ASSUME NEW ss, SessionsOK(ss), NEW wanted, NEW tt, tt = Keeping(ss, wanted)
    PROVE  /\ \A a : a \in AnchorsOf(tt) <=> a \in AnchorsOf(ss) /\ At(ss, a) \in wanted
           /\ \A a \in AnchorsOf(tt) : At(tt, a) = At(ss, a) /\ BodyAt(tt, a) = BodyAt(ss, a)
           /\ \A a : a \in Opened(tt) <=> a \in Opened(ss) /\ At(ss, a) \in wanted
           /\ \A a : a \in Stale(tt) <=> a \in Stale(ss) /\ At(ss, a) \in wanted
<1>1. SessionsOK(tt) /\ \A r : r \in ToSet(tt) <=> r \in ToSet(ss) /\ r \in wanted
  BY KeepingIs
<1>2. \A a : a \in AnchorsOf(ss) <=> \E r \in ToSet(ss) : r.anchor = a
  BY DEF AnchorsOf, ToSet
<1>3. \A a : a \in AnchorsOf(tt) <=> \E r \in ToSet(tt) : r.anchor = a
  BY DEF AnchorsOf, ToSet
<1>4. \A r \in ToSet(ss) : At(ss, r.anchor) = r /\ BodyAt(ss, r.anchor) = r.text
  BY AtIs DEF ToSet
<1>5. \A r \in ToSet(tt) : At(tt, r.anchor) = r /\ BodyAt(tt, r.anchor) = r.text
  BY <1>1, AtIs DEF ToSet
<1>6. \A a : a \in AnchorsOf(tt) <=> a \in AnchorsOf(ss) /\ At(ss, a) \in wanted
  BY <1>1, <1>2, <1>3, <1>4
<1>7. \A a \in AnchorsOf(tt) : At(tt, a) = At(ss, a) /\ BodyAt(tt, a) = BodyAt(ss, a)
  BY <1>1, <1>3, <1>4, <1>5
<1>8. \A a : a \in AnchorsOf(ss) /\ At(ss, a).stale <=> a \in Stale(ss)
  BY BodiesAre
<1>9. \A a : a \in AnchorsOf(ss) /\ ~At(ss, a).collapsed <=> a \in Opened(ss)
  BY BodiesAre
<1>10. \A a : a \in AnchorsOf(tt) /\ At(tt, a).stale <=> a \in Stale(tt)
  BY <1>1, BodiesAre
<1>11. \A a : a \in AnchorsOf(tt) /\ ~At(tt, a).collapsed <=> a \in Opened(tt)
  BY <1>1, BodiesAre
<1>12. \A a : a \in Opened(tt) <=> a \in Opened(ss) /\ At(ss, a) \in wanted
  BY <1>6, <1>7, <1>9, <1>11
<1>13. \A a : a \in Stale(tt) <=> a \in Stale(ss) /\ At(ss, a) \in wanted
  BY <1>6, <1>7, <1>8, <1>10
<1> QED
  BY <1>6, <1>7, <1>12, <1>13

LEMMA OpenIs ==
    ASSUME NEW ss, SessionsOK(ss)
    PROVE  /\ OpenSessions(ss) = <<>> <=> Opened(ss) = {}
           /\ AnchorsOf(OpenSessions(ss)) = Opened(ss)
           /\ OpenSessions(ss) \in Seq(Sessions)
           /\ \A r : r \in ToSet(OpenSessions(ss)) <=> r \in ToSet(ss) /\ ~r.collapsed
           /\ Opened(ss) # {} => \E i \in DOMAIN ss : /\ ~ss[i].collapsed /\ FirstOpen(ss) = ss[i].anchor
                                                       /\ \A j \in DOMAIN ss : j < i => ss[j].collapsed
           /\ Opened(ss) # {} => FirstOpen(ss) \in Opened(ss)
<1> DEFINE W == {session \in ToSet(ss) : ~session.collapsed}
           tt == OpenSessions(ss)
<1>1. tt = Keeping(ss, W)
  BY DEF OpenSessions
<1>2. \A i \in DOMAIN ss : ss[i] \in W <=> ~ss[i].collapsed
  BY DEF ToSet
<1>3. \A r : r \in W <=> r \in ToSet(ss) /\ ~r.collapsed
  OBVIOUS
<1> HIDE DEF W, tt
<1>4. /\ SessionsOK(tt)
      /\ \A r : r \in ToSet(tt) <=> r \in ToSet(ss) /\ r \in W
      /\ tt # <<>> => \E i \in DOMAIN ss : /\ Head(tt) = ss[i] /\ ss[i] \in W
                                           /\ \A j \in DOMAIN ss : j < i => ss[j] \notin W
  BY <1>1, KeepingIs
<1>5. AnchorsOf(tt) = Opened(ss)
  BY <1>3, <1>4 DEF AnchorsOf, ToSet, Opened
<1>6. tt \in Seq(Sessions)
  BY <1>4 DEF SessionsOK
<1>7. tt = <<>> <=> AnchorsOf(tt) = {}
  <2>1. tt = <<>> <=> DOMAIN tt = {}
    BY <1>6
  <2> QED
    BY <2>1 DEF AnchorsOf
<1>8. Opened(ss) # {} => \E i \in DOMAIN ss : /\ ~ss[i].collapsed /\ Head(tt).anchor = ss[i].anchor
                                              /\ \A j \in DOMAIN ss : j < i => ss[j].collapsed
  BY <1>2, <1>4, <1>5, <1>7
<1>9. Opened(ss) # {} => Head(tt).anchor \in Opened(ss)
  BY <1>8 DEF Opened
<1> QED
  BY <1>3, <1>4, <1>5, <1>6, <1>7, <1>8, <1>9 DEF tt, FirstOpen

\* When sessions change one by one, their places and their order stay.
LEMMA ChangedIs ==
    ASSUME NEW ss, SessionsOK(ss), NEW tt \in Seq(Sessions), DOMAIN tt = DOMAIN ss,
           \A i \in DOMAIN ss : tt[i].anchor = ss[i].anchor
    PROVE  /\ SessionsOK(tt) /\ AnchorsOf(tt) = AnchorsOf(ss)
           /\ \A i \in DOMAIN ss : BodyAt(tt, ss[i].anchor) = tt[i].text
           /\ (\A i \in DOMAIN ss : tt[i].text = ss[i].text) => \A a : BodyAt(tt, a) = BodyAt(ss, a)
           /\ (\A i \in DOMAIN ss : tt[i].collapsed = ss[i].collapsed) =>
                 Opened(tt) = Opened(ss) /\ (Opened(ss) # {} => FirstOpen(tt) = FirstOpen(ss))
           /\ (\A i \in DOMAIN ss : tt[i].stale = ss[i].stale) => Stale(tt) = Stale(ss)
<1>1. SessionsOK(tt)
  BY DEF SessionsOK
<1>2. AnchorsOf(tt) = AnchorsOf(ss)
  BY DEF AnchorsOf
<1>3. \A i \in DOMAIN ss : BodyAt(tt, ss[i].anchor) = tt[i].text
  BY <1>1, AtIs
<1>4. ASSUME \A i \in DOMAIN ss : tt[i].text = ss[i].text PROVE \A a : BodyAt(tt, a) = BodyAt(ss, a)
  BY <1>2, <1>3, <1>4, AtIs DEF BodyAt, AnchorsOf
<1>5. ASSUME \A i \in DOMAIN ss : tt[i].collapsed = ss[i].collapsed
      PROVE  Opened(tt) = Opened(ss) /\ (Opened(ss) # {} => FirstOpen(tt) = FirstOpen(ss))
  <2>1. Opened(tt) = Opened(ss)
    BY <1>5 DEF Opened
  <2>2. ASSUME Opened(ss) # {} PROVE FirstOpen(tt) = FirstOpen(ss)
    <3>1. PICK i \in DOMAIN ss : /\ ~ss[i].collapsed /\ FirstOpen(ss) = ss[i].anchor
                                 /\ \A j \in DOMAIN ss : j < i => ss[j].collapsed
      BY <2>2, OpenIs
    <3>2. PICK k \in DOMAIN tt : /\ ~tt[k].collapsed /\ FirstOpen(tt) = tt[k].anchor
                                 /\ \A j \in DOMAIN tt : j < k => tt[j].collapsed
      BY <1>1, <2>1, <2>2, OpenIs
    <3>3. i \in Nat /\ k \in Nat
      BY DEF SessionsOK
    <3>4. ~(i < k) /\ ~(k < i)
      BY <1>5, <3>1, <3>2
    <3>5. i = k
      BY <3>3, <3>4
    <3> QED
      BY <3>1, <3>2, <3>5
  <2> QED
    BY <2>1, <2>2
<1>6. (\A i \in DOMAIN ss : tt[i].stale = ss[i].stale) => Stale(tt) = Stale(ss)
  BY DEF Stale
<1> QED
  BY <1>1, <1>2, <1>3, <1>4, <1>5, <1>6

-----------------------------------------------------------------------------
(* What each operation does to the texts, the places that are open, and their order *)

LEMMA MappedIs ==
    ASSUME NEW ss \in Seq(Sessions), NEW tt, tt = [i \in DOMAIN ss |-> tt[i]],
           \A i \in DOMAIN ss : tt[i] \in Sessions
    PROVE  tt \in Seq(Sessions) /\ DOMAIN tt = DOMAIN ss
  BY SeqDef

LEMMA EnterIs ==
    ASSUME NEW ss, SessionsOK(ss), NEW a \in Anchors, NEW text \in SUBSET Nat, fileHash \in Nat,
           NEW tt, tt = Enter(ss, a, text)
    PROVE  /\ SessionsOK(tt) /\ AnchorsOf(tt) = AnchorsOf(ss) \cup {a}
           /\ BodyAt(tt, a) = text /\ \A b : b # a => BodyAt(tt, b) = BodyAt(ss, b)
           /\ Opened(tt) = Opened(ss) \cup {a} /\ Stale(tt) = Stale(ss)
           /\ Fresh(ss, fileHash) => Fresh(tt, fileHash)
           /\ a \in Opened(ss) => FirstOpen(tt) = FirstOpen(ss)
<1>0. ss \in Seq(Sessions) /\ \A i \in DOMAIN ss : ss[i] \in Sessions
  BY AtIs DEF SessionsOK
<1>1. CASE a \in AnchorsOf(ss)
  <2>1. tt = [i \in DOMAIN ss |-> IF ss[i].anchor = a
                THEN [ss[i] EXCEPT !.text = text, !.collapsed = FALSE, !.hash = IF ss[i].stale THEN @ ELSE fileHash]
                ELSE ss[i]]
    BY <1>1 DEF Enter, Update
  <2>2. /\ tt \in Seq(Sessions) /\ DOMAIN tt = DOMAIN ss
        /\ \A i \in DOMAIN ss : /\ tt[i].anchor = ss[i].anchor /\ tt[i].stale = ss[i].stale
                                /\ tt[i].text = IF ss[i].anchor = a THEN text ELSE ss[i].text
                                /\ tt[i].collapsed = IF ss[i].anchor = a THEN FALSE ELSE ss[i].collapsed
                                /\ ~ss[i].stale => tt[i].hash = IF ss[i].anchor = a THEN fileHash ELSE ss[i].hash
    <3>1. ASSUME NEW i \in DOMAIN ss
          PROVE  /\ tt[i] \in Sessions
                 /\ tt[i].anchor = ss[i].anchor /\ tt[i].stale = ss[i].stale
                 /\ tt[i].text = IF ss[i].anchor = a THEN text ELSE ss[i].text
                 /\ tt[i].collapsed = IF ss[i].anchor = a THEN FALSE ELSE ss[i].collapsed
                 /\ ~ss[i].stale => tt[i].hash = IF ss[i].anchor = a THEN fileHash ELSE ss[i].hash
      <4>1. CASE ss[i].anchor = a
        <5>1. tt[i] = [ss[i] EXCEPT !.text = text, !.collapsed = FALSE,
                                    !.hash = IF ss[i].stale THEN ss[i].hash ELSE fileHash]
          BY <2>1, <4>1
        <5> QED
          BY <1>0, <4>1, <5>1 DEF Sessions
      <4>2. CASE ss[i].anchor # a
        BY <1>0, <2>1, <4>2
      <4> QED
        BY <4>1, <4>2
    <3>2. tt = [i \in DOMAIN ss |-> tt[i]] /\ \A i \in DOMAIN ss : tt[i] \in Sessions
      BY <2>1, <3>1
    <3>3. tt \in Seq(Sessions) /\ DOMAIN tt = DOMAIN ss
      BY <1>0, <3>2, MappedIs
    <3> QED
      BY <3>1, <3>2, <3>3
  <2> HIDE <2>1
  <2>3. /\ SessionsOK(tt) /\ AnchorsOf(tt) = AnchorsOf(ss) /\ Stale(tt) = Stale(ss)
        /\ \A i \in DOMAIN ss : BodyAt(tt, ss[i].anchor) = tt[i].text
        /\ (\A i \in DOMAIN ss : tt[i].collapsed = ss[i].collapsed) =>
              Opened(tt) = Opened(ss) /\ (Opened(ss) # {} => FirstOpen(tt) = FirstOpen(ss))
    BY <2>2, ChangedIs, ZenonT(40)
  <2>4. PICK k \in DOMAIN ss : ss[k].anchor = a
    BY <1>1 DEF AnchorsOf
  <2>5. BodyAt(tt, a) = text
    BY <2>2, <2>3, <2>4
  <2>6. \A b : b # a => BodyAt(tt, b) = BodyAt(ss, b)
    <3> SUFFICES ASSUME NEW b, b # a PROVE BodyAt(tt, b) = BodyAt(ss, b)
      OBVIOUS
    <3>1. CASE b \in AnchorsOf(ss)
      <4>1. PICK i \in DOMAIN ss : ss[i].anchor = b
        BY <3>1 DEF AnchorsOf
      <4>2. BodyAt(tt, b) = tt[i].text /\ BodyAt(ss, b) = ss[i].text
        BY <2>3, <4>1, AtIs
      <4> QED
        BY <2>2, <4>1, <4>2
    <3>2. CASE b \notin AnchorsOf(ss)
      BY <2>3, <3>2 DEF BodyAt
    <3> QED
      BY <3>1, <3>2
  <2>7. Opened(tt) = Opened(ss) \cup {a}
    <3>1. \A b : b \in Opened(tt) <=> \E i \in DOMAIN ss : ~tt[i].collapsed /\ tt[i].anchor = b
      BY <2>2 DEF Opened
    <3>2. \A b : b \in Opened(ss) <=> \E i \in DOMAIN ss : ~ss[i].collapsed /\ ss[i].anchor = b
      BY DEF Opened
    <3>3. \A i \in DOMAIN ss : /\ tt[i].anchor = ss[i].anchor
                               /\ ~tt[i].collapsed <=> ~ss[i].collapsed \/ ss[i].anchor = a
      BY <2>2
    <3>4. \A b : b \in Opened(tt) <=> b \in Opened(ss) \/ b = a
      BY <2>4, <3>1, <3>2, <3>3
    <3> QED
      BY <3>4
  <2>8. Fresh(ss, fileHash) => Fresh(tt, fileHash)
    BY <2>2 DEF Fresh
  <2>9. a \in Opened(ss) => FirstOpen(tt) = FirstOpen(ss)
    <3> SUFFICES ASSUME a \in Opened(ss) PROVE FirstOpen(tt) = FirstOpen(ss)
      OBVIOUS
    <3>1. PICK i \in DOMAIN ss : ss[i].anchor = a /\ ~ss[i].collapsed
      BY DEF Opened
    <3>2. \A j \in DOMAIN ss : ss[j].anchor = a => j = i
      BY <3>1 DEF SessionsOK
    <3>3. \A j \in DOMAIN ss : ss[j].collapsed \in BOOLEAN
      BY <1>0 DEF Sessions
    <3>4. \A j \in DOMAIN ss : tt[j].collapsed = ss[j].collapsed
      BY <2>2, <3>1, <3>2, <3>3
    <3> QED
      BY <2>3, <3>4
  <2>10. AnchorsOf(tt) = AnchorsOf(ss) \cup {a}
    BY <1>1, <2>3
  <2> QED
    BY <2>3, <2>5, <2>6, <2>7, <2>8, <2>9, <2>10
<1>2. CASE a \notin AnchorsOf(ss)
  <2> DEFINE new == [anchor |-> a, text |-> text, hash |-> fileHash, stale |-> FALSE, collapsed |-> FALSE]
  <2>1. tt = Append(ss, new)
    BY <1>2 DEF Enter
  <2>2. /\ new \in Sessions /\ new.anchor = a /\ new.text = text /\ new.hash = fileHash
        /\ new.stale = FALSE /\ new.collapsed = FALSE
    BY DEF Sessions
  <2> HIDE DEF new
  <2>3. /\ tt \in Seq(Sessions) /\ DOMAIN tt = DOMAIN ss \cup {Len(ss) + 1} /\ Len(ss) + 1 \notin DOMAIN ss
        /\ tt[Len(ss) + 1] = new /\ \A i \in DOMAIN ss : tt[i] = ss[i]
    BY <1>0, <2>1, <2>2
  <2>4. \A i \in DOMAIN ss : ss[i].anchor # a
    BY <1>2 DEF AnchorsOf
  <2>5. SessionsOK(tt)
    BY <2>2, <2>3, <2>4 DEF SessionsOK
  <2>6. AnchorsOf(tt) = AnchorsOf(ss) \cup {a}
    BY <2>2, <2>3 DEF AnchorsOf
  <2>7. BodyAt(tt, a) = text
    BY <2>2, <2>3, <2>5, AtIs
  <2>8. \A b : b # a => BodyAt(tt, b) = BodyAt(ss, b)
    <3> SUFFICES ASSUME NEW b, b # a PROVE BodyAt(tt, b) = BodyAt(ss, b)
      OBVIOUS
    <3>1. CASE b \in AnchorsOf(ss)
      BY <2>3, <2>5, <3>1, AtIs DEF AnchorsOf
    <3>2. CASE b \notin AnchorsOf(ss)
      BY <2>6, <3>2 DEF BodyAt
    <3> QED
      BY <3>1, <3>2
  <2>9. Opened(tt) = Opened(ss) \cup {a}
    BY <2>2, <2>3 DEF Opened
  <2>10. Stale(tt) = Stale(ss)
    BY <2>2, <2>3 DEF Stale
  <2>11. Fresh(ss, fileHash) => Fresh(tt, fileHash)
    BY <2>2, <2>3 DEF Fresh
  <2>12. a \notin Opened(ss)
    BY <1>2, BodiesAre
  <2> QED
    BY <2>5, <2>6, <2>7, <2>8, <2>9, <2>10, <2>11, <2>12
<1> QED
  BY <1>1, <1>2

LEMMA CollapseIs ==
    ASSUME NEW ss, SessionsOK(ss), NEW as, NEW tt, tt = Collapse(ss, as)
    PROVE  /\ SessionsOK(tt) /\ AnchorsOf(tt) = AnchorsOf(ss) /\ \A b : BodyAt(tt, b) = BodyAt(ss, b)
           /\ Opened(tt) = Opened(ss) \ as /\ Stale(tt) = Stale(ss)
           /\ \A hash : Fresh(ss, hash) => Fresh(tt, hash)
<1>0. ss \in Seq(Sessions) /\ \A i \in DOMAIN ss : ss[i] \in Sessions
  BY AtIs DEF SessionsOK
<1>1. tt = [i \in DOMAIN ss |-> IF ss[i].anchor \in as THEN [ss[i] EXCEPT !.collapsed = TRUE] ELSE ss[i]]
  BY DEF Collapse, Update
<1>2. ASSUME NEW i \in DOMAIN ss
      PROVE  /\ tt[i] \in Sessions
             /\ tt[i].anchor = ss[i].anchor /\ tt[i].stale = ss[i].stale /\ tt[i].text = ss[i].text
             /\ tt[i].hash = ss[i].hash
             /\ ~tt[i].collapsed <=> ~ss[i].collapsed /\ ss[i].anchor \notin as
  <2>1. CASE ss[i].anchor \in as
    BY <1>0, <1>1, <2>1 DEF Sessions
  <2>2. CASE ss[i].anchor \notin as
    BY <1>0, <1>1, <2>2
  <2> QED
    BY <2>1, <2>2
<1>3. tt = [i \in DOMAIN ss |-> tt[i]] /\ DOMAIN tt = DOMAIN ss
  BY <1>1
<1>4. tt \in Seq(Sessions)
  BY <1>0, <1>2, <1>3, MappedIs
<1>5. /\ SessionsOK(tt) /\ AnchorsOf(tt) = AnchorsOf(ss) /\ \A b : BodyAt(tt, b) = BodyAt(ss, b)
      /\ Stale(tt) = Stale(ss)
  BY <1>2, <1>3, <1>4, ChangedIs, ZenonT(40)
<1>6. Opened(tt) = Opened(ss) \ as
  <2>1. \A a : a \in Opened(tt) <=> \E i \in DOMAIN ss : ~tt[i].collapsed /\ tt[i].anchor = a
    BY <1>3 DEF Opened
  <2>2. \A a : a \in Opened(ss) <=> \E i \in DOMAIN ss : ~ss[i].collapsed /\ ss[i].anchor = a
    BY DEF Opened
  <2>3. \A i \in DOMAIN ss : /\ tt[i].anchor = ss[i].anchor
                             /\ ~tt[i].collapsed <=> ~ss[i].collapsed /\ ss[i].anchor \notin as
    BY <1>2
  <2>4. \A a : a \in Opened(tt) <=> a \in Opened(ss) /\ a \notin as
    <3> SUFFICES ASSUME NEW a PROVE a \in Opened(tt) <=> a \in Opened(ss) /\ a \notin as
      OBVIOUS
    <3>1. ASSUME a \in Opened(tt) PROVE a \in Opened(ss) /\ a \notin as
      <4>1. PICK i \in DOMAIN ss : ~tt[i].collapsed /\ tt[i].anchor = a
        BY <2>1, <3>1
      <4> QED
        BY <2>2, <2>3, <4>1
    <3>2. ASSUME a \in Opened(ss), a \notin as PROVE a \in Opened(tt)
      <4>1. PICK i \in DOMAIN ss : ~ss[i].collapsed /\ ss[i].anchor = a
        BY <2>2, <3>2
      <4> QED
        BY <2>1, <2>3, <3>2, <4>1
    <3> QED
      BY <3>1, <3>2
  <2> QED
    BY <2>4
<1>7. \A hash : Fresh(ss, hash) => Fresh(tt, hash)
  BY <1>2, <1>3 DEF Fresh
<1> QED
  BY <1>5, <1>6, <1>7

LEMMA ExpandIs ==
    ASSUME NEW ss, SessionsOK(ss), NEW a \in AnchorsOf(ss), NEW tt, tt = Expand(ss, a)
    PROVE  /\ SessionsOK(tt) /\ AnchorsOf(tt) = AnchorsOf(ss) /\ \A b : BodyAt(tt, b) = BodyAt(ss, b)
           /\ Opened(tt) = Opened(ss) \cup {a} /\ Stale(tt) = Stale(ss)
           /\ \A hash : Fresh(ss, hash) => Fresh(tt, hash)
<1>0. ss \in Seq(Sessions) /\ \A i \in DOMAIN ss : ss[i] \in Sessions
  BY AtIs DEF SessionsOK
<1>1. tt = [i \in DOMAIN ss |-> IF ss[i].anchor \in {a} THEN [ss[i] EXCEPT !.collapsed = FALSE] ELSE ss[i]]
  BY DEF Expand, Update
<1>2. ASSUME NEW i \in DOMAIN ss
      PROVE  /\ tt[i] \in Sessions
             /\ tt[i].anchor = ss[i].anchor /\ tt[i].stale = ss[i].stale /\ tt[i].text = ss[i].text
             /\ tt[i].hash = ss[i].hash
             /\ ~tt[i].collapsed <=> ~ss[i].collapsed \/ ss[i].anchor = a
  <2>1. CASE ss[i].anchor = a
    BY <1>0, <1>1, <2>1 DEF Sessions
  <2>2. CASE ss[i].anchor # a
    BY <1>0, <1>1, <2>2
  <2> QED
    BY <2>1, <2>2
<1>3. tt = [i \in DOMAIN ss |-> tt[i]] /\ DOMAIN tt = DOMAIN ss
  BY <1>1
<1>4. tt \in Seq(Sessions)
  BY <1>0, <1>2, <1>3, MappedIs
<1>5. /\ SessionsOK(tt) /\ AnchorsOf(tt) = AnchorsOf(ss) /\ \A b : BodyAt(tt, b) = BodyAt(ss, b)
      /\ Stale(tt) = Stale(ss)
  BY <1>2, <1>3, <1>4, ChangedIs, ZenonT(40)
<1>6. Opened(tt) = Opened(ss) \cup {a}
  BY <1>2, <1>3 DEF Opened, AnchorsOf
<1>7. \A hash : Fresh(ss, hash) => Fresh(tt, hash)
  BY <1>2, <1>3 DEF Fresh
<1> QED
  BY <1>5, <1>6, <1>7

LEMMA ReanchorIs ==
    ASSUME NEW ss, SessionsOK(ss), NEW a \in AnchorsOf(ss), fileHash \in Nat, NEW tt, tt = Reanchor(ss, a)
    PROVE  /\ SessionsOK(tt) /\ AnchorsOf(tt) = AnchorsOf(ss) /\ \A b : BodyAt(tt, b) = BodyAt(ss, b)
           /\ Opened(tt) = Opened(ss) \cup {a} /\ Stale(tt) = Stale(ss) \ {a}
           /\ Fresh(ss, fileHash) => Fresh(tt, fileHash)
           /\ a \in Opened(ss) => FirstOpen(tt) = FirstOpen(ss)
<1>0. ss \in Seq(Sessions) /\ \A i \in DOMAIN ss : ss[i] \in Sessions
  BY AtIs DEF SessionsOK
<1>1. tt = [i \in DOMAIN ss |-> IF ss[i].anchor \in {a}
              THEN [ss[i] EXCEPT !.hash = fileHash, !.stale = FALSE, !.collapsed = FALSE] ELSE ss[i]]
  BY DEF Reanchor, Update
<1>2. ASSUME NEW i \in DOMAIN ss
      PROVE  /\ tt[i] \in Sessions
             /\ tt[i].anchor = ss[i].anchor /\ tt[i].text = ss[i].text
             /\ tt[i].hash = IF ss[i].anchor = a THEN fileHash ELSE ss[i].hash
             /\ tt[i].stale <=> ss[i].stale /\ ss[i].anchor # a
             /\ ~tt[i].collapsed <=> ~ss[i].collapsed \/ ss[i].anchor = a
  <2>1. CASE ss[i].anchor = a
    <3>1. tt[i] = [ss[i] EXCEPT !.hash = fileHash, !.stale = FALSE, !.collapsed = FALSE]
      BY <1>1, <2>1
    <3> QED
      BY <1>0, <2>1, <3>1 DEF Sessions
  <2>2. CASE ss[i].anchor # a
    BY <1>0, <1>1, <2>2
  <2> QED
    BY <2>1, <2>2
<1>3. tt = [i \in DOMAIN ss |-> tt[i]] /\ DOMAIN tt = DOMAIN ss
  BY <1>1
<1>4. tt \in Seq(Sessions)
  BY <1>0, <1>2, <1>3, MappedIs
<1>5. /\ SessionsOK(tt) /\ AnchorsOf(tt) = AnchorsOf(ss) /\ \A b : BodyAt(tt, b) = BodyAt(ss, b)
      /\ (\A i \in DOMAIN ss : tt[i].collapsed = ss[i].collapsed) =>
            (Opened(ss) # {} => FirstOpen(tt) = FirstOpen(ss))
  BY <1>2, <1>3, <1>4, ChangedIs, ZenonT(40)
<1>6. Opened(tt) = Opened(ss) \cup {a}
  BY <1>2, <1>3 DEF Opened, AnchorsOf
<1>7. Stale(tt) = Stale(ss) \ {a}
  BY <1>2, <1>3 DEF Stale
<1>8. Fresh(ss, fileHash) => Fresh(tt, fileHash)
  BY <1>2, <1>3 DEF Fresh
<1>9. a \in Opened(ss) => FirstOpen(tt) = FirstOpen(ss)
  BY <1>0, <1>2, <1>5 DEF Opened, SessionsOK, Sessions
<1> QED
  BY <1>5, <1>6, <1>7, <1>8, <1>9

LEMMA MarkIs ==
    ASSUME NEW ss, SessionsOK(ss), NEW hash \in Nat, NEW tt, tt = MarkPathVersion(ss, hash)
    PROVE  /\ SessionsOK(tt) /\ AnchorsOf(tt) = AnchorsOf(ss) /\ \A b : BodyAt(tt, b) = BodyAt(ss, b)
           /\ Opened(tt) = Opened(ss) /\ (Opened(ss) # {} => FirstOpen(tt) = FirstOpen(ss))
           /\ Fresh(tt, hash) /\ Stale(ss) \subseteq Stale(tt)
           /\ \A old : Fresh(ss, old) /\ old # hash => Stale(tt) = AnchorsOf(ss)
<1>0. ss \in Seq(Sessions) /\ \A i \in DOMAIN ss : ss[i] \in Sessions
  BY AtIs DEF SessionsOK
<1>1. tt = [i \in DOMAIN ss |-> [ss[i] EXCEPT !.stale = @ \/ ss[i].hash # hash]]
  BY DEF MarkPathVersion
<1>2. ASSUME NEW i \in DOMAIN ss
      PROVE  /\ tt[i] \in Sessions
             /\ tt[i].anchor = ss[i].anchor /\ tt[i].text = ss[i].text /\ tt[i].hash = ss[i].hash
             /\ tt[i].collapsed = ss[i].collapsed
             /\ tt[i].stale <=> ss[i].stale \/ ss[i].hash # hash
  <2> DEFINE flag == ss[i].stale \/ ss[i].hash # hash
  <2>1. tt[i] = [ss[i] EXCEPT !.stale = flag]
    BY <1>1
  <2>2. flag \in BOOLEAN /\ (flag <=> ss[i].stale \/ ss[i].hash # hash)
    BY <1>0 DEF Sessions
  <2> HIDE DEF flag
  <2> QED
    BY <1>0, <2>1, <2>2 DEF Sessions
<1>3. tt = [i \in DOMAIN ss |-> tt[i]] /\ DOMAIN tt = DOMAIN ss
  BY <1>1
<1>4. tt \in Seq(Sessions)
  BY <1>0, <1>2, <1>3, MappedIs
<1>5. /\ SessionsOK(tt) /\ AnchorsOf(tt) = AnchorsOf(ss) /\ \A b : BodyAt(tt, b) = BodyAt(ss, b)
      /\ Opened(tt) = Opened(ss) /\ (Opened(ss) # {} => FirstOpen(tt) = FirstOpen(ss))
  BY <1>2, <1>3, <1>4, ChangedIs, ZenonT(40)
<1>6. Fresh(tt, hash)
  BY <1>2, <1>3 DEF Fresh
<1>7. \A b : b \in Stale(tt) <=> \E i \in DOMAIN ss : tt[i].stale /\ tt[i].anchor = b
  BY <1>3 DEF Stale
<1>8. \A b : b \in Stale(ss) <=> \E i \in DOMAIN ss : ss[i].stale /\ ss[i].anchor = b
  BY DEF Stale
<1>9. \A b : b \in AnchorsOf(ss) <=> \E i \in DOMAIN ss : ss[i].anchor = b
  BY DEF AnchorsOf
<1>10. Stale(ss) \subseteq Stale(tt)
  BY <1>2, <1>7, <1>8
<1>11. \A old : Fresh(ss, old) /\ old # hash => Stale(tt) = AnchorsOf(ss)
  <2> SUFFICES ASSUME NEW old, Fresh(ss, old), old # hash PROVE Stale(tt) = AnchorsOf(ss)
    OBVIOUS
  <2>1. \A i \in DOMAIN ss : tt[i].stale
    BY <1>2 DEF Fresh
  <2> QED
    <3>1. \A b : b \in Stale(tt) <=> b \in AnchorsOf(ss)
      BY <1>2, <1>7, <1>9, <2>1
    <3> QED
      BY <3>1
<1> QED
  BY <1>5, <1>6, <1>10, <1>11

LEMMA DiscardIs ==
    ASSUME NEW ss, SessionsOK(ss), NEW a, NEW tt, tt = Discard(ss, a)
    PROVE  /\ SessionsOK(tt) /\ AnchorsOf(tt) = AnchorsOf(ss) \ {a}
           /\ BodyAt(tt, a) = {} /\ \A b : b # a => BodyAt(tt, b) = BodyAt(ss, b)
           /\ Opened(tt) = Opened(ss) \ {a} /\ Stale(tt) = Stale(ss) \ {a}
           /\ \A hash : Fresh(ss, hash) => Fresh(tt, hash)
<1> DEFINE W == {session \in ToSet(ss) : session.anchor # a}
<1>1. tt = Keeping(ss, W)
  BY DEF Discard
<1>2. \A b \in AnchorsOf(ss) : At(ss, b) \in W <=> b # a
  BY BodiesAre DEF ToSet
<1>3. Opened(ss) \subseteq AnchorsOf(ss) /\ Stale(ss) \subseteq AnchorsOf(ss)
  BY BodiesAre
<1> HIDE DEF W
<1>4. SessionsOK(tt) /\ \A hash : Fresh(ss, hash) => Fresh(tt, hash)
  BY <1>1, KeepingIs
<1>5. /\ \A b : b \in AnchorsOf(tt) <=> b \in AnchorsOf(ss) /\ At(ss, b) \in W
      /\ \A b \in AnchorsOf(tt) : BodyAt(tt, b) = BodyAt(ss, b)
      /\ \A b : b \in Opened(tt) <=> b \in Opened(ss) /\ At(ss, b) \in W
      /\ \A b : b \in Stale(tt) <=> b \in Stale(ss) /\ At(ss, b) \in W
  BY <1>1, KeptBodies
<1>6. AnchorsOf(tt) = AnchorsOf(ss) \ {a}
  BY <1>2, <1>5
<1>7. Opened(tt) = Opened(ss) \ {a} /\ Stale(tt) = Stale(ss) \ {a}
  BY <1>2, <1>3, <1>5
<1>8. BodyAt(tt, a) = {} /\ \A b : b # a => BodyAt(tt, b) = BodyAt(ss, b)
  BY <1>5, <1>6 DEF BodyAt
<1> QED
  BY <1>4, <1>6, <1>7, <1>8

LEMMA DiscardEmptyIs ==
    ASSUME NEW ss, SessionsOK(ss), NEW as, NEW tt, tt = DiscardEmptyAnchors(ss, as)
    PROVE  /\ SessionsOK(tt) /\ \A b : BodyAt(tt, b) = BodyAt(ss, b)
           /\ \A b : b \in AnchorsOf(tt) <=> b \in AnchorsOf(ss) /\ (b \notin as \/ BodyAt(ss, b) # {})
           /\ \A b : b \in Opened(tt) <=> b \in Opened(ss) /\ (b \notin as \/ BodyAt(ss, b) # {})
           /\ \A hash : Fresh(ss, hash) => Fresh(tt, hash)
<1> DEFINE W == {session \in ToSet(ss) : session.anchor \notin as \/ session.text # {}}
<1>1. tt = Keeping(ss, W)
  BY DEF DiscardEmptyAnchors
<1>2. \A b \in AnchorsOf(ss) : At(ss, b) \in W <=> b \notin as \/ BodyAt(ss, b) # {}
  <2>1. \A b \in AnchorsOf(ss) : At(ss, b) \in ToSet(ss) /\ At(ss, b).anchor = b
    BY BodiesAre DEF ToSet
  <2>2. \A b \in AnchorsOf(ss) : BodyAt(ss, b) = At(ss, b).text
    BY DEF BodyAt
  <2> QED
    BY <2>1, <2>2
<1>3. Opened(ss) \subseteq AnchorsOf(ss)
  BY BodiesAre
<1> HIDE DEF W
<1>4. SessionsOK(tt) /\ \A hash : Fresh(ss, hash) => Fresh(tt, hash)
  BY <1>1, KeepingIs
<1>5. /\ \A b : b \in AnchorsOf(tt) <=> b \in AnchorsOf(ss) /\ At(ss, b) \in W
      /\ \A b \in AnchorsOf(tt) : BodyAt(tt, b) = BodyAt(ss, b)
      /\ \A b : b \in Opened(tt) <=> b \in Opened(ss) /\ At(ss, b) \in W
  BY <1>1, KeptBodies
<1>6. \A b : BodyAt(tt, b) = BodyAt(ss, b)
  BY <1>2, <1>5 DEF BodyAt
<1> QED
  BY <1>2, <1>3, <1>4, <1>5, <1>6

LEMMA RestoredIs ==
    ASSUME NEW ss, SessionsOK(ss), NEW tt, tt = Restored(ss)
    PROVE  SessionsOK(tt) /\ \A b : BodyAt(tt, b) = BodyAt(ss, b)
<1> DEFINE W == {session \in ToSet(ss) : ~session.stale \/ session.text # {}}
<1>1. tt = Keeping(ss, W)
  BY DEF Restored
<1>2. \A b \in AnchorsOf(ss) : At(ss, b) \notin W => BodyAt(ss, b) = {}
  BY BodiesAre DEF ToSet, BodyAt
<1> HIDE DEF W
<1>3. SessionsOK(tt)
  BY <1>1, KeepingIs
<1>4. /\ \A b : b \in AnchorsOf(tt) <=> b \in AnchorsOf(ss) /\ At(ss, b) \in W
      /\ \A b \in AnchorsOf(tt) : BodyAt(tt, b) = BodyAt(ss, b)
  BY <1>1, KeptBodies
<1>5. \A b : BodyAt(tt, b) = BodyAt(ss, b)
  BY <1>2, <1>4 DEF BodyAt
<1> QED
  BY <1>3, <1>5

-----------------------------------------------------------------------------
(* Where the text is: in the body of one place, on its way, saved or discarded *)

\* The reader takes every care: what is known to lose text is left out.
Careful == Cautions = {"one_pane", "workspace", "saves", "deletes", "reanchors", "selections"}

Bodies(ss) == [a \in Anchors |-> BodyAt(ss, a)]
ThePane == CHOOSE q \in Panes : TRUE

Sends == [pane : {ThePane} \cap Panes, anchor : Anchors, text : SUBSET Nat, continues : BOOLEAN, keeps : BOOLEAN,
          latest : SUBSET Nat, mounted : {TRUE}, served : BOOLEAN]

\* What is sent is in its session until it is answered, or its session goes on without it.
SendFits(s, body, counts, n, gone, th) ==
    /\ s.text # {} /\ s.text \subseteq (1..n) \ gone
    /\ \A t \in s.text : counts[t] = IF s.served THEN 1 ELSE 0
    /\ s.keeps => s.text \cap body[s.anchor] = {}
    /\ s.continues => s.keeps /\ th[s.anchor] = "pending"
    /\ s.keeps /\ ~s.continues => body[s.anchor] = {} /\ th[s.anchor] = "none"
    /\ ~s.keeps => body[s.anchor] = s.text /\ th[s.anchor] # "pending"
    /\ \A b \in Anchors : b # s.anchor => s.text \cap body[b] = {}

\* Each thought is at one place only, none that was discarded is, and one that is saved already
\* is only while its answer is on its way to a composer that waits for it.
TextsFit(body, sent, counts, n, gone, th) ==
    /\ body \in [Anchors -> SUBSET ((1..n) \ gone)]
    /\ \A a, b \in Anchors : a # b => body[a] \cap body[b] = {}
    /\ \A t \in 1..n : \/ t \in gone \/ counts[t] > 0
                       \/ (\E s \in sent : t \in s.text) \/ \E a \in Anchors : t \in body[a]
    /\ \A a \in Anchors : \A t \in body[a] :
          counts[t] = 0 \/ \E s \in sent : s.anchor = a /\ s.served /\ ~s.keeps
    /\ \A s \in sent : SendFits(s, body, counts, n, gone, th)
    /\ \A s, r \in sent : s.anchor = r.anchor => s = r
    /\ \A s, r \in sent : s # r => s.text \cap r.text = {}

Retold(s, body) == [s EXCEPT !.latest = body[s.anchor]]

LEMMA RetoldIs ==
    ASSUME NEW s \in Sends, NEW body \in [Anchors -> SUBSET Nat]
    PROVE  /\ Retold(s, body) \in Sends /\ Retold(s, body).latest = body[s.anchor]
           /\ Retold(s, body).anchor = s.anchor /\ Retold(s, body).text = s.text
           /\ Retold(s, body).continues = s.continues /\ Retold(s, body).keeps = s.keeps
           /\ Retold(s, body).served = s.served
  BY DEF Retold, Sends

\* What a composer was told of its session has no part in it.
LEMMA RetoldTexts ==
    ASSUME NEW body \in [Anchors -> SUBSET Nat], NEW sent \in SUBSET Sends, NEW counts, NEW n, NEW gone, NEW th,
           TextsFit(body, sent, counts, n, gone, th),
           NEW retold, retold = {Retold(s, body) : s \in sent}
    PROVE  TextsFit(body, retold, counts, n, gone, th)
<1>1. \A u \in retold : \E s \in sent : u = Retold(s, body)
  OBVIOUS
<1>2. \A s \in sent : Retold(s, body) \in retold
  OBVIOUS
<1>3. \A s \in sent : /\ Retold(s, body).anchor = s.anchor /\ Retold(s, body).text = s.text
                      /\ Retold(s, body).continues = s.continues /\ Retold(s, body).keeps = s.keeps
                      /\ Retold(s, body).served = s.served
  BY RetoldIs
<1>4. ASSUME NEW u \in retold PROVE SendFits(u, body, counts, n, gone, th)
  BY <1>1, <1>3 DEF TextsFit, SendFits
<1>5. ASSUME NEW u \in retold, NEW v \in retold
      PROVE  /\ u.anchor = v.anchor => u = v
             /\ u # v => u.text \cap v.text = {}
  BY <1>1, <1>3 DEF TextsFit
<1>6. \A t \in 1..n : \/ t \in gone \/ counts[t] > 0
                      \/ (\E u \in retold : t \in u.text) \/ \E a \in Anchors : t \in body[a]
  BY <1>2, <1>3 DEF TextsFit
<1>7. \A a \in Anchors : \A t \in body[a] :
          counts[t] = 0 \/ \E u \in retold : u.anchor = a /\ u.served /\ ~u.keeps
  BY <1>2, <1>3 DEF TextsFit
<1>8. body \in [Anchors -> SUBSET ((1..n) \ gone)] /\ \A a, b \in Anchors : a # b => body[a] \cap body[b] = {}
  BY DEF TextsFit
<1> QED
  BY <1>4, <1>5, <1>6, <1>7, <1>8 DEF TextsFit

\* With nothing on its way the threads do not matter.
LEMMA QuietTexts ==
    ASSUME NEW body, NEW counts, NEW n, NEW gone, NEW th, NEW th2, TextsFit(body, {}, counts, n, gone, th)
    PROVE  TextsFit(body, {}, counts, n, gone, th2)
  BY DEF TextsFit

LEMMA TypedTexts ==
    ASSUME NEW body, NEW sent \in SUBSET Sends, NEW counts, NEW n \in Nat, NEW gone \in SUBSET (1..n), NEW th,
           TextsFit(body, sent, counts, n, gone, th), counts[n + 1] = 0, NEW a \in Anchors,
           \A s \in sent : s.anchor = a => th[a] = "pending"
    PROVE  TextsFit([body EXCEPT ![a] = @ \cup {n + 1}], sent, counts, n + 1, gone, th)
<1> DEFINE new == [body EXCEPT ![a] = @ \cup {n + 1}]
<1>1. body \in [Anchors -> SUBSET ((1..n) \ gone)]
  BY DEF TextsFit
<1>2. new[a] = body[a] \cup {n + 1} /\ \A b \in Anchors : b # a => new[b] = body[b]
  BY <1>1
<1>3. 1..(n + 1) = (1..n) \cup {n + 1} /\ n + 1 \notin 1..n /\ n + 1 \notin gone
  OBVIOUS
<1>4. new \in [Anchors -> SUBSET ((1..(n + 1)) \ gone)]
  BY <1>1, <1>3
<1> HIDE DEF new
<1>5. \A b \in Anchors : n + 1 \notin body[b]
  BY <1>1, <1>3
<1>6. \A b, c \in Anchors : b # c => new[b] \cap new[c] = {}
  BY <1>2, <1>5 DEF TextsFit
<1>7. \A t \in 1..(n + 1) : \/ t \in gone \/ counts[t] > 0
                            \/ (\E s \in sent : t \in s.text) \/ \E b \in Anchors : t \in new[b]
  BY <1>2, <1>3 DEF TextsFit
<1>8. \A b \in Anchors : \A t \in new[b] :
          counts[t] = 0 \/ \E s \in sent : s.anchor = b /\ s.served /\ ~s.keeps
  BY <1>2 DEF TextsFit
<1>9. ASSUME NEW s \in sent PROVE SendFits(s, new, counts, n + 1, gone, th)
  <2>1. SendFits(s, body, counts, n, gone, th) /\ s.anchor \in Anchors
    BY DEF TextsFit, Sends
  <2>2. s.text # {} /\ s.text \subseteq (1..n) \ gone /\ n + 1 \notin s.text
    BY <1>3, <2>1 DEF SendFits
  <2>3. CASE s.anchor = a
    BY <1>2, <1>3, <2>1, <2>2, <2>3 DEF SendFits
  <2>4. CASE s.anchor # a
    BY <1>2, <1>3, <2>1, <2>2, <2>4 DEF SendFits
  <2> QED
    BY <2>3, <2>4
<1>10. /\ \A s, r \in sent : s.anchor = r.anchor => s = r
       /\ \A s, r \in sent : s # r => s.text \cap r.text = {}
  BY DEF TextsFit
<1>11. TextsFit(new, sent, counts, n + 1, gone, th)
  BY <1>4, <1>6, <1>7, <1>8, <1>9, <1>10 DEF TextsFit
<1> QED
  BY <1>11 DEF new

LEMMA SentTexts ==
    ASSUME NEW body, NEW sent \in SUBSET Sends, NEW counts, NEW n \in Nat, NEW gone \in SUBSET (1..n),
           NEW th \in [Anchors -> {"none", "pending", "published"}],
           TextsFit(body, sent, counts, n, gone, th), NEW s \in Sends, \A r \in sent : r.anchor # s.anchor,
           s.text = body[s.anchor], s.text # {}, ~s.served,
           s.continues => s.keeps /\ th[s.anchor] = "pending",
           s.keeps /\ ~s.continues => th[s.anchor] = "none",
           ~s.keeps => th[s.anchor] # "pending",
           NEW new, new = IF s.keeps THEN [body EXCEPT ![s.anchor] = {}] ELSE body
    PROVE  TextsFit(new, sent \cup {s}, counts, n, gone, th)
<1> DEFINE a == s.anchor
<1>1. body \in [Anchors -> SUBSET ((1..n) \ gone)] /\ a \in Anchors
  BY DEF TextsFit, Sends
<1>2. \A b \in Anchors : b # a => new[b] = body[b]
  BY <1>1
<1>3. (s.keeps => new[a] = {}) /\ (~s.keeps => new[a] = body[a])
  BY <1>1
<1>4. new \in [Anchors -> SUBSET ((1..n) \ gone)]
  BY <1>1
<1>5. \A b \in Anchors : new[b] \subseteq body[b]
  BY <1>2, <1>3
<1>6. \A b, c \in Anchors : b # c => body[b] \cap body[c] = {}
  BY DEF TextsFit
<1>7. \A b, c \in Anchors : b # c => new[b] \cap new[c] = {}
  BY <1>5, <1>6
<1>8. \A t \in 1..n : \/ t \in gone \/ counts[t] > 0
                      \/ (\E r \in sent \cup {s} : t \in r.text) \/ \E b \in Anchors : t \in new[b]
  BY <1>2 DEF TextsFit
<1>9. \A b \in Anchors : \A t \in body[b] :
          counts[t] = 0 \/ \E r \in sent : r.anchor = b /\ r.served /\ ~r.keeps
  BY DEF TextsFit
<1>10. \A t \in s.text : counts[t] = 0
  BY <1>1, <1>9
<1>11. \A b \in Anchors : \A t \in new[b] :
          counts[t] = 0 \/ \E r \in sent \cup {s} : r.anchor = b /\ r.served /\ ~r.keeps
  BY <1>5, <1>9
<1>12. SendFits(s, new, counts, n, gone, th)
  BY <1>1, <1>2, <1>3, <1>6, <1>10 DEF SendFits
<1>13. ASSUME NEW r \in sent PROVE SendFits(r, new, counts, n, gone, th)
  BY <1>2, <1>5 DEF TextsFit, Sends, SendFits
<1>14. \A r \in sent : r.text \cap s.text = {}
  BY <1>1 DEF TextsFit, SendFits
<1>15. /\ \A q, r \in sent : q.anchor = r.anchor => q = r
       /\ \A q, r \in sent : q # r => q.text \cap r.text = {}
  BY DEF TextsFit
<1>16. /\ \A q, r \in sent \cup {s} : q.anchor = r.anchor => q = r
       /\ \A q, r \in sent \cup {s} : q # r => q.text \cap r.text = {}
  BY <1>14, <1>15
<1>17. \A r \in sent \cup {s} : SendFits(r, new, counts, n, gone, th)
  BY <1>12, <1>13
<1> QED
  BY <1>4, <1>7, <1>8, <1>11, <1>16, <1>17 DEF TextsFit

Answered(s) == [s EXCEPT !.served = TRUE]
CountedOnce(counts, texts) == [t \in Thoughts |-> IF t \in texts THEN counts[t] + 1 ELSE counts[t]]

LEMMA ServedTexts ==
    ASSUME saves \in SUBSET Sends, kept \in [Thoughts -> {0, 1}], typed \in 0..MaxThoughts, dropped \in SUBSET (1..typed),
           NEW body, TextsFit(body, saves, kept, typed, dropped, threads),
           NEW s \in saves, ~s.served, NEW u, u = Answered(s), kept' = CountedOnce(kept, s.text)
    PROVE  /\ u \in Sends /\ u.anchor = s.anchor /\ u.latest = s.latest
           /\ kept' \in [Thoughts -> {0, 1}] /\ (\A t \in Thoughts : t > typed => kept'[t] = kept[t])
           /\ TextsFit(body, (saves \ {s}) \cup {u}, kept', typed, dropped, threads)
<1>1. SendFits(s, body, kept, typed, dropped, threads) /\ s \in Sends
  BY DEF TextsFit
<1>2. /\ u \in Sends /\ u.anchor = s.anchor /\ u.text = s.text /\ u.latest = s.latest /\ u.keeps = s.keeps
      /\ u.continues = s.continues /\ u.served
  BY <1>1 DEF Sends, Answered
<1>3. 1..typed \subseteq Thoughts /\ s.text \subseteq 1..typed
  BY <1>1, CautionsAssumption DEF Thoughts, SendFits
<1>4. /\ \A t \in s.text : kept[t] = 0 /\ kept'[t] = 1
      /\ \A t \in Thoughts \ s.text : kept'[t] = kept[t]
  BY <1>1, <1>3 DEF SendFits, CountedOnce
<1>5. kept' \in [Thoughts -> {0, 1}]
  BY <1>4 DEF CountedOnce
<1>6. \A t \in Thoughts : t > typed => kept'[t] = kept[t]
  BY <1>3, <1>4, CautionsAssumption DEF Thoughts
<1> DEFINE new == (saves \ {s}) \cup {u}
<1>7. body \in [Anchors -> SUBSET ((1..typed) \ dropped)] /\ \A a, b \in Anchors : a # b => body[a] \cap body[b] = {}
  BY DEF TextsFit
<1>8. \A t \in 1..typed : \/ t \in dropped \/ kept'[t] > 0
                      \/ (\E r \in new : t \in r.text) \/ \E a \in Anchors : t \in body[a]
  BY <1>2, <1>3, <1>4 DEF TextsFit
<1>9. \A a \in Anchors : \A t \in body[a] :
          kept'[t] = 0 \/ \E r \in new : r.anchor = a /\ r.served /\ ~r.keeps
  <2> SUFFICES ASSUME NEW a \in Anchors, NEW t \in body[a]
               PROVE  kept'[t] = 0 \/ \E r \in new : r.anchor = a /\ r.served /\ ~r.keeps
    OBVIOUS
  <2>1. CASE t \in s.text
    BY <1>1, <1>2, <2>1 DEF SendFits, Sends
  <2>2. CASE t \notin s.text
    BY <1>3, <1>4, <1>7, <2>2 DEF TextsFit
  <2> QED
    BY <2>1, <2>2
<1>10. SendFits(u, body, kept', typed, dropped, threads)
  BY <1>1, <1>2, <1>4 DEF SendFits
<1>11. ASSUME NEW r \in saves \ {s} PROVE SendFits(r, body, kept', typed, dropped, threads)
  BY <1>3, <1>4 DEF TextsFit, SendFits
<1>12. \A r \in saves \ {s} : r.anchor # s.anchor /\ r.text \cap s.text = {}
  BY DEF TextsFit
<1>13. /\ \A q, r \in saves : q.anchor = r.anchor => q = r
       /\ \A q, r \in saves : q # r => q.text \cap r.text = {}
  BY DEF TextsFit
<1>14. /\ \A q, r \in new : q.anchor = r.anchor => q = r
       /\ \A q, r \in new : q # r => q.text \cap r.text = {}
  BY <1>2, <1>12, <1>13
<1>15. \A r \in new : SendFits(r, body, kept', typed, dropped, threads)
  BY <1>10, <1>11
<1> HIDE DEF new
<1>16. TextsFit(body, new, kept', typed, dropped, threads)
  BY <1>7, <1>8, <1>9, <1>14, <1>15 DEF TextsFit
<1> QED
  BY <1>2, <1>5, <1>6, <1>16 DEF new

\* The answer to a save: what it sent is saved, and its composer goes or goes on.
LEMMA AnsweredTexts ==
    ASSUME NEW body, NEW sent \in SUBSET Sends, NEW counts \in [Thoughts -> {0, 1}], NEW n \in 0..MaxThoughts,
           NEW gone \in SUBSET (1..n), NEW th \in [Anchors -> {"none", "pending", "published"}],
           TextsFit(body, sent, counts, n, gone, th), NEW s \in sent, s.served,
           NEW new, new = IF s.continues THEN body ELSE [body EXCEPT ![s.anchor] = {}]
    PROVE  TextsFit(new, sent \ {s}, counts, n, gone, [th EXCEPT ![s.anchor] = "pending"])
<1> DEFINE th2 == [th EXCEPT ![s.anchor] = "pending"]
           a == s.anchor
           left == sent \ {s}
<1>1. SendFits(s, body, counts, n, gone, th) /\ s \in Sends /\ a \in Anchors
  BY DEF TextsFit, Sends
<1>2. body \in [Anchors -> SUBSET ((1..n) \ gone)] /\ \A b, c \in Anchors : b # c => body[b] \cap body[c] = {}
  BY DEF TextsFit
<1>3. \A b \in Anchors : b # a => new[b] = body[b] /\ th2[b] = th[b]
  BY <1>2
<1>4. (s.continues => new[a] = body[a]) /\ (~s.continues => new[a] = {})
  BY <1>1, <1>2
<1>5. new \in [Anchors -> SUBSET ((1..n) \ gone)]
  BY <1>2
<1>6. \A b \in Anchors : new[b] \subseteq body[b]
  BY <1>3, <1>4
<1>7. \A b, c \in Anchors : b # c => new[b] \cap new[c] = {}
  BY <1>2, <1>6
<1>8. \A t \in s.text : counts[t] = 1
  BY <1>1 DEF SendFits
<1>9. s.continues \/ body[a] \subseteq s.text
  BY <1>1 DEF SendFits
<1>10. \A t \in 1..n : \/ t \in gone \/ counts[t] > 0
                       \/ (\E r \in left : t \in r.text) \/ \E b \in Anchors : t \in new[b]
  BY <1>3, <1>4, <1>8, <1>9 DEF TextsFit
<1>11. \A b \in Anchors : \A t \in new[b] :
          counts[t] = 0 \/ \E r \in left : r.anchor = b /\ r.served /\ ~r.keeps
  <2> SUFFICES ASSUME NEW b \in Anchors, NEW t \in new[b], counts[t] # 0
               PROVE  \E r \in left : r.anchor = b /\ r.served /\ ~r.keeps
    OBVIOUS
  <2>1. t \in body[b]
    BY <1>6
  <2>2. PICK r \in sent : r.anchor = b /\ r.served /\ ~r.keeps
    BY <2>1 DEF TextsFit
  <2>3. r # s
    BY <1>1, <1>4, <2>2 DEF SendFits
  <2> QED
    BY <2>2, <2>3
<1>12. ASSUME NEW r \in left PROVE SendFits(r, new, counts, n, gone, th2)
  BY <1>3, <1>6 DEF TextsFit, Sends, SendFits
<1>13. /\ \A q, r \in left : q.anchor = r.anchor => q = r
       /\ \A q, r \in left : q # r => q.text \cap r.text = {}
  BY DEF TextsFit
<1> HIDE DEF left, th2
<1>14. TextsFit(new, left, counts, n, gone, th2)
  BY <1>5, <1>7, <1>10, <1>11, <1>12, <1>13 DEF TextsFit
<1> QED
  BY <1>14 DEF left, th2

\* A save that fails gives its text back to the session that went on without it.
LEMMA FailedTexts ==
    ASSUME NEW body, NEW sent \in SUBSET Sends, NEW counts \in [Thoughts -> {0, 1}], NEW n \in 0..MaxThoughts,
           NEW gone \in SUBSET (1..n), NEW th, TextsFit(body, sent, counts, n, gone, th), NEW s \in sent, ~s.served,
           NEW new, new = IF s.keeps THEN [body EXCEPT ![s.anchor] = s.text \cup @] ELSE body
    PROVE  TextsFit(new, sent \ {s}, counts, n, gone, th)
<1> DEFINE a == s.anchor
           left == sent \ {s}
<1>1. SendFits(s, body, counts, n, gone, th) /\ s \in Sends /\ a \in Anchors
  BY DEF TextsFit, Sends
<1>2. body \in [Anchors -> SUBSET ((1..n) \ gone)] /\ \A b, c \in Anchors : b # c => body[b] \cap body[c] = {}
  BY DEF TextsFit
<1>3. \A b \in Anchors : b # a => new[b] = body[b]
  BY <1>2
<1>4. new[a] = body[a] \cup s.text
  BY <1>1, <1>2 DEF SendFits
<1>5. s.text \subseteq (1..n) \ gone /\ (\A t \in s.text : counts[t] = 0)
      /\ \A b \in Anchors : b # a => s.text \cap body[b] = {}
  BY <1>1 DEF SendFits
<1>6. new \in [Anchors -> SUBSET ((1..n) \ gone)]
  BY <1>2, <1>5
<1> HIDE DEF a
<1>7. \A b, c \in Anchors : b # c => new[b] \cap new[c] = {}
  BY <1>1, <1>2, <1>3, <1>4, <1>5
<1>8. \A t \in 1..n : \/ t \in gone \/ counts[t] > 0
                      \/ (\E r \in left : t \in r.text) \/ \E b \in Anchors : t \in new[b]
  BY <1>1, <1>3, <1>4 DEF TextsFit
<1>9. \A b \in Anchors : \A t \in new[b] :
          counts[t] = 0 \/ \E r \in left : r.anchor = b /\ r.served /\ ~r.keeps
  BY <1>3, <1>4, <1>5 DEF TextsFit
<1>10. ASSUME NEW r \in left PROVE SendFits(r, new, counts, n, gone, th)
  BY <1>3, <1>4 DEF TextsFit, Sends, a, SendFits
<1>11. /\ \A q, r \in left : q.anchor = r.anchor => q = r
       /\ \A q, r \in left : q # r => q.text \cap r.text = {}
  BY DEF TextsFit
<1> HIDE DEF left
<1>12. TextsFit(new, left, counts, n, gone, th)
  BY <1>6, <1>7, <1>8, <1>9, <1>10, <1>11 DEF TextsFit
<1> QED
  BY <1>12 DEF left

LEMMA DroppedTexts ==
    ASSUME NEW body, NEW counts, NEW n, NEW gone, NEW th, TextsFit(body, {}, counts, n, gone, th), NEW a \in Anchors
    PROVE  TextsFit([body EXCEPT ![a] = {}], {}, counts, n, gone \cup body[a], th)
  BY DEF TextsFit

-----------------------------------------------------------------------------
(* The inputs of a page *)

Counts ==
    /\ fileHash \in Nat /\ typed \in 0..MaxThoughts /\ dropped \in SUBSET (1..typed)
    /\ kept \in [Thoughts -> {0, 1}] /\ \A t \in Thoughts : t > typed => kept[t] = 0
    /\ surface \in {"rendered", "source"} /\ hydrated \in BOOLEAN
    /\ threads \in [Anchors -> {"none", "pending", "published"}]

\* The open sessions are shown; where none is, the pane that is used shows one thread, or threads
\* that were published and have no session.  What is being saved is shown.
ShowsFit(ss, show, sent, surf, th) ==
    /\ show \in [Panes -> SUBSET Anchors]
    /\ surf = "rendered" => \A p \in Panes : \A a, b \in show[p] : a = b
    /\ Opened(ss) # {} => \A p \in Panes : show[p] = IF surf = "rendered" THEN {FirstOpen(ss)} ELSE Opened(ss)
    /\ Opened(ss) = {} /\ ThePane \in Panes =>
          \A a \in show[ThePane] : show[ThePane] = {a} \/ (th[a] = "published" /\ a \notin AnchorsOf(ss))
    /\ \A s \in sent : s.anchor \in show[ThePane]

InputsInv ==
    /\ Counts
    /\ SessionsOK(sessions) /\ SessionsOK(stored) /\ Fresh(sessions, fileHash)
    /\ hydrated => stored = sessions
    /\ ~hydrated => sessions = <<>> /\ saves = {} /\ \A p \in Panes : shown[p] = {}
    /\ saves \in SUBSET Sends /\ \A s \in saves : s.latest = BodyAt(sessions, s.anchor)
    /\ TextsFit(Bodies(stored), saves, kept, typed, dropped, threads)
    /\ ShowsFit(sessions, shown, saves, surface, threads)

LEMMA BodiesIn ==
    ASSUME NEW ss, SessionsOK(ss)
    PROVE  Bodies(ss) \in [Anchors -> SUBSET Nat] /\ \A a \in Anchors : Bodies(ss)[a] = BodyAt(ss, a)
  BY BodiesAre DEF Bodies

LEMMA ComposersAre ==
    ASSUME NEW ss, SessionsOK(ss), NEW show
    PROVE  /\ Opened(ss) = {} => Composers(ss, show) = show
           /\ Opened(ss) # {} => Composers(ss, show) =
                 [p \in Panes |-> IF surface = "rendered" THEN {FirstOpen(ss)} ELSE Opened(ss)]
  BY OpenIs DEF Composers, FirstOpen

\* With an open session, and nothing on its way, what is shown is that.
LEMMA OpenShows ==
    ASSUME NEW ss, SessionsOK(ss), Opened(ss) # {}, NEW show, NEW th
    PROVE  ShowsFit(ss, Composers(ss, show), {}, surface, th)
<1>1. Opened(ss) \subseteq Anchors /\ FirstOpen(ss) \in Opened(ss)
  BY BodiesAre, OpenIs
<1>2. Composers(ss, show) = [p \in Panes |-> IF surface = "rendered" THEN {FirstOpen(ss)} ELSE Opened(ss)]
  BY ComposersAre
<1> QED
  BY <1>1, <1>2 DEF ShowsFit

\* A composer that is shown opens its session: the others stay where they are.
LEMMA OpeningShows ==
    ASSUME NEW ss, SessionsOK(ss), NEW tt, SessionsOK(tt), NEW show, NEW sent \in SUBSET Sends, NEW th, NEW th2,
           ShowsFit(ss, show, sent, surface, th), ThePane \in Panes, NEW a \in show[ThePane],
           Opened(tt) = Opened(ss) \cup {a}, a \in Opened(ss) => FirstOpen(tt) = FirstOpen(ss),
           \A s \in sent : th[s.anchor] # "published" \/ s.anchor \in AnchorsOf(ss)
    PROVE  ShowsFit(tt, Composers(tt, show), sent, surface, th2) /\ a \in Composers(tt, show)[ThePane]
<1>1. Composers(tt, show) = [p \in Panes |-> IF surface = "rendered" THEN {FirstOpen(tt)} ELSE Opened(tt)]
  BY ComposersAre
<1>2. ShowsFit(tt, Composers(tt, show), {}, surface, th2)
  BY OpenShows
<1>3. FirstOpen(tt) \in Opened(tt)
  BY OpenIs
<1>4. a \in Composers(tt, show)[ThePane] /\ \A s \in sent : s.anchor \in Composers(tt, show)[ThePane]
  <2>1. CASE Opened(ss) # {} /\ surface = "rendered"
    BY <1>1, <2>1, OpenIs DEF ShowsFit
  <2>2. CASE Opened(ss) # {} /\ surface # "rendered"
    BY <1>1, <2>2 DEF ShowsFit
  <2>3. CASE Opened(ss) = {}
    BY <1>1, <1>3, <2>3 DEF ShowsFit
  <2> QED
    BY <2>1, <2>2, <2>3
<1> QED
  BY <1>2, <1>4 DEF ShowsFit

\* What is being saved has a session or a thread that is not published.
LEMMA SendsLive ==
    ASSUME NEW ss, SessionsOK(ss), NEW sent \in SUBSET Sends, NEW counts, NEW n, NEW gone, NEW th,
           TextsFit(Bodies(ss), sent, counts, n, gone, th)
    PROVE  \A s \in sent : th[s.anchor] # "published" \/ s.anchor \in AnchorsOf(ss)
<1> SUFFICES ASSUME NEW s \in sent PROVE th[s.anchor] # "published" \/ s.anchor \in AnchorsOf(ss)
  OBVIOUS
<1>1. SendFits(s, Bodies(ss), counts, n, gone, th) /\ s.anchor \in Anchors
  BY DEF TextsFit, Sends
<1>2. CASE s.keeps
  BY <1>1, <1>2 DEF SendFits
<1>3. CASE ~s.keeps
  <2>1. BodyAt(ss, s.anchor) # {}
    BY <1>1, <1>3, BodiesIn DEF SendFits
  <2> QED
    BY <2>1, BodiesAre
<1> QED
  BY <1>2, <1>3

\* What Settle makes of sessions, composers and saves that fit.
LEMMA SettleKeeps ==
    ASSUME hydrated, hydrated' = hydrated, surface' = surface,
           NEW ss, SessionsOK(ss), NEW show, NEW sent \in SUBSET Sends, Settle(ss, show, sent),
           Counts', Fresh(ss, fileHash'), TextsFit(Bodies(ss), sent, kept', typed', dropped', threads'),
           ShowsFit(ss, Composers(ss, show), sent, surface, threads')
    PROVE  InputsInv'
<1>1. sessions' = ss /\ shown' = Composers(ss, show) /\ stored' = ss
  BY DEF Settle
<1>2. Bodies(ss) \in [Anchors -> SUBSET Nat] /\ \A a \in Anchors : Bodies(ss)[a] = BodyAt(ss, a)
  BY BodiesIn
<1>3. saves' = {Retold(s, Bodies(ss)) : s \in sent}
  <2> DEFINE there(s) == s.mounted /\ s.anchor \in shown'[s.pane]
             told(s) == [s EXCEPT !.mounted = there(s), !.latest = IF there(s) THEN BodyAt(ss, s.anchor) ELSE @]
  <2>1. saves' = {told(s) : s \in sent}
    BY DEF Settle
  <2>2. ASSUME NEW s \in sent
        PROVE  told(s) = Retold(s, Bodies(ss))
    BY <1>1, <1>2 DEF ShowsFit, Sends, Retold
  <2> HIDE DEF told
  <2> QED
    BY <2>1, <2>2
<1>4. \A s \in sent : /\ Retold(s, Bodies(ss)) \in Sends /\ Retold(s, Bodies(ss)).anchor = s.anchor
                      /\ Retold(s, Bodies(ss)).latest = BodyAt(ss, s.anchor)
  <2>1. \A s \in sent : s \in Sends /\ s.anchor \in Anchors
    BY DEF Sends
  <2> QED
    BY <1>2, <2>1, RetoldIs
<1>5. saves' \in SUBSET Sends /\ \A s \in saves' : s.latest = BodyAt(sessions', s.anchor)
  BY <1>1, <1>3, <1>4
<1>6. TextsFit(Bodies(ss), saves', kept', typed', dropped', threads')
  BY <1>2, <1>3, RetoldTexts
<1>7. ShowsFit(sessions', shown', saves', surface', threads')
  BY <1>1, <1>3, <1>4 DEF ShowsFit
<1> QED
  BY <1>1, <1>5, <1>6, <1>7 DEF InputsInv

LEMMA MayWorkIs ==
    ASSUME Careful, NEW p \in Panes, MayWork(p)
    PROVE  hydrated /\ p = ThePane /\ ThePane \in Panes
  BY DEF Careful, MayWork, ThePane

LEMMA HydratedIs ==
    ASSUME InputsInv, hydrated
    PROVE  /\ Counts /\ SessionsOK(sessions) /\ Fresh(sessions, fileHash) /\ saves \in SUBSET Sends
           /\ TextsFit(Bodies(sessions), saves, kept, typed, dropped, threads)
           /\ ShowsFit(sessions, shown, saves, surface, threads)
           /\ \A s \in saves : s.latest = BodyAt(sessions, s.anchor) /\ s.mounted = TRUE /\ s.pane = ThePane
  BY DEF InputsInv, Sends

LEMMA BodiesSame ==
    ASSUME NEW ss, NEW tt, \A b : BodyAt(tt, b) = BodyAt(ss, b)
    PROVE  Bodies(tt) = Bodies(ss)
  BY DEF Bodies

LEMMA BodiesButOne ==
    ASSUME NEW ss, NEW tt, NEW a \in Anchors, \A b : b # a => BodyAt(tt, b) = BodyAt(ss, b)
    PROVE  Bodies(tt) = [Bodies(ss) EXCEPT ![a] = BodyAt(tt, a)]
  BY DEF Bodies

LEMMA StartKeeps ==
    ASSUME Careful, InputsInv, NEW p \in Panes, NEW a \in Anchors, Start(p, a)
    PROVE  InputsInv'
<1>1. hydrated /\ p = ThePane /\ ThePane \in Panes /\ saves = {}
  BY MayWorkIs DEF Start, NoSaving, Careful
<1>2. /\ Counts /\ SessionsOK(sessions) /\ Fresh(sessions, fileHash)
      /\ TextsFit(Bodies(sessions), {}, kept, typed, dropped, threads)
  BY <1>1, HydratedIs
<1> DEFINE left == IF surface = "rendered" THEN Collapse(sessions, shown[p]) ELSE sessions
           ss == Enter(left, a, BodyAt(left, a))
           show == [shown EXCEPT ![p] = {a}]
<1>3. SessionsOK(left) /\ Fresh(left, fileHash) /\ \A b : BodyAt(left, b) = BodyAt(sessions, b)
  BY <1>2, CollapseIs
<1>4. Settle(ss, show, {})
  BY <1>1 DEF Start
<1> HIDE DEF left
<1>5. fileHash \in Nat /\ BodyAt(left, a) \in SUBSET Nat
  BY <1>2, <1>3, BodiesAre DEF Counts
<1>6. SessionsOK(ss) /\ Fresh(ss, fileHash) /\ Opened(ss) # {} /\ \A b : BodyAt(ss, b) = BodyAt(left, b)
  BY <1>3, <1>5, EnterIs
<1>7. Bodies(ss) = Bodies(sessions)
  BY <1>3, <1>6, BodiesSame
<1>8. /\ fileHash' = fileHash /\ kept' = kept /\ surface' = surface /\ hydrated' = hydrated /\ typed' = typed
      /\ dropped' = dropped /\ threads' = [threads EXCEPT ![a] = IF @ = "published" THEN "none" ELSE @]
  BY DEF Start
<1> HIDE DEF ss, show
<1>9. TextsFit(Bodies(ss), {}, kept', typed', dropped', threads')
  BY <1>2, <1>7, <1>8, QuietTexts
<1>10. Counts'
  BY <1>2, <1>8 DEF Counts
<1>11. ShowsFit(ss, Composers(ss, show), {}, surface, threads')
  BY <1>6, OpenShows
<1> QED
  BY <1>1, <1>4, <1>6, <1>8, <1>9, <1>10, <1>11, SettleKeeps

LEMMA OpenThreadKeeps ==
    ASSUME Careful, InputsInv, NEW p \in Panes, NEW a \in Anchors, OpenThread(p, a)
    PROVE  InputsInv'
<1>1. hydrated /\ p = ThePane /\ ThePane \in Panes /\ saves = {}
  BY MayWorkIs DEF OpenThread, NoSaving, Careful
<1>2. /\ Counts /\ SessionsOK(sessions) /\ Fresh(sessions, fileHash)
      /\ TextsFit(Bodies(sessions), {}, kept, typed, dropped, threads)
      /\ ShowsFit(sessions, shown, {}, surface, threads)
  BY <1>1, HydratedIs
<1> DEFINE show == [shown EXCEPT ![p] = {a}]
<1>3. Settle(sessions, show, {})
  BY <1>1 DEF OpenThread
<1>4. Opened(sessions) = {}
  BY <1>2, OpenIs DEF OpenThread
<1>5. Composers(sessions, show) = show
  BY <1>2, <1>4, ComposersAre
<1>6. /\ fileHash' = fileHash /\ kept' = kept /\ surface' = surface /\ hydrated' = hydrated /\ typed' = typed
      /\ dropped' = dropped /\ threads' = threads
  BY DEF OpenThread, Steady
<1>7. Counts'
  BY <1>2, <1>6 DEF Counts
<1>8. ShowsFit(sessions, show, {}, surface, threads')
  BY <1>1, <1>2, <1>4 DEF ShowsFit
<1> HIDE DEF show
<1> QED
  BY <1>1, <1>2, <1>3, <1>5, <1>6, <1>7, <1>8, SettleKeeps

LEMMA TypeKeeps ==
    ASSUME Careful, InputsInv, NEW p \in Panes, NEW a \in Anchors, Type(p, a)
    PROVE  InputsInv'
<1>1. hydrated /\ p = ThePane /\ ThePane \in Panes
  BY MayWorkIs DEF Type
<1>2. /\ Counts /\ SessionsOK(sessions) /\ Fresh(sessions, fileHash) /\ saves \in SUBSET Sends
      /\ TextsFit(Bodies(sessions), saves, kept, typed, dropped, threads)
      /\ ShowsFit(sessions, shown, saves, surface, threads)
      /\ \A s \in saves : s.mounted = TRUE /\ s.pane = ThePane
  BY <1>1, HydratedIs
<1>3. /\ typed < MaxThoughts /\ typed' = typed + 1 /\ a \in shown[ThePane]
      /\ fileHash' = fileHash /\ kept' = kept /\ surface' = surface /\ hydrated' = hydrated
      /\ dropped' = dropped /\ threads' = threads
  BY <1>1 DEF Type, Steady, ComposerAt
<1> DEFINE ss == Enter(sessions, a, BodyAt(sessions, a) \cup {typed + 1})
<1>4. Settle(ss, shown, saves)
  BY <1>3 DEF Type
<1>5. fileHash \in Nat /\ typed \in Nat /\ dropped \in SUBSET (1..typed) /\ BodyAt(sessions, a) \in SUBSET Nat
  BY <1>2, BodiesAre, CautionsAssumption DEF Counts
<1>6. BodyAt(sessions, a) \cup {typed + 1} \in SUBSET Nat
  BY <1>5
<1>7. /\ SessionsOK(ss) /\ Fresh(ss, fileHash) /\ Opened(ss) = Opened(sessions) \cup {a}
      /\ BodyAt(ss, a) = BodyAt(sessions, a) \cup {typed + 1}
      /\ \A b : b # a => BodyAt(ss, b) = BodyAt(sessions, b)
      /\ a \in Opened(sessions) => FirstOpen(ss) = FirstOpen(sessions)
  BY <1>2, <1>5, <1>6, EnterIs
<1> HIDE DEF ss
<1>8. Bodies(ss) = [Bodies(sessions) EXCEPT ![a] = @ \cup {typed + 1}]
  BY <1>2, <1>7, BodiesIn, BodiesButOne
<1>9. kept[typed + 1] = 0
  BY <1>2, <1>3, <1>5, CautionsAssumption DEF Counts, Thoughts
<1>10. \A s \in saves : s.anchor = a => threads[a] = "pending"
  BY <1>1, <1>2 DEF Type, SavingIn
<1>11. TextsFit(Bodies(ss), saves, kept', typed', dropped', threads')
  <2>1. TextsFit(Bodies(sessions), saves, kept, typed, dropped, threads) /\ saves \in SUBSET Sends
    BY <1>2
  <2>2. TextsFit([Bodies(sessions) EXCEPT ![a] = @ \cup {typed + 1}], saves, kept, typed + 1, dropped, threads)
    BY <1>5, <1>9, <1>10, <2>1, TypedTexts
  <2> QED
    BY <1>3, <1>8, <2>2
<1>12. Counts'
  BY <1>2, <1>3, <1>5, CautionsAssumption DEF Counts, Thoughts
<1>13. \A s \in saves : threads[s.anchor] # "published" \/ s.anchor \in AnchorsOf(sessions)
  BY <1>2, SendsLive
<1>14. ShowsFit(ss, Composers(ss, shown), saves, surface, threads')
  BY <1>1, <1>2, <1>3, <1>7, <1>13, OpeningShows
<1> QED
  BY <1>1, <1>2, <1>3, <1>4, <1>7, <1>11, <1>12, <1>14, SettleKeeps

\* A composer that closes: its session is collapsed, discarded, or has none.
LEMMA ClosingShows ==
    ASSUME NEW ss, SessionsOK(ss), NEW tt, SessionsOK(tt), NEW show, NEW th, NEW th2, NEW a \in Anchors,
           ShowsFit(ss, show, {}, surface, th), Opened(tt) = Opened(ss) \ {a}, AnchorsOf(tt) \subseteq AnchorsOf(ss),
           \A b \in Anchors \ {a} : th2[b] = th[b]
    PROVE  ShowsFit(tt, Composers(tt, Without(show, ThePane, {a})), {}, surface, th2)
<1> DEFINE left == Without(show, ThePane, {a})
<1>1. CASE Opened(tt) # {}
  BY <1>1, OpenShows
<1>2. CASE Opened(tt) = {}
  <2>1. Composers(tt, left) = left
    BY <1>2, ComposersAre
  <2>2. /\ left \in [Panes -> SUBSET Anchors]
        /\ \A p \in Panes : left[p] \subseteq show[p]
        /\ ThePane \in Panes => left[ThePane] = show[ThePane] \ {a}
    BY DEF Without, ShowsFit
  <2> HIDE DEF left
  <2>3. surface = "rendered" => \A p \in Panes : \A b, c \in left[p] : b = c
    BY <2>2 DEF ShowsFit
  <2>4. ASSUME ThePane \in Panes, NEW b \in left[ThePane]
        PROVE  left[ThePane] = {b} \/ (th2[b] = "published" /\ b \notin AnchorsOf(tt))
    <3>1. b \in show[ThePane] /\ b # a /\ b \in Anchors
      BY <2>2, <2>4
    <3>2. CASE Opened(ss) = {}
      BY <2>2, <2>4, <3>1, <3>2 DEF ShowsFit
    <3>3. CASE Opened(ss) # {}
      BY <1>2, <2>4, <3>1, <3>3, OpenIs DEF ShowsFit
    <3> QED
      BY <3>2, <3>3
  <2>5. ShowsFit(tt, left, {}, surface, th2)
    BY <1>2, <2>2, <2>3, <2>4 DEF ShowsFit
  <2> QED
    BY <2>1, <2>5 DEF left
<1> QED
  BY <1>1, <1>2

LEMMA RequestCloseKeeps ==
    ASSUME Careful, InputsInv, NEW p \in Panes, NEW a \in Anchors, RequestClose(p, a)
    PROVE  InputsInv'
<1>1. hydrated /\ p = ThePane /\ ThePane \in Panes /\ saves = {}
  BY MayWorkIs DEF RequestClose, NoSaving, Careful
<1>2. /\ Counts /\ SessionsOK(sessions) /\ Fresh(sessions, fileHash)
      /\ TextsFit(Bodies(sessions), {}, kept, typed, dropped, threads)
      /\ ShowsFit(sessions, shown, {}, surface, threads)
  BY <1>1, HydratedIs
<1> DEFINE ss == Collapse(sessions, {a})
           show == Without(shown, ThePane, {a})
<1>3. Settle(ss, show, {})
  BY <1>1 DEF RequestClose
<1>4. /\ SessionsOK(ss) /\ Fresh(ss, fileHash) /\ Opened(ss) = Opened(sessions) \ {a}
      /\ AnchorsOf(ss) = AnchorsOf(sessions) /\ \A b : BodyAt(ss, b) = BodyAt(sessions, b)
  BY <1>2, CollapseIs
<1>5. /\ fileHash' = fileHash /\ kept' = kept /\ surface' = surface /\ hydrated' = hydrated /\ typed' = typed
      /\ dropped' = dropped /\ threads' = threads
  BY DEF RequestClose, Steady
<1> HIDE DEF ss
<1>6. Bodies(ss) = Bodies(sessions)
  BY <1>4, BodiesSame
<1>7. ShowsFit(ss, Composers(ss, show), {}, surface, threads')
  BY <1>2, <1>4, <1>5, ClosingShows
<1>8. Counts'
  BY <1>2, <1>5 DEF Counts
<1> HIDE DEF show
<1> QED
  BY <1>1, <1>2, <1>3, <1>4, <1>5, <1>6, <1>7, <1>8, SettleKeeps

LEMMA DiscardInputKeeps ==
    ASSUME Careful, InputsInv, NEW p \in Panes, NEW a \in Anchors, DiscardInput(p, a)
    PROVE  InputsInv'
<1>1. hydrated /\ p = ThePane /\ ThePane \in Panes /\ saves = {}
  BY MayWorkIs DEF DiscardInput, NoSaving, Careful
<1>2. /\ Counts /\ SessionsOK(sessions) /\ Fresh(sessions, fileHash)
      /\ TextsFit(Bodies(sessions), {}, kept, typed, dropped, threads)
      /\ ShowsFit(sessions, shown, {}, surface, threads)
  BY <1>1, HydratedIs
<1> DEFINE ss == Discard(sessions, a)
           show == Without(shown, ThePane, {a})
<1>3. Settle(ss, show, {})
  BY <1>1 DEF DiscardInput
<1>4. /\ SessionsOK(ss) /\ Fresh(ss, fileHash) /\ Opened(ss) = Opened(sessions) \ {a}
      /\ AnchorsOf(ss) \subseteq AnchorsOf(sessions)
      /\ BodyAt(ss, a) = {} /\ \A b : b # a => BodyAt(ss, b) = BodyAt(sessions, b)
  BY <1>2, DiscardIs
<1>5. /\ fileHash' = fileHash /\ kept' = kept /\ surface' = surface /\ hydrated' = hydrated /\ typed' = typed
      /\ dropped' = dropped \cup BodyAt(sessions, a) /\ threads' = threads
  BY DEF DiscardInput, Steady
<1> HIDE DEF ss
<1>6. Bodies(ss) = [Bodies(sessions) EXCEPT ![a] = {}] /\ Bodies(sessions)[a] = BodyAt(sessions, a)
  BY <1>2, <1>4, BodiesButOne, BodiesIn
<1>7. ShowsFit(ss, Composers(ss, show), {}, surface, threads')
  BY <1>2, <1>4, <1>5, ClosingShows
<1>8. TextsFit(Bodies(ss), {}, kept', typed', dropped', threads')
  <2>1. TextsFit([Bodies(sessions) EXCEPT ![a] = {}], {}, kept, typed, dropped \cup Bodies(sessions)[a], threads)
    BY <1>2, DroppedTexts
  <2> QED
    BY <1>5, <1>6, <2>1
<1>9. Counts'
  <2>1. BodyAt(sessions, a) \subseteq 1..typed
    BY <1>2, <1>6 DEF TextsFit
  <2> QED
    BY <1>2, <1>5, <2>1 DEF Counts
<1> HIDE DEF show
<1> QED
  BY <1>1, <1>3, <1>4, <1>5, <1>7, <1>8, <1>9, SettleKeeps

LEMMA DeletePendingDraftKeeps ==
    ASSUME Careful, InputsInv, NEW p \in Panes, NEW a \in Anchors, DeletePendingDraft(p, a)
    PROVE  InputsInv'
<1>1. hydrated /\ p = ThePane /\ ThePane \in Panes /\ saves = {} /\ BodyAt(sessions, a) = {}
  BY MayWorkIs DEF DeletePendingDraft, NoSaving, Careful
<1>2. /\ Counts /\ SessionsOK(sessions) /\ Fresh(sessions, fileHash)
      /\ TextsFit(Bodies(sessions), {}, kept, typed, dropped, threads)
      /\ ShowsFit(sessions, shown, {}, surface, threads)
  BY <1>1, HydratedIs
<1> DEFINE ss == Discard(sessions, a)
           show == Without(shown, ThePane, {a})
<1>3. Settle(ss, show, {})
  BY <1>1 DEF DeletePendingDraft
<1>4. /\ SessionsOK(ss) /\ Fresh(ss, fileHash) /\ Opened(ss) = Opened(sessions) \ {a}
      /\ AnchorsOf(ss) \subseteq AnchorsOf(sessions)
      /\ \A b : BodyAt(ss, b) = BodyAt(sessions, b)
  <2>1. /\ SessionsOK(ss) /\ Fresh(ss, fileHash) /\ Opened(ss) = Opened(sessions) \ {a}
        /\ AnchorsOf(ss) \subseteq AnchorsOf(sessions)
        /\ BodyAt(ss, a) = {} /\ \A b : b # a => BodyAt(ss, b) = BodyAt(sessions, b)
    BY <1>2, DiscardIs
  <2>2. \A b : BodyAt(ss, b) = BodyAt(sessions, b)
    BY <1>1, <2>1
  <2> QED
    BY <2>1, <2>2
<1>5. /\ fileHash' = fileHash /\ kept' = kept /\ surface' = surface /\ hydrated' = hydrated /\ typed' = typed
      /\ dropped' = dropped /\ threads' = [threads EXCEPT ![a] = "none"]
  BY DEF DeletePendingDraft
<1> HIDE DEF ss
<1>6. Bodies(ss) = Bodies(sessions)
  BY <1>4, BodiesSame
<1>7. \A b \in Anchors \ {a} : threads'[b] = threads[b]
  BY <1>2, <1>5 DEF Counts
<1>8. ShowsFit(ss, Composers(ss, show), {}, surface, threads')
  BY <1>2, <1>4, <1>7, ClosingShows
<1>9. TextsFit(Bodies(ss), {}, kept', typed', dropped', threads')
  BY <1>2, <1>5, <1>6, QuietTexts
<1>10. Counts'
  BY <1>2, <1>5 DEF Counts
<1> HIDE DEF show
<1> QED
  BY <1>1, <1>3, <1>4, <1>5, <1>8, <1>9, <1>10, SettleKeeps

LEMMA SameShows ==
    ASSUME NEW ss, SessionsOK(ss), NEW show, NEW sent, NEW th, ShowsFit(ss, show, sent, surface, th)
    PROVE  Composers(ss, show) = show
<1>1. CASE Opened(ss) = {}
  BY <1>1, ComposersAre
<1>2. CASE Opened(ss) # {}
  <2>1. show \in [Panes -> SUBSET Anchors]
        /\ \A p \in Panes : show[p] = IF surface = "rendered" THEN {FirstOpen(ss)} ELSE Opened(ss)
    BY <1>2 DEF ShowsFit
  <2> QED
    BY <1>2, <2>1, ComposersAre
<1> QED
  BY <1>1, <1>2

LEMMA ResumeKeeps ==
    ASSUME Careful, InputsInv, NEW p \in Panes, NEW a \in Anchors, Resume(p, a)
    PROVE  InputsInv'
<1>1. hydrated /\ p = ThePane /\ ThePane \in Panes /\ saves = {} /\ BodyAt(sessions, a) # {}
  BY MayWorkIs DEF Resume, NoSaving, Careful
<1>2. /\ Counts /\ SessionsOK(sessions) /\ Fresh(sessions, fileHash)
      /\ TextsFit(Bodies(sessions), {}, kept, typed, dropped, threads)
  BY <1>1, HydratedIs
<1> DEFINE others == IF surface = "rendered" THEN Anchors \ {a} ELSE {}
           left == Collapse(sessions, others)
           ss == Expand(left, a)
<1>3. Settle(ss, shown, {})
  BY <1>1 DEF Resume
<1> HIDE DEF others
<1>4. /\ SessionsOK(left) /\ Fresh(left, fileHash) /\ AnchorsOf(left) = AnchorsOf(sessions)
      /\ \A b : BodyAt(left, b) = BodyAt(sessions, b)
  BY <1>2, CollapseIs
<1>5. a \in AnchorsOf(left)
  BY <1>1, <1>2, <1>4, BodiesAre
<1> HIDE DEF left
<1>6. SessionsOK(ss) /\ Fresh(ss, fileHash) /\ Opened(ss) # {} /\ \A b : BodyAt(ss, b) = BodyAt(left, b)
  BY <1>4, <1>5, ExpandIs
<1> HIDE DEF ss
<1>7. Bodies(ss) = Bodies(sessions)
  BY <1>4, <1>6, BodiesSame
<1>8. /\ fileHash' = fileHash /\ kept' = kept /\ surface' = surface /\ hydrated' = hydrated /\ typed' = typed
      /\ dropped' = dropped /\ threads' = threads
  BY DEF Resume, Steady
<1>9. Counts'
  BY <1>2, <1>8 DEF Counts
<1>10. ShowsFit(ss, Composers(ss, shown), {}, surface, threads')
  BY <1>6, OpenShows
<1> QED
  BY <1>1, <1>2, <1>3, <1>6, <1>7, <1>8, <1>9, <1>10, SettleKeeps

LEMMA ReanchorHereKeeps ==
    ASSUME Careful, InputsInv, NEW p \in Panes, NEW a \in Anchors, ReanchorHere(p, a)
    PROVE  InputsInv'
<1>1. hydrated /\ p = ThePane /\ ThePane \in Panes /\ a \in shown[ThePane] /\ a \in AnchorsOf(sessions)
  BY MayWorkIs DEF ReanchorHere, IsStale
<1>2. /\ Counts /\ SessionsOK(sessions) /\ Fresh(sessions, fileHash) /\ saves \in SUBSET Sends
      /\ TextsFit(Bodies(sessions), saves, kept, typed, dropped, threads)
      /\ ShowsFit(sessions, shown, saves, surface, threads)
  BY <1>1, HydratedIs
<1> DEFINE ss == Reanchor(sessions, a)
<1>3. Settle(ss, shown, saves)
  BY DEF ReanchorHere
<1>4. fileHash \in Nat
  BY <1>2 DEF Counts
<1>5. /\ SessionsOK(ss) /\ Fresh(ss, fileHash) /\ Opened(ss) = Opened(sessions) \cup {a}
      /\ \A b : BodyAt(ss, b) = BodyAt(sessions, b)
      /\ a \in Opened(sessions) => FirstOpen(ss) = FirstOpen(sessions)
  BY <1>1, <1>2, <1>4, ReanchorIs
<1> HIDE DEF ss
<1>6. Bodies(ss) = Bodies(sessions)
  BY <1>5, BodiesSame
<1>7. /\ fileHash' = fileHash /\ kept' = kept /\ surface' = surface /\ hydrated' = hydrated /\ typed' = typed
      /\ dropped' = dropped /\ threads' = threads
  BY DEF ReanchorHere, Steady
<1>8. Counts'
  BY <1>2, <1>7 DEF Counts
<1>9. \A s \in saves : threads[s.anchor] # "published" \/ s.anchor \in AnchorsOf(sessions)
  BY <1>2, SendsLive
<1>10. ShowsFit(ss, Composers(ss, shown), saves, surface, threads')
  BY <1>1, <1>2, <1>5, <1>9, OpeningShows
<1> QED
  BY <1>1, <1>2, <1>3, <1>5, <1>6, <1>7, <1>8, <1>10, SettleKeeps

LEMMA SubmitKeeps ==
    ASSUME Careful, InputsInv, NEW p \in Panes, NEW a \in Anchors, Submit(p, a)
    PROVE  InputsInv'
<1>1. hydrated /\ p = ThePane /\ ThePane \in Panes
  BY MayWorkIs DEF Submit
<1>2. /\ Counts /\ SessionsOK(sessions) /\ Fresh(sessions, fileHash) /\ saves \in SUBSET Sends
      /\ TextsFit(Bodies(sessions), saves, kept, typed, dropped, threads)
      /\ ShowsFit(sessions, shown, saves, surface, threads)
      /\ \A s \in saves : s.mounted = TRUE /\ s.pane = ThePane
  BY <1>1, HydratedIs
<1> DEFINE text == BodyAt(sessions, a)
           continues == threads[a] = "pending"
           keeps == continues \/ (threads[a] = "none" /\ surface = "rendered")
           save == [pane |-> p, anchor |-> a, text |-> text, continues |-> continues, keeps |-> keeps,
                    latest |-> text, mounted |-> TRUE, served |-> FALSE]
           ss == IF keeps THEN Enter(sessions, a, {}) ELSE sessions
<1>3. /\ Settle(ss, shown, saves \cup {save}) /\ text # {} /\ a \in shown[ThePane]
      /\ \A s \in saves : s.anchor # a
  BY <1>1, <1>2 DEF Submit, ComposerAt, NotSaving, SavingIn
<1>4. fileHash \in Nat /\ typed \in Nat /\ dropped \in SUBSET (1..typed) /\ text \in SUBSET Nat
      /\ threads \in [Anchors -> {"none", "pending", "published"}]
  BY <1>2, BodiesAre, CautionsAssumption DEF Counts
<1>5. save \in Sends
  BY <1>1, <1>4 DEF Sends
<1>6. /\ save.anchor = a /\ save.text = text /\ ~save.served
      /\ (save.continues <=> threads[a] = "pending")
      /\ (save.keeps <=> threads[a] = "pending" \/ (threads[a] = "none" /\ surface = "rendered"))
      /\ ss = IF save.keeps THEN Enter(sessions, a, {}) ELSE sessions
  OBVIOUS
<1>7. Bodies(sessions)[a] = text
  BY <1>2, BodiesIn
<1> HIDE DEF save, ss, text, keeps, continues
<1>8. /\ SessionsOK(ss) /\ Fresh(ss, fileHash)
      /\ Bodies(ss) = IF save.keeps THEN [Bodies(sessions) EXCEPT ![a] = {}] ELSE Bodies(sessions)
  <2>1. CASE save.keeps
    <3>1. ss = Enter(sessions, a, {}) /\ {} \in SUBSET Nat
      BY <1>6, <2>1
    <3>2. /\ SessionsOK(ss) /\ Fresh(ss, fileHash) /\ BodyAt(ss, a) = {}
          /\ \A b : b # a => BodyAt(ss, b) = BodyAt(sessions, b)
      BY <1>2, <1>4, <3>1, EnterIs
    <3>3. Bodies(ss) = [Bodies(sessions) EXCEPT ![a] = {}]
      BY <3>2, BodiesButOne
    <3> QED
      BY <2>1, <3>2, <3>3
  <2>2. CASE ~save.keeps
    BY <1>2, <1>6, <2>2
  <2> QED
    BY <2>1, <2>2
<1>9. TextsFit(Bodies(ss), saves \cup {save}, kept, typed, dropped, threads)
  BY <1>2, <1>3, <1>4, <1>5, <1>6, <1>7, <1>8, SentTexts
<1>10. /\ fileHash' = fileHash /\ kept' = kept /\ surface' = surface /\ hydrated' = hydrated /\ typed' = typed
       /\ dropped' = dropped /\ threads' = threads
  BY DEF Submit, Steady
<1>11. Counts'
  BY <1>2, <1>10 DEF Counts
<1>12. \A s \in saves : threads[s.anchor] # "published" \/ s.anchor \in AnchorsOf(sessions)
  BY <1>2, SendsLive
<1>13. ShowsFit(ss, Composers(ss, shown), saves, surface, threads) /\ a \in Composers(ss, shown)[ThePane]
  <2>1. CASE save.keeps
    <3>1. ss = Enter(sessions, a, {}) /\ {} \in SUBSET Nat
      BY <1>6, <2>1
    <3>2. /\ Opened(ss) = Opened(sessions) \cup {a}
          /\ a \in Opened(sessions) => FirstOpen(ss) = FirstOpen(sessions)
      BY <1>2, <1>4, <3>1, EnterIs
    <3> QED
      BY <1>1, <1>2, <1>3, <1>8, <1>12, <3>2, OpeningShows
  <2>2. CASE ~save.keeps
    BY <1>2, <1>3, <1>6, <2>2, SameShows
  <2> QED
    BY <2>1, <2>2
<1>14. ShowsFit(ss, Composers(ss, shown), saves \cup {save}, surface, threads)
  BY <1>6, <1>13 DEF ShowsFit
<1>15. saves \cup {save} \in SUBSET Sends
  BY <1>2, <1>5
<1> QED
  BY <1>1, <1>3, <1>8, <1>9, <1>10, <1>11, <1>14, <1>15, SettleKeeps

LEMMA ServeKeeps ==
    ASSUME InputsInv, NEW s \in saves, Serve(s)
    PROVE  InputsInv'
<1>1. hydrated
  BY DEF InputsInv
<1>2. /\ Counts /\ saves \in SUBSET Sends /\ stored = sessions
      /\ TextsFit(Bodies(sessions), saves, kept, typed, dropped, threads)
      /\ ShowsFit(sessions, shown, saves, surface, threads)
      /\ \A r \in saves : r.latest = BodyAt(sessions, r.anchor)
  BY <1>1, HydratedIs DEF InputsInv
<1> DEFINE u == Answered(s)
<1>3. /\ ~s.served /\ saves' = (saves \ {s}) \cup {u}
      /\ kept' = CountedOnce(kept, s.text)
      /\ fileHash' = fileHash /\ surface' = surface /\ hydrated' = hydrated /\ typed' = typed
      /\ dropped' = dropped /\ threads' = threads /\ stored' = stored /\ sessions' = sessions /\ shown' = shown
  BY DEF Serve, Keep, Answered, CountedOnce
<1>4. kept \in [Thoughts -> {0, 1}] /\ typed \in 0..MaxThoughts /\ dropped \in SUBSET (1..typed)
  BY <1>2 DEF Counts
<1> HIDE DEF u
<1>5. /\ u \in Sends /\ u.anchor = s.anchor /\ u.latest = s.latest
      /\ kept' \in [Thoughts -> {0, 1}] /\ (\A t \in Thoughts : t > typed => kept'[t] = kept[t])
      /\ TextsFit(Bodies(sessions), (saves \ {s}) \cup {u}, kept', typed, dropped, threads)
  BY <1>2, <1>3, <1>4, ServedTexts DEF u
<1>6. Counts'
  BY <1>2, <1>3, <1>5 DEF Counts
<1>7. saves' \in SUBSET Sends /\ \A r \in saves' : r.latest = BodyAt(sessions', r.anchor)
  BY <1>2, <1>3, <1>5
<1>8. ShowsFit(sessions', shown', saves', surface', threads')
  BY <1>2, <1>3, <1>5 DEF ShowsFit
<1>9. TextsFit(Bodies(stored'), saves', kept', typed', dropped', threads')
  BY <1>2, <1>3, <1>5
<1> QED
  BY <1>1, <1>2, <1>3, <1>6, <1>7, <1>8, <1>9 DEF InputsInv

\* A composer that has saved goes with its session, or goes on in its thread.
LEMMA AnsweredShows ==
    ASSUME NEW ss, SessionsOK(ss), NEW sent \in SUBSET Sends, NEW counts, NEW n, NEW gone,
           NEW th \in [Anchors -> {"none", "pending", "published"}],
           TextsFit(Bodies(ss), sent, counts, n, gone, th), NEW show, ShowsFit(ss, show, sent, surface, th), NEW s \in sent,
           NEW tt, tt = IF s.continues THEN ss ELSE Discard(ss, s.anchor),
           NEW left, left = IF s.keeps THEN show ELSE Without(show, ThePane, {s.anchor})
    PROVE  ShowsFit(tt, Composers(tt, left), sent \ {s}, surface, [th EXCEPT ![s.anchor] = "pending"])
<1> DEFINE th2 == [th EXCEPT ![s.anchor] = "pending"]
           a == s.anchor
<1>1. /\ s \in Sends /\ ThePane \in Panes /\ a \in Anchors /\ a \in show[ThePane]
      /\ s.continues => s.keeps
      /\ \A r \in sent \ {s} : r.anchor # a /\ r.anchor \in show[ThePane]
  <2>1. s \in Sends /\ s.anchor \in Anchors /\ s.pane \in {ThePane} \cap Panes
    BY DEF Sends
  <2>2. ThePane \in Panes
    BY <2>1
  <2>3. \A r \in sent : r.anchor \in show[ThePane]
    BY DEF ShowsFit
  <2>4. \A r \in sent : s.anchor = r.anchor => s = r
    BY DEF TextsFit
  <2>5. SendFits(s, Bodies(ss), counts, n, gone, th)
    BY DEF TextsFit
  <2>6. s.continues => s.keeps
    BY <2>5 DEF SendFits
  <2> QED
    BY <2>1, <2>2, <2>3, <2>4, <2>6
<1>2. Opened(ss) = {} => show[ThePane] = {a}
  BY <1>1, SendsLive DEF ShowsFit
<1>3. /\ left \in [Panes -> SUBSET Anchors] /\ \A p \in Panes : left[p] \subseteq show[p]
  BY DEF Without, ShowsFit
<1>4. surface = "rendered" => \A p \in Panes : \A b, c \in left[p] : b = c
  BY <1>3 DEF ShowsFit
<1> HIDE DEF th2, a
<1>5. CASE s.continues
  <2>1. tt = ss /\ left = show /\ Composers(tt, left) = show
    BY <1>1, <1>5, SameShows
  <2>2. \A b \in show[ThePane] : Opened(ss) = {} => show[ThePane] = {b}
    BY <1>2
  <2>3. ShowsFit(ss, show, sent \ {s}, surface, th2)
    BY <2>2 DEF ShowsFit
  <2> QED
    BY <2>1, <2>3 DEF th2
<1>6. CASE ~s.continues
  <2>1. SessionsOK(tt) /\ Opened(tt) = Opened(ss) \ {a}
    BY <1>6, DiscardIs DEF a
  <2>2. CASE Opened(tt) # {}
    <3>1. ShowsFit(tt, Composers(tt, left), {}, surface, th2)
      BY <2>1, <2>2, OpenShows
    <3>2. \A r \in sent \ {s} : r.anchor \in Composers(tt, left)[ThePane]
      <4>1. Opened(ss) # {}
        BY <2>1, <2>2
      <4>2. CASE surface = "rendered"
        BY <1>1, <4>2 DEF ShowsFit
      <4>3. CASE surface # "rendered"
        BY <1>1, <2>1, <2>2, <4>1, <4>3, ComposersAre DEF ShowsFit
      <4> QED
        BY <4>2, <4>3
    <3>3. ShowsFit(tt, Composers(tt, left), sent \ {s}, surface, th2)
      BY <3>1, <3>2 DEF ShowsFit
    <3> QED
      BY <3>3 DEF th2
  <2>3. CASE Opened(tt) = {}
    <3>1. Composers(tt, left) = left
      BY <2>1, <2>3, ComposersAre
    <3>2. show[ThePane] = {a}
      <4>1. CASE Opened(ss) # {}
        BY <1>1, <2>1, <2>3, <4>1, OpenIs DEF ShowsFit
      <4> QED
        BY <1>2, <4>1
    <3>3. \A r \in sent \ {s} : FALSE
      BY <1>1, <3>2
    <3>4. \A b \in left[ThePane] : left[ThePane] = {b}
      BY <1>1, <1>3, <3>2
    <3>5. ShowsFit(tt, left, sent \ {s}, surface, th2)
      BY <1>3, <1>4, <2>3, <3>3, <3>4 DEF ShowsFit
    <3> QED
      BY <3>1, <3>5 DEF th2
  <2> QED
    BY <2>2, <2>3
<1> QED
  BY <1>5, <1>6

LEMMA DraftCreatedKeeps ==
    ASSUME InputsInv, NEW s \in saves, DraftCreated(s)
    PROVE  InputsInv'
<1>1. hydrated
  BY DEF InputsInv
<1>2. /\ Counts /\ SessionsOK(sessions) /\ Fresh(sessions, fileHash) /\ saves \in SUBSET Sends
      /\ TextsFit(Bodies(sessions), saves, kept, typed, dropped, threads)
      /\ ShowsFit(sessions, shown, saves, surface, threads)
      /\ s.pane = ThePane /\ s.anchor \in Anchors
  BY <1>1, HydratedIs DEF Sends
<1> DEFINE ss == IF s.continues THEN sessions ELSE Discard(sessions, s.anchor)
           show == IF s.keeps THEN shown ELSE Without(shown, ThePane, {s.anchor})
           left == saves \ {s}
<1>3. /\ s.served /\ Settle(ss, show, left) /\ threads' = [threads EXCEPT ![s.anchor] = "pending"]
      /\ fileHash' = fileHash /\ kept' = kept /\ surface' = surface /\ hydrated' = hydrated /\ typed' = typed
      /\ dropped' = dropped
  BY <1>2 DEF DraftCreated
<1>4. /\ kept \in [Thoughts -> {0, 1}] /\ typed \in 0..MaxThoughts /\ dropped \in SUBSET (1..typed)
      /\ threads \in [Anchors -> {"none", "pending", "published"}]
  BY <1>2 DEF Counts
<1>5. /\ SessionsOK(ss) /\ Fresh(ss, fileHash)
      /\ Bodies(ss) = IF s.continues THEN Bodies(sessions) ELSE [Bodies(sessions) EXCEPT ![s.anchor] = {}]
  <2>1. CASE s.continues
    BY <1>2, <2>1
  <2>2. CASE ~s.continues
    <3>1. /\ SessionsOK(ss) /\ Fresh(ss, fileHash) /\ BodyAt(ss, s.anchor) = {}
          /\ \A b : b # s.anchor => BodyAt(ss, b) = BodyAt(sessions, b)
      BY <1>2, <2>2, DiscardIs
    <3>2. Bodies(ss) = [Bodies(sessions) EXCEPT ![s.anchor] = {}]
      BY <1>2, <3>1, BodiesButOne
    <3> QED
      BY <2>2, <3>1, <3>2
  <2> QED
    BY <2>1, <2>2
<1>6. ShowsFit(ss, Composers(ss, show), left, surface, threads')
  BY <1>2, <1>3, <1>4, AnsweredShows
<1> HIDE DEF ss, show
<1>7. TextsFit(Bodies(ss), left, kept', typed', dropped', threads')
  BY <1>2, <1>3, <1>4, <1>5, AnsweredTexts
<1>8. Counts'
  BY <1>2, <1>3 DEF Counts
<1>9. left \in SUBSET Sends
  BY <1>2
<1> HIDE DEF left
<1> QED
  BY <1>1, <1>3, <1>5, <1>6, <1>7, <1>8, <1>9, SettleKeeps

LEMMA SaveFailsKeeps ==
    ASSUME InputsInv, NEW s \in saves, SaveFails(s)
    PROVE  InputsInv'
<1>1. hydrated
  BY DEF InputsInv
<1>2. /\ Counts /\ SessionsOK(sessions) /\ Fresh(sessions, fileHash) /\ saves \in SUBSET Sends
      /\ TextsFit(Bodies(sessions), saves, kept, typed, dropped, threads)
      /\ ShowsFit(sessions, shown, saves, surface, threads)
      /\ s.pane = ThePane /\ s.anchor \in Anchors /\ s.latest = BodyAt(sessions, s.anchor)
      /\ s.text \in SUBSET Nat /\ ThePane \in Panes
  BY <1>1, HydratedIs DEF Sends
<1> DEFINE body == s.text \cup BodyAt(sessions, s.anchor)
           ss == IF s.keeps THEN Enter(sessions, s.anchor, body) ELSE sessions
           left == saves \ {s}
<1>3. /\ ~s.served /\ Settle(ss, shown, left)
      /\ fileHash' = fileHash /\ kept' = kept /\ surface' = surface /\ hydrated' = hydrated /\ typed' = typed
      /\ dropped' = dropped /\ threads' = threads
  BY <1>2 DEF SaveFails, Steady, RestoredBody
<1>4. /\ kept \in [Thoughts -> {0, 1}] /\ typed \in 0..MaxThoughts /\ dropped \in SUBSET (1..typed)
      /\ fileHash \in Nat /\ body \in SUBSET Nat
  BY <1>2, BodiesAre DEF Counts
<1>5. Bodies(sessions)[s.anchor] = BodyAt(sessions, s.anchor)
  BY <1>2, BodiesIn
<1>6. left \in SUBSET Sends /\ left \subseteq saves
  BY <1>2
<1>7. ShowsFit(sessions, shown, left, surface, threads)
  BY <1>2, <1>6 DEF ShowsFit
<1>8. \A r \in left : threads[r.anchor] # "published" \/ r.anchor \in AnchorsOf(sessions)
  BY <1>2, <1>6, SendsLive
<1>9. s.anchor \in shown[ThePane]
  BY <1>2 DEF ShowsFit
<1>10. /\ SessionsOK(ss) /\ Fresh(ss, fileHash)
       /\ Bodies(ss) = IF s.keeps THEN [Bodies(sessions) EXCEPT ![s.anchor] = s.text \cup @] ELSE Bodies(sessions)
       /\ ShowsFit(ss, Composers(ss, shown), left, surface, threads)
  <2>1. CASE s.keeps
    <3>1. ss = Enter(sessions, s.anchor, body)
      BY <2>1
    <3> HIDE DEF ss
    <3>2. /\ SessionsOK(ss) /\ Fresh(ss, fileHash) /\ BodyAt(ss, s.anchor) = body
          /\ \A b : b # s.anchor => BodyAt(ss, b) = BodyAt(sessions, b)
          /\ Opened(ss) = Opened(sessions) \cup {s.anchor}
          /\ s.anchor \in Opened(sessions) => FirstOpen(ss) = FirstOpen(sessions)
      BY <1>2, <1>4, <3>1, EnterIs
    <3>3. Bodies(ss) = [Bodies(sessions) EXCEPT ![s.anchor] = body]
      BY <1>2, <3>2, BodiesButOne
    <3>4. [Bodies(sessions) EXCEPT ![s.anchor] = body] = [Bodies(sessions) EXCEPT ![s.anchor] = s.text \cup @]
      BY <1>5
    <3>5. ShowsFit(ss, Composers(ss, shown), left, surface, threads)
      BY <1>2, <1>6, <1>7, <1>8, <1>9, <3>2, OpeningShows
    <3> QED
      BY <2>1, <3>2, <3>3, <3>4, <3>5
  <2>2. CASE ~s.keeps
    BY <1>2, <1>7, <2>2, SameShows
  <2> QED
    BY <2>1, <2>2
<1> HIDE DEF ss, body
<1>11. TextsFit(Bodies(ss), left, kept', typed', dropped', threads')
  BY <1>2, <1>3, <1>4, <1>10, FailedTexts
<1>12. Counts'
  BY <1>2, <1>3 DEF Counts
<1> HIDE DEF left
<1> QED
  BY <1>1, <1>3, <1>6, <1>10, <1>11, <1>12, SettleKeeps

LEMMA PublishKeeps ==
    ASSUME InputsInv, Publish
    PROVE  InputsInv'
<1>1. hydrated /\ saves = {}
  BY DEF Publish
<1>2. /\ Counts /\ SessionsOK(sessions) /\ Fresh(sessions, fileHash)
      /\ TextsFit(Bodies(sessions), {}, kept, typed, dropped, threads)
      /\ ShowsFit(sessions, shown, {}, surface, threads)
  BY <1>1, HydratedIs
<1> DEFINE due == {a \in Anchors : threads[a] = "pending"}
           ss == DiscardEmptyAnchors(sessions, due)
<1>3. Settle(ss, shown, {})
  BY <1>1 DEF Publish
<1>4. /\ fileHash' = fileHash /\ kept' = kept /\ surface' = surface /\ hydrated' = hydrated /\ typed' = typed
      /\ dropped' = dropped /\ threads' = [a \in Anchors |-> IF a \in due THEN "published" ELSE threads[a]]
  BY DEF Publish
<1>5. /\ SessionsOK(ss) /\ Fresh(ss, fileHash) /\ \A b : BodyAt(ss, b) = BodyAt(sessions, b)
      /\ \A b : b \in AnchorsOf(ss) <=> b \in AnchorsOf(sessions) /\ (b \notin due \/ BodyAt(sessions, b) # {})
      /\ \A b : b \in Opened(ss) <=> b \in Opened(sessions) /\ (b \notin due \/ BodyAt(sessions, b) # {})
  BY <1>2, DiscardEmptyIs
<1> HIDE DEF ss
<1>6. Bodies(ss) = Bodies(sessions)
  BY <1>5, BodiesSame
<1>7. Counts'
  BY <1>2, <1>4 DEF Counts
<1>8. TextsFit(Bodies(ss), {}, kept', typed', dropped', threads')
  BY <1>2, <1>4, <1>6, QuietTexts
<1>9. ShowsFit(ss, Composers(ss, shown), {}, surface, threads')
  <2>1. CASE Opened(ss) # {}
    BY <1>5, <2>1, OpenShows
  <2>2. CASE Opened(ss) = {}
    <3>1. Composers(ss, shown) = shown
      BY <1>5, <2>2, ComposersAre
    <3>2. ASSUME ThePane \in Panes, NEW a \in shown[ThePane]
          PROVE  shown[ThePane] = {a} \/ (threads'[a] = "published" /\ a \notin AnchorsOf(ss))
      <4>1. a \in Anchors
        BY <1>2, <3>2 DEF ShowsFit
      <4>2. CASE Opened(sessions) = {}
        BY <1>2, <1>4, <1>5, <3>2, <4>1, <4>2 DEF ShowsFit
      <4>3. CASE Opened(sessions) # {}
        BY <1>2, <1>4, <1>5, <2>2, <3>2, <4>1, <4>3, OpenIs DEF ShowsFit
      <4> QED
        BY <4>2, <4>3
    <3>3. ShowsFit(ss, shown, {}, surface, threads')
      BY <1>2, <2>2, <3>2 DEF ShowsFit
    <3> QED
      BY <3>1, <3>3
  <2> QED
    BY <2>1, <2>2
<1> QED
  BY <1>1, <1>3, <1>4, <1>5, <1>7, <1>8, <1>9, SettleKeeps

LEMMA NoSessions ==
    /\ SessionsOK(<<>>) /\ AnchorsOf(<<>>) = {} /\ Opened(<<>>) = {} /\ \A a : BodyAt(<<>>, a) = {}
    /\ \A hash : Fresh(<<>>, hash) /\ MarkPathVersion(<<>>, hash) = <<>>
  BY DEF AnchorsOf, Opened, BodyAt, MarkPathVersion, SessionsOK, Fresh

LEMMA FileChangesKeeps ==
    ASSUME InputsInv, FileChanges
    PROVE  InputsInv'
<1> DEFINE ss == MarkPathVersion(sessions, fileHash')
<1>1. /\ fileHash' = fileHash + 1 /\ Settle(ss, shown, saves) /\ kept' = kept /\ surface' = surface
      /\ hydrated' = hydrated /\ typed' = typed /\ dropped' = dropped /\ threads' = threads
  BY DEF FileChanges
<1>2. Counts /\ SessionsOK(sessions) /\ fileHash' \in Nat
  BY <1>1 DEF InputsInv, Counts
<1>3. Counts'
  BY <1>1, <1>2 DEF Counts
<1>4. /\ SessionsOK(ss) /\ Fresh(ss, fileHash') /\ AnchorsOf(ss) = AnchorsOf(sessions)
      /\ \A b : BodyAt(ss, b) = BodyAt(sessions, b)
      /\ Opened(ss) = Opened(sessions) /\ (Opened(sessions) # {} => FirstOpen(ss) = FirstOpen(sessions))
  BY <1>2, MarkIs
<1>5. CASE hydrated
  <2>1. /\ saves \in SUBSET Sends
        /\ TextsFit(Bodies(sessions), saves, kept, typed, dropped, threads)
        /\ ShowsFit(sessions, shown, saves, surface, threads)
    BY <1>5, HydratedIs
  <2> HIDE DEF ss
  <2>2. Bodies(ss) = Bodies(sessions)
    BY <1>4, BodiesSame
  <2>3. ShowsFit(ss, shown, saves, surface, threads)
    BY <1>4, <2>1 DEF ShowsFit
  <2>4. Composers(ss, shown) = shown
    BY <1>4, <2>3, SameShows
  <2> QED
    BY <1>1, <1>3, <1>4, <1>5, <2>1, <2>2, <2>3, <2>4, SettleKeeps
<1>6. CASE ~hydrated
  BY <1>1, <1>3, <1>6, NoSessions, ComposersAre DEF InputsInv, Settle
<1> QED
  BY <1>5, <1>6

LEMMA ReloadKeeps ==
    ASSUME Careful, InputsInv, Reload
    PROVE  InputsInv'
<1>1. hydrated /\ saves = {}
  BY DEF Reload, NoSaving, Careful
<1>2. /\ sessions' = <<>> /\ shown' = [p \in Panes |-> {}] /\ saves' = {} /\ hydrated' = FALSE
      /\ fileHash' = fileHash /\ threads' = threads /\ stored' = stored /\ surface' = surface
      /\ typed' = typed /\ dropped' = dropped
  BY DEF Reload
<1>3. Counts /\ SessionsOK(stored) /\ TextsFit(Bodies(stored), {}, kept, typed, dropped, threads)
  BY <1>1 DEF InputsInv
<1>4. kept' = kept
  BY <1>1, <1>3 DEF Reload, Texts, Counts, Keep
<1>5. Counts'
  BY <1>2, <1>3, <1>4 DEF Counts
<1>6. SessionsOK(<<>>) /\ Opened(<<>>) = {} /\ Fresh(<<>>, fileHash)
  BY NoSessions
<1>7. ShowsFit(<<>>, [p \in Panes |-> {}], {}, surface, threads)
  BY <1>6 DEF ShowsFit
<1> QED
  BY <1>2, <1>3, <1>4, <1>5, <1>6, <1>7 DEF InputsInv

LEMMA SwitchSurfaceKeeps ==
    ASSUME InputsInv, SwitchSurface
    PROVE  InputsInv'
  BY NoSessions DEF SwitchSurface, InputsInv, Counts, ShowsFit

LEMMA HydrateKeeps ==
    ASSUME InputsInv, Hydrate
    PROVE  InputsInv'
<1>1. ~hydrated /\ sessions = <<>> /\ saves = {} /\ \A p \in Panes : shown[p] = {}
  BY DEF Hydrate, InputsInv
<1>2. /\ Counts /\ SessionsOK(stored) /\ TextsFit(Bodies(stored), {}, kept, typed, dropped, threads)
      /\ ShowsFit(<<>>, shown, {}, surface, threads)
  BY <1>1 DEF InputsInv
<1> DEFINE left == Restored(stored)
           ss == MarkPathVersion(left, fileHash)
<1>3. /\ sessions' = ss /\ stored' = ss /\ shown' = Composers(ss, shown) /\ hydrated' = TRUE
      /\ fileHash' = fileHash /\ threads' = threads /\ surface' = surface /\ kept' = kept /\ saves' = {}
      /\ typed' = typed /\ dropped' = dropped
  BY <1>1 DEF Hydrate
<1>4. fileHash \in Nat
  BY <1>2 DEF Counts
<1>5. SessionsOK(left) /\ \A b : BodyAt(left, b) = BodyAt(stored, b)
  BY <1>2, RestoredIs
<1> HIDE DEF left
<1>6. SessionsOK(ss) /\ Fresh(ss, fileHash) /\ \A b : BodyAt(ss, b) = BodyAt(left, b)
  BY <1>4, <1>5, MarkIs
<1> HIDE DEF ss
<1>7. Bodies(ss) = Bodies(stored)
  BY <1>5, <1>6, BodiesSame
<1>8. Counts'
  BY <1>2, <1>3 DEF Counts
<1>9. ShowsFit(ss, Composers(ss, shown), {}, surface, threads)
  <2>1. CASE Opened(ss) # {}
    BY <1>6, <2>1, OpenShows
  <2>2. CASE Opened(ss) = {}
    BY <1>1, <1>2, <1>6, <2>2, ComposersAre DEF ShowsFit
  <2> QED
    BY <2>1, <2>2
<1> QED
  BY <1>2, <1>3, <1>6, <1>7, <1>8, <1>9 DEF InputsInv

LEMMA InputsGoOn ==
    ASSUME Careful, InputsInv, InputsNext
    PROVE  InputsInv'
  BY StartKeeps, OpenThreadKeeps, TypeKeeps, RequestCloseKeeps, DiscardInputKeeps, ResumeKeeps, ReanchorHereKeeps,
     SubmitKeeps, DeletePendingDraftKeeps, ServeKeeps, DraftCreatedKeeps, SaveFailsKeeps, PublishKeeps,
     FileChangesKeeps, ReloadKeeps, SwitchSurfaceKeeps, HydrateKeeps DEF InputsNext

LEMMA AtMostOne ==
    ASSUME NEW S, \A a, b \in S : a = b
    PROVE  Cardinality(S) <= 1
<1>1. CASE S = {}
  <2>1. Cardinality({}) = 0
    BY FS_EmptySet
  <2> QED
    BY <1>1, <2>1
<1>2. CASE S # {}
  BY <1>2, FS_Singleton
<1> QED
  BY <1>1, <1>2

\* What the invariant of the sessions says of the texts that are shown or stored.
InputsAreRight == InputsTypeOK /\ TypedTextIsKept /\ SavedOnce /\ FreshIsCurrent /\ DiscardedStaysGone

LEMMA TextsAreKept ==
    ASSUME Counts, SessionsOK(sessions), SessionsOK(stored), Fresh(sessions, fileHash),
           NEW ss, SessionsOK(ss), ss = sessions \/ (~hydrated /\ ss = stored),
           \A b : BodyAt(sessions, b) \subseteq BodyAt(ss, b) /\ BodyAt(stored, b) \subseteq BodyAt(ss, b),
           \A a \in Anchors : BodyAt(ss, a) \cap dropped = {},
           \A t \in 1..typed : \/ t \in dropped \/ kept[t] > 0 \/ (\E s \in saves : t \in s.text)
                               \/ \E a \in Anchors : t \in BodyAt(ss, a),
           \A s \in saves : s.text # {},
           surface = "rendered" => \A p \in Panes : \A a, b \in shown[p] : a = b
    PROVE  InputsAreRight
<1>1. InputsTypeOK
  BY AtMostOne DEF Counts, SessionsOK, InputsTypeOK
<1>2. \A t : t \in Texts(saves) <=> \E s \in saves : t \in s.text
  BY DEF Texts
<1>3. \A t : t \in Texts(ToSet(ss)) <=> \E a \in Anchors : t \in BodyAt(ss, a)
  BY BodiesAre
<1>4. TypedTextIsKept
  BY <1>2, <1>3 DEF Texts, TypedTextIsKept
<1>5. SavedOnce
  BY DEF SavedOnce, Counts
<1>6. FreshIsCurrent
  BY DEF FreshIsCurrent, Fresh
<1>7. DiscardedStaysGone
  BY BodiesAre DEF DiscardedStaysGone, Texts
<1> QED
  BY <1>1, <1>4, <1>5, <1>6, <1>7 DEF InputsAreRight

LEMMA InputsAreKept ==
    ASSUME InputsInv
    PROVE  InputsAreRight
  BY NoSessions, BodiesIn, TextsAreKept DEF InputsInv, TextsFit, SendFits, ShowsFit

LEMMA InputsStart ==
    ASSUME InputsInit
    PROVE  InputsInv
<1>1. /\ fileHash = 1 /\ threads = [a \in Anchors |-> "none"] /\ kept = [t \in Thoughts |-> 0]
      /\ stored = <<>> /\ surface \in {"rendered", "source"} /\ hydrated = FALSE
      /\ sessions = <<>> /\ shown = [p \in Panes |-> {}] /\ saves = {}
      /\ typed = 0 /\ dropped = {}
  BY DEF InputsInit
<1>2. Counts
  <2>1. 0 \in 0..MaxThoughts /\ {} \in SUBSET (1..0)
    BY CautionsAssumption
  <2>2. kept \in [Thoughts -> {0, 1}] /\ \A t \in Thoughts : kept[t] = 0
    BY <1>1
  <2>3. threads \in [Anchors -> {"none", "pending", "published"}]
    BY <1>1
  <2> QED
    BY <1>1, <2>1, <2>2, <2>3 DEF Counts
<1>3. SessionsOK(<<>>) /\ Opened(<<>>) = {} /\ Fresh(<<>>, fileHash) /\ \A a : BodyAt(<<>>, a) = {}
  BY NoSessions
<1>4. Bodies(<<>>) = [a \in Anchors |-> {}]
  BY <1>3 DEF Bodies
<1>5. TextsFit(Bodies(<<>>), {}, kept, 0, {}, threads)
  BY <1>4 DEF TextsFit
<1>6. ShowsFit(<<>>, [p \in Panes |-> {}], {}, surface, threads)
  BY <1>3 DEF ShowsFit
<1> QED
  BY <1>1, <1>2, <1>3, <1>5, <1>6 DEF InputsInv

-----------------------------------------------------------------------------
(* The composer of selected text *)

Answers == [anchor : Anchors, text : SUBSET Nat, hash : Nat, mounted : {TRUE}]
Held == [anchor : Anchors, hash : Nat]

\* What is sent stays in its session until it is saved or discarded, and no thought is saved and
\* in a session too.
SelectionTexts(body, sent, counts, n, gone) ==
    /\ body \in [Anchors -> SUBSET ((1..n) \ gone)]
    /\ \A a, b \in Anchors : a # b => body[a] \cap body[b] = {}
    /\ \A t \in 1..n : t \in gone \/ counts[t] > 0 \/ \E a \in Anchors : t \in body[a]
    /\ \A a \in Anchors : \A t \in body[a] : counts[t] = 0
    /\ \A s \in sent : /\ s.text # {} /\ s.text \subseteq 1..n /\ \A t \in s.text : counts[t] = 0
                       /\ body[s.anchor] = s.text \/ (body[s.anchor] = {} /\ s.text \subseteq gone)
    /\ \A s, r \in sent : s = r

\* The selection that is held has a session, which is stale when the selection is of an older
\* version.
HeldFits(hh, ss, hash) ==
    hh = <<>> \/ \E h \in Held : hh = <<h>> /\ h.anchor \in AnchorsOf(ss) /\ (h.hash = hash \/ h.anchor \in Stale(ss))

SelectionInv ==
    /\ Counts /\ stored = <<>> /\ hydrated = FALSE /\ \A p \in Panes : shown[p] = {}
    /\ SessionsOK(sessions) /\ Fresh(sessions, fileHash)
    /\ HeldFits(held, sessions, fileHash) /\ saves \in SUBSET Answers
    /\ SelectionTexts(Bodies(sessions), saves, kept, typed, dropped)

LEMMA NewestIs ==
    ASSUME NEW ss, SessionsOK(ss), NEW hh, NEW all, all = OpenSessions(ss) \o hh
    PROVE  /\ \A h : hh = <<h>> => all # <<>> /\ Last(all) = h
           /\ hh = <<>> => all = OpenSessions(ss) /\ (all # <<>> <=> Opened(ss) # {})
<1>1. /\ OpenSessions(ss) \in Seq(Sessions) /\ (OpenSessions(ss) = <<>> <=> Opened(ss) = {})
      /\ \A r : r \in ToSet(OpenSessions(ss)) <=> r \in ToSet(ss) /\ ~r.collapsed
  BY OpenIs
<1> DEFINE open == OpenSessions(ss)
<1>2. all = open \o hh
  OBVIOUS
<1> HIDE DEF open
<1>3. open \in Seq(Sessions)
  BY <1>1 DEF open
<1>4. ASSUME NEW h, hh = <<h>> PROVE all # <<>> /\ Last(all) = h
  BY <1>2, <1>3, <1>4, ConcatProperties DEF Last
<1>5. ASSUME hh = <<>> PROVE all = open
  BY <1>2, <1>3, <1>5
<1> QED
  BY <1>1, <1>4, <1>5 DEF open

LEMMA NewestOpenIs ==
    ASSUME NEW ss, SessionsOK(ss), Opened(ss) # {}
    PROVE  \E i \in DOMAIN ss : ~ss[i].collapsed /\ Last(OpenSessions(ss)) = ss[i]
  BY OpenIs DEF Last, ToSet

LEMMA EffectiveIs ==
    ASSUME SessionsOK(sessions), Fresh(sessions, fileHash), HeldFits(held, sessions, fileHash), ComposerIsShown
    PROVE  /\ Effective.anchor \in AnchorsOf(sessions) /\ Effective.anchor \in Anchors /\ Effective.hash \in Nat
           /\ Effective.hash = fileHash \/ Effective.anchor \in Stale(sessions)
           /\ held # <<>> => held = <<Effective>> /\ Effective \in Held
<1>1. SessionsOK(sessions) /\ Fresh(sessions, fileHash) /\ HeldFits(held, sessions, fileHash)
  OBVIOUS
<1>2. AnchorsOf(sessions) \subseteq Anchors
  BY <1>1, BodiesAre
<1>3. CASE held # <<>>
  BY <1>1, <1>2, <1>3, NewestIs DEF HeldFits, Effective, Candidates, Held
<1>4. CASE held = <<>>
  <2>1. Opened(sessions) # {}
    BY <1>1, <1>4, NewestIs DEF ComposerIsShown, Candidates
  <2>2. PICK i \in DOMAIN sessions : Effective = sessions[i]
    BY <1>1, <1>4, <2>1, NewestIs, NewestOpenIs DEF Candidates, Effective
  <2>3. sessions[i] \in Sessions /\ sessions[i].anchor \in AnchorsOf(sessions)
    BY <1>1, AtIs
  <2>4. sessions[i].stale \/ sessions[i].hash = fileHash
    BY <1>1 DEF Fresh
  <2>5. sessions[i].stale => sessions[i].anchor \in Stale(sessions)
    BY DEF Stale
  <2> QED
    BY <1>4, <2>2, <2>3, <2>4, <2>5 DEF Sessions
<1> QED
  BY <1>3, <1>4

LEMMA SelectionStays ==
    ASSUME SelectionInv, SelectionRest, SessionsOK(sessions'), Fresh(sessions', fileHash'), fileHash' \in Nat,
           typed' \in 0..MaxThoughts, dropped' \in SUBSET (1..typed'), kept' \in [Thoughts -> {0, 1}],
           \A t \in Thoughts : t > typed' => kept'[t] = 0,
           saves' \in SUBSET Answers, HeldFits(held', sessions', fileHash'),
           SelectionTexts(Bodies(sessions'), saves', kept', typed', dropped')
    PROVE  SelectionInv'
  BY DEF SelectionInv, SelectionRest, Counts

LEMMA SelectionIs ==
    ASSUME SelectionInv
    PROVE  /\ fileHash \in Nat /\ typed \in 0..MaxThoughts /\ typed \in Nat /\ dropped \in SUBSET (1..typed)
           /\ kept \in [Thoughts -> {0, 1}] /\ (\A t \in Thoughts : t > typed => kept[t] = 0)
           /\ SessionsOK(sessions) /\ Fresh(sessions, fileHash)
           /\ HeldFits(held, sessions, fileHash) /\ saves \in SUBSET Answers
           /\ SelectionTexts(Bodies(sessions), saves, kept, typed, dropped)
  BY DEF SelectionInv, Counts

LEMMA HoldSelectionKeeps ==
    ASSUME SelectionInv, NEW a \in Anchors, HoldSelection(a)
    PROVE  SelectionInv'
  BY SelectionIs, BodiesAre, EnterIs, BodiesSame, SelectionStays DEF HoldSelection, HeldFits, Held

LEMMA LetGoKeeps ==
    ASSUME SelectionInv, LetGo
    PROVE  SelectionInv'
  BY SelectionIs, SelectionStays DEF LetGo, inputVars, SelectionRest, HeldFits

LEMMA WriteIs ==
    ASSUME NEW ss, SessionsOK(ss), NEW a \in AnchorsOf(ss), a \notin Stale(ss), NEW text \in SUBSET Nat,
           fileHash \in Nat, NEW draft, draft.anchor = a, draft.hash = fileHash, Fresh(ss, fileHash),
           NEW tt, tt = Write(ss, draft, text)
    PROVE  /\ SessionsOK(tt) /\ AnchorsOf(tt) = AnchorsOf(ss) /\ Stale(tt) = Stale(ss) /\ Fresh(tt, fileHash)
           /\ BodyAt(tt, a) = text /\ \A b : b # a => BodyAt(tt, b) = BodyAt(ss, b)
<1> DEFINE mid == Enter(ss, a, text)
<1>1. a \in Anchors
  BY BodiesAre
<1>2. /\ SessionsOK(mid) /\ AnchorsOf(mid) = AnchorsOf(ss) \cup {a} /\ Stale(mid) = Stale(ss) /\ Fresh(mid, fileHash)
      /\ BodyAt(mid, a) = text /\ \A b : b # a => BodyAt(mid, b) = BodyAt(ss, b)
  BY <1>1, EnterIs
<1>3. tt = [i \in DOMAIN mid |-> IF mid[i].anchor \in {a}
              THEN [mid[i] EXCEPT !.hash = IF mid[i].stale THEN @ ELSE fileHash] ELSE mid[i]]
  BY DEF Write, Update
<1> HIDE DEF mid
<1>4. mid \in Seq(Sessions) /\ \A i \in DOMAIN mid : mid[i] \in Sessions
  BY <1>2, AtIs DEF SessionsOK
<1>5. ASSUME NEW i \in DOMAIN mid
      PROVE  /\ tt[i] \in Sessions
             /\ tt[i].anchor = mid[i].anchor /\ tt[i].text = mid[i].text /\ tt[i].stale = mid[i].stale
             /\ tt[i].hash = mid[i].hash \/ tt[i].hash = fileHash
  <2>1. CASE mid[i].anchor = a
    <3>1. tt[i] = [mid[i] EXCEPT !.hash = IF mid[i].stale THEN mid[i].hash ELSE fileHash]
      BY <1>3, <2>1
    <3> QED
      BY <1>4, <2>1, <3>1 DEF Sessions
  <2>2. CASE mid[i].anchor # a
    <3>1. tt[i] = mid[i]
      BY <1>3, <2>2
    <3> QED
      BY <1>4, <3>1
  <2> QED
    BY <2>1, <2>2
<1>6. tt = [i \in DOMAIN mid |-> tt[i]] /\ DOMAIN tt = DOMAIN mid
  BY <1>3
<1>7. tt \in Seq(Sessions)
  BY <1>4, <1>5, <1>6, MappedIs
<1>8. /\ SessionsOK(tt) /\ AnchorsOf(tt) = AnchorsOf(mid) /\ Stale(tt) = Stale(mid)
      /\ \A b : BodyAt(tt, b) = BodyAt(mid, b)
  <2>1. \A i \in DOMAIN mid : tt[i].anchor = mid[i].anchor
    BY <1>5
  <2>2. \A i \in DOMAIN mid : tt[i].text = mid[i].text
    BY <1>5
  <2>3. \A i \in DOMAIN mid : tt[i].stale = mid[i].stale
    BY <1>5
  <2> QED
    BY <1>2, <1>6, <1>7, <2>1, <2>2, <2>3, ChangedIs, ZenonT(40)
<1>9. Fresh(tt, fileHash)
  BY <1>2, <1>5, <1>6 DEF Fresh
<1> QED
  BY <1>2, <1>8, <1>9, BodiesAre

LEMMA StaleHere ==
    ASSUME SessionsOK(sessions), NEW a
    PROVE  IsStale(a) <=> a \in Stale(sessions)
  BY BodiesAre DEF IsStale

LEMMA NobodyWaits ==
    ASSUME SelectionInv, ~Busy
    PROVE  saves = {}
  BY SelectionIs DEF Busy, Answers

LEMMA TypeHereKeeps ==
    ASSUME SelectionInv, TypeHere
    PROVE  SelectionInv'
<1> DEFINE a == Effective.anchor
           n == typed + 1
<1>1. /\ ComposerIsShown /\ ~IsStale(a) /\ ~Busy /\ typed < MaxThoughts /\ typed' = n
      /\ sessions' = Write(sessions, Effective, BodyAt(sessions, a) \cup {n})
      /\ SelectionRest /\ fileHash' = fileHash /\ held' = held /\ kept' = kept /\ saves' = saves /\ dropped' = dropped
  BY DEF TypeHere, Texting, Body
<1>2. /\ a \in AnchorsOf(sessions) /\ a \in Anchors /\ a \notin Stale(sessions) /\ Effective.hash = fileHash
      /\ saves = {}
  BY <1>1, SelectionIs, EffectiveIs, StaleHere, NobodyWaits
<1>3. /\ fileHash \in Nat /\ typed \in Nat /\ dropped \in SUBSET (1..typed)
      /\ kept \in [Thoughts -> {0, 1}] /\ (\A t \in Thoughts : t > typed => kept[t] = 0)
      /\ SessionsOK(sessions) /\ Fresh(sessions, fileHash)
      /\ SelectionTexts(Bodies(sessions), {}, kept, typed, dropped)
  BY <1>2, SelectionIs
<1>4. n \in 0..MaxThoughts /\ n \in 1..n /\ n \in Thoughts /\ 1..typed \subseteq 1..n /\ n \notin 1..typed
      /\ \A t \in 1..n : t \in 1..typed \/ t = n
  BY <1>1, <1>3, CautionsAssumption DEF Thoughts
<1> DEFINE old == BodyAt(sessions, a)
           text == old \cup {n}
<1>5. old \in SUBSET (1..typed) /\ old \in SUBSET Nat
  BY <1>2, <1>3, BodiesIn DEF SelectionTexts
<1>6. text \in SUBSET Nat
  BY <1>3, <1>5
<1> HIDE DEF text, old, n
<1>7. /\ SessionsOK(sessions') /\ AnchorsOf(sessions') = AnchorsOf(sessions) /\ Stale(sessions') = Stale(sessions)
      /\ Fresh(sessions', fileHash)
      /\ BodyAt(sessions', a) = text /\ \A b : b # a => BodyAt(sessions', b) = BodyAt(sessions, b)
  <2>1. sessions' = Write(sessions, Effective, text)
    BY <1>1 DEF text, old
  <2> QED
    BY <1>2, <1>3, <1>6, <2>1, WriteIs
<1>8. HeldFits(held', sessions', fileHash')
  BY <1>1, <1>7, SelectionIs DEF HeldFits
<1>9. SelectionTexts(Bodies(sessions'), {}, kept, n, dropped)
  <2> DEFINE body == Bodies(sessions)
             new == Bodies(sessions')
  <2>1. \A b \in Anchors : body[b] = BodyAt(sessions, b) /\ new[b] = BodyAt(sessions', b)
    BY <1>3, <1>7, BodiesIn
  <2>2. /\ body \in [Anchors -> SUBSET ((1..typed) \ dropped)]
        /\ \A b, c \in Anchors : b # c => body[b] \cap body[c] = {}
        /\ \A t \in 1..typed : t \in dropped \/ kept[t] > 0 \/ \E b \in Anchors : t \in body[b]
        /\ \A b \in Anchors : \A t \in body[b] : kept[t] = 0
    BY <1>3 DEF SelectionTexts
  <2>3. new[a] = body[a] \cup {n} /\ \A b \in Anchors : b # a => new[b] = body[b]
    BY <1>2, <1>7, <2>1 DEF text, old
  <2>4. new = [b \in Anchors |-> new[b]]
    BY DEF Bodies
  <2> HIDE DEF body, new
  <2>5. n \notin dropped /\ kept[n] = 0
    BY <1>3, <1>4 DEF n
  <2>6. \A b \in Anchors : new[b] \in SUBSET ((1..n) \ dropped)
    BY <1>2, <1>4, <2>2, <2>3, <2>5
  <2>7. \A b, c \in Anchors : b # c => new[b] \cap new[c] = {}
    BY <1>4, <2>2, <2>3
  <2>8. \A t \in 1..n : t \in dropped \/ kept[t] > 0 \/ \E b \in Anchors : t \in new[b]
    BY <1>2, <1>4, <2>2, <2>3
  <2>9. \A b \in Anchors : \A t \in new[b] : kept[t] = 0
    BY <2>2, <2>3, <2>5
  <2> QED
    BY <2>4, <2>6, <2>7, <2>8, <2>9 DEF SelectionTexts, new
<1>10. typed' \in 0..MaxThoughts /\ dropped' \in SUBSET (1..typed') /\ kept' \in [Thoughts -> {0, 1}]
       /\ \A t \in Thoughts : t > typed' => kept'[t] = 0
  BY <1>1, <1>3, <1>4 DEF n, Thoughts
<1> QED
  BY <1>1, <1>2, <1>3, <1>7, <1>8, <1>9, <1>10, SelectionStays

LEMMA SelectionDropped ==
    ASSUME NEW body, NEW sent, NEW counts, NEW n, NEW gone, SelectionTexts(body, sent, counts, n, gone), NEW a \in Anchors
    PROVE  SelectionTexts([body EXCEPT ![a] = {}], sent, counts, n, gone \cup body[a])
<1> DEFINE new == [body EXCEPT ![a] = {}]
<1>1. /\ body \in [Anchors -> SUBSET ((1..n) \ gone)] /\ (\A b, c \in Anchors : b # c => body[b] \cap body[c] = {})
      /\ (\A t \in 1..n : t \in gone \/ counts[t] > 0 \/ \E b \in Anchors : t \in body[b])
      /\ \A b \in Anchors : \A t \in body[b] : counts[t] = 0
  BY DEF SelectionTexts
<1>2. /\ (\A s \in sent : /\ s.text # {} /\ s.text \subseteq 1..n /\ (\A t \in s.text : counts[t] = 0)
                          /\ body[s.anchor] = s.text \/ (body[s.anchor] = {} /\ s.text \subseteq gone))
      /\ \A s, r \in sent : s = r
  BY DEF SelectionTexts
<1>3. new[a] = {} /\ \A b : b # a => new[b] = body[b]
  BY <1>1
<1>4. new \in [Anchors -> SUBSET ((1..n) \ (gone \cup body[a]))]
  BY <1>1, <1>3
<1> HIDE DEF new
<1>5. \A s \in sent : new[s.anchor] = s.text \/ (new[s.anchor] = {} /\ s.text \subseteq gone \cup body[a])
  BY <1>2, <1>3
<1>6. SelectionTexts(new, sent, counts, n, gone \cup body[a])
  BY <1>1, <1>2, <1>3, <1>4, <1>5 DEF SelectionTexts
<1> QED
  BY <1>6 DEF new

LEMMA CloseComposerKeeps ==
    ASSUME SelectionInv, CloseComposer
    PROVE  SelectionInv'
  BY SelectionIs, CollapseIs, BodiesSame, SelectionStays DEF CloseComposer, Dismiss, HeldFits

LEMMA DiscardHereKeeps ==
    ASSUME SelectionInv, DiscardHere
    PROVE  SelectionInv'
<1> DEFINE a == Effective.anchor
<1>1. /\ ComposerIsShown /\ sessions' = Discard(sessions, a) /\ held' = <<>> /\ dropped' = dropped \cup BodyAt(sessions, a)
      /\ SelectionRest /\ fileHash' = fileHash /\ kept' = kept /\ saves' = saves /\ typed' = typed
  BY DEF DiscardHere, MayClose, Dismiss, Body
<1>2. a \in Anchors
  BY <1>1, SelectionIs, EffectiveIs
<1> HIDE DEF a
<1>3. /\ SessionsOK(sessions') /\ Fresh(sessions', fileHash) /\ BodyAt(sessions', a) = {}
      /\ \A b : b # a => BodyAt(sessions', b) = BodyAt(sessions, b)
  BY <1>1, SelectionIs, DiscardIs
<1>4. Bodies(sessions)[a] = BodyAt(sessions, a)
  BY <1>2, SelectionIs, BodiesIn
<1>5. Bodies(sessions') = [Bodies(sessions) EXCEPT ![a] = {}]
  BY <1>2, <1>3, BodiesButOne
<1>6. SelectionTexts(Bodies(sessions'), saves, kept, typed, dropped')
  <2> DEFINE body == Bodies(sessions)
  <2>1. SelectionTexts(body, saves, kept, typed, dropped)
    BY SelectionIs
  <2> HIDE DEF body
  <2>2. SelectionTexts([body EXCEPT ![a] = {}], saves, kept, typed, dropped \cup body[a])
    BY <1>2, <2>1, SelectionDropped
  <2> QED
    BY <1>1, <1>4, <1>5, <2>2 DEF body
<1>7. HeldFits(held', sessions', fileHash')
  BY <1>1 DEF HeldFits
<1>8. BodyAt(sessions, a) \in SUBSET (1..typed)
  BY <1>2, <1>4, SelectionIs DEF SelectionTexts
<1>9. dropped' \in SUBSET (1..typed)
  BY <1>1, <1>8, SelectionIs
<1> QED
  BY <1>1, <1>3, <1>6, <1>7, <1>9, SelectionIs, SelectionStays

LEMMA ReanchorComposerKeeps ==
    ASSUME Careful, SelectionInv, ReanchorComposer
    PROVE  SelectionInv'
  BY SelectionIs, EffectiveIs, ReanchorIs, BodiesSame, SelectionStays DEF ReanchorComposer, Careful, OldSelection,
     HeldFits

LEMMA SaveSelectionKeeps ==
    ASSUME SelectionInv, SaveSelection
    PROVE  SelectionInv'
<1> DEFINE a == Effective.anchor
           save == [anchor |-> a, text |-> Body, hash |-> Effective.hash, mounted |-> TRUE]
<1>1. /\ ComposerIsShown /\ ~Busy /\ Body # {} /\ saves' = saves \cup {save} /\ SelectionRest /\ fileHash' = fileHash
      /\ held' = held /\ kept' = kept /\ sessions' = sessions /\ typed' = typed /\ dropped' = dropped
  BY DEF SaveSelection, Texting
<1>2. a \in Anchors /\ Effective.hash \in Nat /\ saves = {}
  BY <1>1, SelectionIs, EffectiveIs, NobodyWaits
<1>3. Bodies(sessions)[a] = Body /\ Body \in SUBSET Nat
  BY <1>2, SelectionIs, BodiesIn DEF Body
<1>4. save \in Answers /\ save.anchor = a /\ save.text = Body
  BY <1>2, <1>3 DEF Answers
<1> HIDE DEF save, a
<1>5. saves' = {save} /\ saves' \in SUBSET Answers
  BY <1>1, <1>2, <1>4
<1>6. SelectionTexts(Bodies(sessions), {}, kept, typed, dropped)
  BY <1>2, SelectionIs
<1>7. SelectionTexts(Bodies(sessions), {save}, kept, typed, dropped)
  BY <1>1, <1>2, <1>3, <1>4, <1>6 DEF SelectionTexts
<1> QED
  BY <1>1, <1>5, <1>7, SelectionIs, SelectionStays

LEMMA SelectionSavedKeeps ==
    ASSUME SelectionInv, NEW s \in saves, SelectionSaved(s)
    PROVE  SelectionInv'
<1> DEFINE a == s.anchor
           body == Bodies(sessions)
           new == Bodies(sessions')
<1>1. s \in Answers /\ a \in Anchors /\ s.mounted = TRUE
  BY SelectionIs DEF Answers
<1>2. /\ Keep(s.text) /\ saves' = saves \ {s} /\ sessions' = Discard(sessions, a) /\ held' = <<>> /\ SelectionRest
      /\ fileHash' = fileHash /\ typed' = typed /\ dropped' = dropped
  BY <1>1 DEF SelectionSaved
<1>3. /\ body \in [Anchors -> SUBSET ((1..typed) \ dropped)] /\ (\A b, c \in Anchors : b # c => body[b] \cap body[c] = {})
      /\ (\A t \in 1..typed : t \in dropped \/ kept[t] > 0 \/ \E b \in Anchors : t \in body[b])
      /\ (\A b \in Anchors : \A t \in body[b] : kept[t] = 0)
      /\ s.text \subseteq 1..typed /\ (\A t \in s.text : kept[t] = 0)
      /\ body[a] = s.text \/ (body[a] = {} /\ s.text \subseteq dropped)
      /\ \A r \in saves : r = s
  BY SelectionIs DEF SelectionTexts
<1>4. /\ kept \in [Thoughts -> {0, 1}] /\ typed \in 0..MaxThoughts /\ dropped \in SUBSET (1..typed)
      /\ \A t \in Thoughts : t > typed => kept[t] = 0
  BY SelectionIs
<1>5. 1..typed \subseteq Thoughts
  BY <1>4, CautionsAssumption DEF Thoughts
<1>6. kept' = [t \in Thoughts |-> IF t \in s.text THEN kept[t] + 1 ELSE kept[t]]
  BY <1>2 DEF Keep
<1>7. (\A t \in s.text : kept'[t] = 1) /\ \A t \in Thoughts : t \notin s.text => kept'[t] = kept[t]
  BY <1>3, <1>5, <1>6
<1>8. kept' \in [Thoughts -> {0, 1}] /\ \A t \in Thoughts : t > typed => kept'[t] = 0
  BY <1>3, <1>4, <1>6, <1>7 DEF Thoughts
<1>9. /\ SessionsOK(sessions') /\ Fresh(sessions', fileHash) /\ BodyAt(sessions', a) = {}
      /\ \A b : b # a => BodyAt(sessions', b) = BodyAt(sessions, b)
  BY <1>2, SelectionIs, DiscardIs
<1>10. new = [body EXCEPT ![a] = {}]
  <2>1. Bodies(sessions') = [Bodies(sessions) EXCEPT ![a] = BodyAt(sessions', a)]
    BY <1>1, <1>9, BodiesButOne
  <2> QED
    BY <1>9, <2>1
<1> HIDE DEF new, body, a
<1>11. new[a] = {} /\ (\A b \in Anchors : b # a => new[b] = body[b]) /\ new \in [Anchors -> SUBSET ((1..typed) \ dropped)]
  BY <1>1, <1>3, <1>10
<1>12. \A b \in Anchors : \A t \in new[b] : t \notin s.text /\ t \in Thoughts
  BY <1>1, <1>3, <1>5, <1>11
<1>13. \A t \in 1..typed : t \in dropped \/ kept'[t] > 0 \/ \E b \in Anchors : t \in new[b]
  <2> SUFFICES ASSUME NEW t \in 1..typed PROVE t \in dropped \/ kept'[t] > 0 \/ \E b \in Anchors : t \in new[b]
    OBVIOUS
  <2>1. CASE t \in s.text
    BY <1>7, <2>1
  <2>2. CASE t \notin s.text
    BY <1>3, <1>5, <1>7, <1>11, <2>2
  <2> QED
    BY <2>1, <2>2
<1>14. SelectionTexts(new, {}, kept', typed, dropped)
  <2>1. \A b, c \in Anchors : b # c => new[b] \cap new[c] = {}
    BY <1>3, <1>11
  <2>2. \A b \in Anchors : \A t \in new[b] : kept'[t] = 0
    BY <1>3, <1>7, <1>11, <1>12
  <2> QED
    BY <1>11, <1>13, <2>1, <2>2 DEF SelectionTexts
<1>15. saves' = {}
  BY <1>2, <1>3
<1>16. HeldFits(held', sessions', fileHash')
  BY <1>2 DEF HeldFits
<1> QED
  BY <1>2, <1>4, <1>8, <1>9, <1>14, <1>15, <1>16, SelectionIs, SelectionStays DEF new

LEMMA SelectionFailsKeeps ==
    ASSUME SelectionInv, NEW s \in saves, SelectionFails(s)
    PROVE  SelectionInv'
  BY SelectionIs, SelectionStays DEF SelectionFails, SelectionTexts

LEMMA VersionChangesKeeps ==
    ASSUME SelectionInv, VersionChanges
    PROVE  SelectionInv'
<1>1. /\ fileHash' = fileHash + 1 /\ sessions' = MarkPathVersion(sessions, fileHash') /\ SelectionRest
      /\ held' = held /\ kept' = kept /\ saves' = saves /\ typed' = typed /\ dropped' = dropped
  BY DEF VersionChanges
<1>2. fileHash' \in Nat /\ fileHash # fileHash'
  BY <1>1, SelectionIs
<1>3. /\ SessionsOK(sessions') /\ AnchorsOf(sessions') = AnchorsOf(sessions) /\ Fresh(sessions', fileHash')
      /\ (\A b : BodyAt(sessions', b) = BodyAt(sessions, b))
      /\ Fresh(sessions, fileHash) /\ fileHash # fileHash' => Stale(sessions') = AnchorsOf(sessions)
  BY <1>1, <1>2, SelectionIs, MarkIs
<1>4. Stale(sessions') = AnchorsOf(sessions)
  BY <1>2, <1>3, SelectionIs
<1>5. Bodies(sessions') = Bodies(sessions)
  BY <1>3, BodiesSame
<1>6. HeldFits(held', sessions', fileHash')
  BY <1>1, <1>3, <1>4, SelectionIs DEF HeldFits
<1> QED
  BY <1>1, <1>2, <1>3, <1>5, <1>6, SelectionIs, SelectionStays

\* The input that is resumed is the only one that is open.
LEMMA ResumedIs ==
    ASSUME NEW ss, SessionsOK(ss), NEW a \in Anchors, BodyAt(ss, a) # {}, NEW tt, tt = Expand(CloseOthers(ss, a), a)
    PROVE  /\ SessionsOK(tt) /\ Opened(tt) = {a} /\ \A b : BodyAt(tt, b) = BodyAt(ss, b)
           /\ \A hash : Fresh(ss, hash) => Fresh(tt, hash)
  BY BodiesAre, CollapseIs, ExpandIs DEF CloseOthers

LEMMA ResumeSelectionKeeps ==
    ASSUME Careful, SelectionInv, NEW a \in Anchors, ResumeSelection(a)
    PROVE  SelectionInv'
  BY SelectionIs, ResumedIs, BodiesSame, SelectionStays DEF ResumeSelection, Careful, HeldFits

LEMMA LeaveFileKeeps ==
    ASSUME Careful, SelectionInv, LeaveFile
    PROVE  SelectionInv'
  BY SelectionIs, SelectionStays DEF LeaveFile, NoSaving, Careful, HeldFits

LEMMA SelectionGoesOn ==
    ASSUME Careful, SelectionInv, SelectionNext
    PROVE  SelectionInv'
  BY HoldSelectionKeeps, ResumeSelectionKeeps, LetGoKeeps, TypeHereKeeps, CloseComposerKeeps, DiscardHereKeeps,
     ReanchorComposerKeeps, SaveSelectionKeeps, SelectionSavedKeeps, SelectionFailsKeeps, VersionChangesKeeps,
     LeaveFileKeeps DEF SelectionNext

LEMMA SelectionStarts ==
    ASSUME InputsInit, held = <<>>
    PROVE  SelectionInv
<1>1. InputsInv /\ stored = <<>> /\ hydrated = FALSE /\ sessions = <<>> /\ shown = [p \in Panes |-> {}] /\ saves = {}
      /\ typed = 0 /\ dropped = {}
  BY InputsStart DEF InputsInit
<1>2. Counts /\ SessionsOK(sessions) /\ Fresh(sessions, fileHash)
  BY <1>1 DEF InputsInv
<1>3. Bodies(<<>>) = [a \in Anchors |-> {}]
  BY NoSessions DEF Bodies
<1>4. SelectionTexts(Bodies(<<>>), {}, kept, 0, {})
  BY <1>3 DEF SelectionTexts
<1>5. HeldFits(held, sessions, fileHash)
  BY DEF HeldFits
<1> QED
  BY <1>1, <1>2, <1>4, <1>5 DEF SelectionInv

LEMMA SelectionIsKept ==
    ASSUME SelectionInv
    PROVE  InputsAreRight
  BY NoSessions, BodiesIn, TextsAreKept DEF SelectionInv, SelectionTexts

-----------------------------------------------------------------------------
(* What is kept, whatever a behaviour is about *)

WritingInv ==
    /\ concern = "selection" => SelectionInv
    /\ concern # "selection" => InputsInv /\ held = <<>>

LEMMA HeldIsKept ==
    ASSUME WritingInv
    PROVE  SelectionTypeOK
<1>1. CASE concern = "selection"
  <2>1. HeldFits(held, sessions, fileHash) /\ SelectionTexts(Bodies(sessions), saves, kept, typed, dropped)
    BY <1>1, SelectionIs DEF WritingInv
  <2>2. \A save \in saves : save.text # {} /\ save.text \subseteq 1..typed
    BY <2>1 DEF SelectionTexts
  <2>3. Len(held) <= 1 /\ AnchorsOf(held) \subseteq AnchorsOf(sessions)
    <3>1. CASE held = <<>>
      BY <3>1 DEF AnchorsOf
    <3>2. ASSUME NEW h, held = <<h>>, h.anchor \in AnchorsOf(sessions)
          PROVE  Len(held) <= 1 /\ AnchorsOf(held) \subseteq AnchorsOf(sessions)
      BY <3>2 DEF AnchorsOf
    <3> QED
      BY <2>1, <3>1, <3>2 DEF HeldFits
  <2> QED
    BY <2>2, <2>3 DEF SelectionTypeOK
<1>2. CASE concern # "selection"
  BY <1>2 DEF WritingInv, InputsInv, TextsFit, SendFits, AnchorsOf, SelectionTypeOK
<1> QED
  BY <1>1, <1>2

LEMMA WritingIs ==
    ASSUME WritingInv
    PROVE  /\ WritingIsKept
           /\ SessionsOK(sessions) /\ Fresh(sessions, fileHash) /\ HeldFits(held, sessions, fileHash)
<1>0. SelectionTypeOK
  BY HeldIsKept
<1>1. CASE concern = "selection"
  BY <1>0, <1>1, SelectionIs, SelectionIsKept DEF WritingInv, WritingIsKept, InputsAreRight
<1>2. CASE concern # "selection"
  BY <1>0, <1>2, InputsAreKept DEF WritingInv, InputsInv, HeldFits, WritingIsKept, InputsAreRight
<1> QED
  BY <1>1, <1>2

LEMMA WritingStarts ==
    ASSUME MCInit
    PROVE  WritingInv
  BY InputsStart, SelectionStarts DEF MCInit, SelectionInit, WritingInv

LEMMA WritingRests ==
    ASSUME WritingInv, UNCHANGED <<selectionVars, concern>>
    PROVE  WritingInv'
  BY DEF selectionVars, inputVars, SelectionInv, Counts, InputsInv, WritingInv

LEMMA WritingGoesOn ==
    ASSUME Careful, WritingInv,
           [MCNext]_<<selectionVars, renderedVars, sourceVars, highlightVars, diffVars, concern>>
    PROVE  WritingInv'
<1>1. CASE UNCHANGED <<selectionVars, concern>>
  BY <1>1, WritingRests
<1>2. CASE MCNext /\ concern = "inputs" /\ InputsNext /\ UNCHANGED <<held, renderedVars, sourceVars, highlightVars, diffVars>>
  BY <1>2, InputsGoOn DEF MCNext, WritingInv
<1>3. CASE MCNext /\ concern = "selection" /\ SelectionNext
  BY <1>3, SelectionGoesOn DEF MCNext, WritingInv
<1> QED
  BY <1>1, <1>2, <1>3 DEF MCNext

LEMMA SelectionStep ==
    ASSUME Careful, WritingInv
    PROVE  /\ [SaveSelection => Effective.hash = fileHash]_selectionVars
           /\ [\A a \in Anchors : ResumeSelection(a) => Effective'.anchor = a]_selectionVars
<1>1. SessionsOK(sessions) /\ Fresh(sessions, fileHash) /\ HeldFits(held, sessions, fileHash)
  BY WritingIs
<1>2. ASSUME SaveSelection PROVE Effective.hash = fileHash
  BY <1>1, <1>2, EffectiveIs, StaleHere DEF SaveSelection, Texting
<1>3. ASSUME NEW a \in Anchors, ResumeSelection(a) PROVE Effective'.anchor = a
  <2>1. /\ BodyAt(sessions, a) # {} /\ held = <<>> /\ held' = held
        /\ sessions' = Expand(CloseOthers(sessions, a), a)
    BY <1>3 DEF ResumeSelection, Careful
  <2>2. SessionsOK(sessions') /\ Opened(sessions') = {a}
    BY <1>1, <2>1, ResumedIs
  <2>3. (OpenSessions(sessions') \o held') = OpenSessions(sessions')
    BY <2>1, <2>2, NewestIs
  <2>4. PICK i \in DOMAIN sessions' : ~sessions'[i].collapsed /\ Last(OpenSessions(sessions')) = sessions'[i]
    BY <2>2, NewestOpenIs
  <2>5. sessions'[i].anchor \in Opened(sessions')
    BY <2>4 DEF Opened
  <2>6. Effective' = sessions'[i]
    BY <2>3, <2>4 DEF Effective, Candidates
  <2> QED
    BY <2>2, <2>5, <2>6
<1> QED
  BY <1>2, <1>3

-----------------------------------------------------------------------------
(* Cards of a rendered document *)

Input == [block : Blocks, thread : Comments \cup {New}, open : BOOLEAN]
InputsOK(inputs) ==
    inputs \in Seq(Input) /\ \A i, j \in DOMAIN inputs : inputs[i].block = inputs[j].block => i = j
Expanded(inputs) == {inputs[i].block : i \in {j \in DOMAIN inputs : inputs[j].open}}

PageOK(p, known) ==
    /\ p \in [mode : {"none", "source", "rendered"}, version : Nat, comments : SUBSET known, active : known \cup {None},
              card : Card \cup {None}, inputs : Seq(Input), resume : Blocks \cup {None}]
    /\ InputsOK(p.inputs)
PostedStates(known) == [active : known \cup {None}, comments : SUBSET known, open : SUBSET Blocks]
Phases == {"none", "loading", "listening", "ready"}
Frames(known) == [phase : Phases, state : PostedStates(known) \cup {None}, pending : BOOLEAN]
Messages(known) ==
    [type : {"open"}, id : known, block : Blocks] \cup [type : {"target"}, block : Blocks] \cup [type : {"clear"}]

CardsTyped ==
    /\ viewer \in {"html", "markdown"} /\ used \subseteq Comments /\ settling \in BOOLEAN
    /\ PageOK(page, used) /\ PageOK(seen, used) /\ page.mode # "none"
    /\ frame \in Frames(used) /\ toFrame \in Seq(PostedStates(used)) /\ toPage \in Seq(Messages(used))
    /\ wish \in [card : Card, alone : BOOLEAN] \cup {None}

\* The page and the states it has posted: the last of them is that of its last rendering.
LastPosted == IF toFrame = <<>> THEN frame.state ELSE toFrame[Len(toFrame)]
Unheard == frame.phase = "listening" /\ toFrame = <<>> /\ frame.state = None
FrameFits ==
    /\ viewer = "markdown" => frame = NoFrame /\ toFrame = <<>> /\ toPage = <<>>
    /\ viewer = "html" => (frame.phase = "none" <=> seen.mode # "rendered")
    /\ frame.phase = "none" => frame = NoFrame /\ toFrame = <<>>
    /\ frame.phase = "loading" => frame = LoadingFrame /\ toFrame = <<>>
    /\ frame.phase \in {"listening", "ready"} => Unheard \/ LastPosted = Posted(seen)

\* What is added to the comments was never there before.
Known(comments) == comments \cap page.comments \subseteq seen.comments
CommentsFit ==
    /\ Known(ShownIn(frame)) /\ \A i \in DOMAIN toFrame : Known(toFrame[i].comments)
    /\ \A k \in DOMAIN toPage : toPage[k].type = "open" => Known({toPage[k].id})

\* A frame that waits has asked for a thread, or is told that one is open, or that it has changed.
Asks(message) == message.type = "target" \/ (message.type = "open" /\ message.id \in ShownIn(frame))
PendingFits ==
    frame.pending =>
        /\ toPage # <<>> => Asks(toPage[Len(toPage)])
        /\ toPage = <<>> => \/ page.card # None \/ frame.state = None
                            \/ frame.state # None /\ frame.state.open # {}
                            \/ \E i \in DOMAIN toFrame : toFrame[i] # frame.state

\* A comment that became active without a card is told to the frame, which asks for it.
Wants(p) == p.active \in p.comments /\ p.card = None
WantsIn(state) == state.active \in state.comments /\ state.open = {}
AskedFor(c) == \E k \in DOMAIN toPage : toPage[k].type = "open" /\ toPage[k].id = c
ActiveFits ==
    viewer = "html" /\ page.mode = "rendered" /\ Wants(page) =>
        /\ \A i \in DOMAIN toFrame :
              (\A j \in i..Len(toFrame) : toFrame[j].active = page.active) => WantsIn(toFrame[i])
        /\ ActiveIn(frame) = page.active /\ (\A i \in DOMAIN toFrame : toFrame[i].active = page.active)
              => AskedFor(page.active)
        /\ frame.phase = "listening" /\ page.active = seen.active => Wants(seen)

\* What a rendering leaves to be done is done by its effects.
EffectsFit ==
    seen.mode = "rendered" =>
        /\ Expanded(seen.inputs) # {} /\ seen.card = None => settling /\ page.card # None
        /\ viewer = "markdown" /\ Wants(seen) => settling /\ page.card # None
        /\ seen.resume \in BlocksOf(seen.inputs) => settling /\ page.resume = None

\* The card that was asked for last: its message is on its way, or it is shown and stays.
AsksFor(message, card) ==
    \/ /\ message.type = "open" /\ message.id = card.thread /\ message.block = card.block
       /\ message.id \in seen.comments
    \/ message.type = "target" /\ message.block = card.block /\ card.thread = New
WishWaits ==
    /\ Len(toPage) = 1 /\ AsksFor(toPage[1], wish.card)
    /\ page = [seen EXCEPT !.comments = page.comments] /\ seen.comments \subseteq page.comments
    /\ page.resume \notin BlocksOf(page.inputs)
    /\ \A i \in DOMAIN toFrame : toFrame[i].active = ActiveIn(frame)
WishStands ==
    /\ page.card = wish.card /\ toPage = <<>>
    /\ page.resume \in BlocksOf(page.inputs) =>
          \A i \in DOMAIN page.inputs : page.inputs[i].block = page.resume => CardOf(page.inputs[i]) = wish.card
    /\ \A i \in DOMAIN toFrame : toFrame[i].open = {} => \A j \in 1..i : toFrame[j].active = ActiveIn(frame)
WishIsOpen ==
    /\ page.card = wish.card /\ Expanded(page.inputs) \subseteq {wish.card.block}
    /\ page.resume \in BlocksOf(page.inputs) => page.resume = wish.card.block
WishFits ==
    wish # None =>
        /\ page.mode = "rendered" /\ seen.mode = "rendered"
        /\ viewer = "html" => page.version = seen.version /\ frame.phase = "ready" /\ (WishWaits \/ WishStands)
        /\ viewer = "markdown" /\ wish.alone => WishIsOpen

CardsInv == CardsTyped /\ FrameFits /\ CommentsFit /\ PendingFits /\ ActiveFits /\ EffectsFit /\ WishFits

LEMMA AmongIs ==
    ASSUME NEW ss, InputsOK(ss), NEW wanted, NEW tt, tt = Among(ss, wanted)
    PROVE  /\ InputsOK(tt)
           /\ \A r : r \in ToSet(tt) <=> r \in ToSet(ss) /\ r \in wanted
<1>1. ss \in Seq(Input) /\ DOMAIN ss = 1..Len(ss) /\ Len(ss) \in Nat
  BY DEF InputsOK
<1>2. tt \in Seq(Input) /\ Picks(ss, wanted, Len(ss), tt)
  BY <1>1, KeepingPicks DEF Among, Keeping
<1>3. DOMAIN tt = 1..Len(tt) /\ Len(tt) \in Nat
  BY <1>2
<1>4. PICK f \in [1..Len(tt) -> 1..Len(ss)] :
        /\ \A i, j \in 1..Len(tt) : i < j => f[i] < f[j]
        /\ \A k \in 1..Len(tt) : tt[k] = ss[f[k]]
        /\ \A i \in 1..Len(ss) : ss[i] \in wanted <=> \E k \in 1..Len(tt) : f[k] = i
  BY <1>2 DEF Picks
<1>5. \A k \in DOMAIN tt : f[k] \in DOMAIN ss /\ tt[k] = ss[f[k]] /\ ss[f[k]] \in wanted
  BY <1>1, <1>3, <1>4
<1>6. \A i, j \in DOMAIN tt : tt[i].block = tt[j].block => i = j
  <2> SUFFICES ASSUME NEW i \in DOMAIN tt, NEW j \in DOMAIN tt, tt[i].block = tt[j].block PROVE i = j
    OBVIOUS
  <2>1. f[i] = f[j]
    BY <1>5 DEF InputsOK
  <2>2. f[i] \in Nat /\ i \in Nat /\ j \in Nat
    BY <1>1, <1>3, <1>5
  <2> QED
    BY <1>3, <1>4, <2>1, <2>2
<1>7. \A r : r \in ToSet(tt) <=> r \in ToSet(ss) /\ r \in wanted
  BY <1>1, <1>3, <1>4, <1>5 DEF ToSet
<1> QED
  BY <1>2, <1>6, <1>7 DEF InputsOK

LEMMA OpenInputsAre ==
    ASSUME NEW ss, InputsOK(ss)
    PROVE  /\ OpenInputs(ss) = <<>> <=> Expanded(ss) = {}
           /\ OpenInputs(ss) # <<>> =>
                 /\ \E i \in DOMAIN ss : Last(OpenInputs(ss)) = ss[i] /\ ss[i].open
                 /\ \E i \in DOMAIN ss : Head(OpenInputs(ss)) = ss[i] /\ ss[i].open
<1> DEFINE W == {s \in ToSet(ss) : s.open}
           tt == OpenInputs(ss)
<1>1. tt = Among(ss, W)
  BY DEF OpenInputs
<1>2. \A r : r \in W <=> \E i \in DOMAIN ss : r = ss[i] /\ ss[i].open
  BY DEF ToSet
<1>3. \A r : r \in ToSet(ss) /\ r \in W <=> r \in W
  OBVIOUS
<1> HIDE DEF W, tt
<1>4. InputsOK(tt) /\ \A r : r \in ToSet(tt) <=> r \in W
  BY <1>1, <1>3, AmongIs
<1>5. tt \in Seq(Input) /\ DOMAIN tt = 1..Len(tt) /\ Len(tt) \in Nat
  BY <1>4 DEF InputsOK
<1>6. W = {} <=> Expanded(ss) = {}
  BY <1>2 DEF Expanded
<1>7. tt = <<>> <=> W = {}
  <2>0. tt \in Seq(Input)
    BY <1>5
  <2>1. tt = <<>> <=> DOMAIN tt = {}
    BY <2>0
  <2>2. DOMAIN tt = {} <=> \A r : r \notin ToSet(tt)
    BY DEF ToSet
  <2> QED
    BY <1>4, <2>1, <2>2
<1>8. tt # <<>> => Last(tt) \in ToSet(tt) /\ Head(tt) \in ToSet(tt)
  BY <1>5 DEF Last, ToSet
<1> QED
  BY <1>2, <1>4, <1>6, <1>7, <1>8 DEF tt

LEMMA InputsAre ==
    ASSUME NEW ss, InputsOK(ss)
    PROVE  /\ \A i \in DOMAIN ss : ss[i] \in Input /\ CardOf(ss[i]) \in Card
           /\ BlocksOf(ss) \subseteq Blocks /\ Expanded(ss) \subseteq BlocksOf(ss)
           /\ \A b \in BlocksOf(ss) : \E i \in DOMAIN ss : SessionAt(ss, b) = ss[i] /\ ss[i].block = b
<1>0. \A i \in DOMAIN ss : ss[i] \in Input
  BY DEF InputsOK
<1>1. \A i \in DOMAIN ss : ss[i] \in Input /\ CardOf(ss[i]) \in Card
  BY <1>0 DEF Input, Card, CardOf
<1>2. ASSUME NEW b \in BlocksOf(ss) PROVE \E i \in DOMAIN ss : SessionAt(ss, b) = ss[i] /\ ss[i].block = b
  BY DEF BlocksOf, ToSet, SessionAt
<1> QED
  BY <1>1, <1>2 DEF BlocksOf, Expanded, Input

\* When inputs change one by one, their places and their order stay.
LEMMA InputsMapped ==
    ASSUME NEW ss, InputsOK(ss), NEW tt, tt = [i \in DOMAIN ss |-> tt[i]],
           \A i \in DOMAIN ss : tt[i] \in Input /\ tt[i].block = ss[i].block
    PROVE  InputsOK(tt) /\ DOMAIN tt = DOMAIN ss /\ BlocksOf(tt) = BlocksOf(ss)
  BY SeqDef DEF InputsOK, BlocksOf

LEMMA CollapsedIs ==
    ASSUME NEW ss, InputsOK(ss), NEW closed,
           NEW tt, tt = [i \in DOMAIN ss |-> IF ss[i] \in closed THEN [ss[i] EXCEPT !.open = FALSE] ELSE ss[i]]
    PROVE  /\ InputsOK(tt) /\ DOMAIN tt = DOMAIN ss /\ BlocksOf(tt) = BlocksOf(ss)
           /\ \A i \in DOMAIN ss : /\ tt[i].block = ss[i].block /\ tt[i].thread = ss[i].thread
                                   /\ tt[i].open => ss[i].open /\ ss[i] \notin closed
<1>1. ASSUME NEW i \in DOMAIN ss
      PROVE  /\ tt[i] \in Input /\ tt[i].block = ss[i].block /\ tt[i].thread = ss[i].thread
             /\ tt[i].open => ss[i].open /\ ss[i] \notin closed
  <2>1. ss[i] \in Input
    BY DEF InputsOK
  <2>2. CASE ss[i] \in closed
    BY <2>1, <2>2 DEF Input
  <2>3. CASE ss[i] \notin closed
    BY <2>1, <2>3
  <2> QED
    BY <2>2, <2>3
<1>2. tt = [i \in DOMAIN ss |-> tt[i]]
  OBVIOUS
<1> QED
  BY <1>1, <1>2, InputsMapped

LEMMA StartInputIs ==
    ASSUME NEW ss, InputsOK(ss), NEW card \in Card, NEW tt, tt = StartInput(ss, card)
    PROVE  /\ InputsOK(tt) /\ BlocksOf(tt) = BlocksOf(ss) \cup {card.block}
           /\ Expanded(tt) \subseteq Expanded(ss) \cup {card.block}
           /\ \A i \in DOMAIN tt : tt[i].block = card.block => tt[i].thread = card.thread
<1>1. card.block \in Blocks /\ card.thread \in Comments \cup {New}
  BY DEF Card
<1>2. CASE card.block \in BlocksOf(ss)
  <2>1. tt = [i \in DOMAIN ss |-> IF ss[i].block = card.block
                                  THEN [ss[i] EXCEPT !.thread = card.thread, !.open = TRUE] ELSE ss[i]]
    BY <1>2 DEF StartInput
  <2>2. ASSUME NEW i \in DOMAIN ss
        PROVE  /\ tt[i] \in Input /\ tt[i].block = ss[i].block
               /\ ss[i].block = card.block => tt[i].thread = card.thread
               /\ ss[i].block # card.block => tt[i] = ss[i]
    <3>1. ss[i] \in Input
      BY DEF InputsOK
    <3>2. CASE ss[i].block = card.block
      BY <1>1, <2>1, <3>1, <3>2 DEF Input
    <3>3. CASE ss[i].block # card.block
      BY <2>1, <3>1, <3>3
    <3> QED
      BY <3>2, <3>3
  <2>3. tt = [i \in DOMAIN ss |-> tt[i]]
    BY <2>1
  <2>4. InputsOK(tt) /\ DOMAIN tt = DOMAIN ss /\ BlocksOf(tt) = BlocksOf(ss)
    BY <2>2, <2>3, InputsMapped
  <2>5. Expanded(tt) \subseteq Expanded(ss) \cup {card.block}
    BY <2>2, <2>4 DEF Expanded
  <2> QED
    BY <1>2, <2>2, <2>4, <2>5
<1>3. CASE card.block \notin BlocksOf(ss)
  <2> DEFINE new == [block |-> card.block, thread |-> card.thread, open |-> TRUE]
  <2>1. tt = Append(ss, new) /\ ss \in Seq(Input) /\ new \in Input /\ new.block = card.block
        /\ new.thread = card.thread
    BY <1>1, <1>3 DEF StartInput, InputsOK, Input
  <2> HIDE DEF new
  <2>2. /\ tt \in Seq(Input) /\ DOMAIN ss = 1..Len(ss) /\ DOMAIN tt = 1..(Len(ss) + 1) /\ Len(ss) \in Nat
        /\ tt[Len(ss) + 1] = new /\ \A i \in 1..Len(ss) : tt[i] = ss[i]
    BY <2>1
  <2>3. \A i \in DOMAIN ss : ss[i].block # card.block
    BY <1>3 DEF BlocksOf
  <2>4. \A i \in DOMAIN tt : i = Len(ss) + 1 \/ (i \in DOMAIN ss /\ tt[i] = ss[i])
    BY <2>2
  <2>5. InputsOK(tt)
    BY <2>1, <2>2, <2>3, <2>4 DEF InputsOK
  <2>6. BlocksOf(tt) = BlocksOf(ss) \cup {card.block}
    BY <2>1, <2>2, <2>4 DEF BlocksOf
  <2>7. Expanded(tt) \subseteq Expanded(ss) \cup {card.block}
    BY <2>1, <2>2, <2>4 DEF Expanded
  <2> QED
    BY <2>1, <2>2, <2>3, <2>4, <2>5, <2>6, <2>7
<1> QED
  BY <1>2, <1>3

\* A set of numbers that is not empty has a first.
LEMMA FirstIs ==
    ASSUME NEW numbers \in SUBSET Nat, numbers # {}
    PROVE  FirstOf(numbers) \in numbers
<1> DEFINE R == OpToRel(<, Nat)
<1>1. IsWellFoundedOn(R, Nat)
  BY NatLessThanWellFounded DEF OpToRel
<1>2. R = {ss \in Nat \X Nat : ss[1] < ss[2]}
  BY DEF OpToRel
<1> HIDE DEF R
<1>3. PICK n \in numbers : \A m \in numbers : ~ (<<m, n>> \in R)
  BY <1>1, WFMin
<1>4. ASSUME NEW m \in numbers PROVE n <= m
  <2>1. m \in Nat /\ n \in Nat /\ ~(<<m, n>> \in R)
    BY <1>3
  <2>2. ~(m < n)
    BY <1>2, <2>1
  <2> QED
    BY <2>1, <2>2
<1> QED
  BY <1>4 DEF FirstOf

-----------------------------------------------------------------------------
(* The page *)

LEMMA MoreKnown ==
    ASSUME NEW u, NEW v, u \subseteq v
    PROVE  /\ \A p : PageOK(p, u) => PageOK(p, v)
           /\ PostedStates(u) \subseteq PostedStates(v) /\ Seq(PostedStates(u)) \subseteq Seq(PostedStates(v))
           /\ Frames(u) \subseteq Frames(v)
           /\ Messages(u) \subseteq Messages(v) /\ Seq(Messages(u)) \subseteq Seq(Messages(v))
<1>1. \A p : PageOK(p, u) => PageOK(p, v)
  BY DEF PageOK
<1>2. PostedStates(u) \subseteq PostedStates(v)
  BY DEF PostedStates
<1>3. Frames(u) \subseteq Frames(v)
  BY <1>2 DEF Frames
<1>4. Messages(u) \subseteq Messages(v)
  BY DEF Messages
<1>5. \A S, T : S \subseteq T => Seq(S) \subseteq Seq(T)
  OBVIOUS
<1> QED
  BY <1>1, <1>2, <1>3, <1>4, <1>5

LEMMA PostedIs ==
    ASSUME NEW u, NEW p, PageOK(p, u)
    PROVE  /\ Posted(p) \in PostedStates(u) /\ Posted(p).active = p.active /\ Posted(p).comments = p.comments
           /\ Posted(p).open = {} <=> p.card = None
           /\ WantsIn(Posted(p)) <=> Wants(p)
  BY DEF PageOK, Posted, Card, PostedStates, WantsIn, Wants

LEMMA NoneIsNothing ==
    ASSUME CardsTyped
    PROVE  /\ used \subseteq Comments /\ None \notin used /\ None \notin Comments /\ None \notin Blocks /\ None \notin Card
           /\ None \notin PostedStates(used)
  BY RenderedAssumption, MoreKnown DEF CardsTyped, Card, PostedStates

\* What is posted, when the page is as it was last rendered.
LEMMA PendingIsTold ==
    ASSUME CardsTyped, FrameFits, PendingFits, page = seen, frame.pending, toPage = <<>>
    PROVE  \/ frame.state = None
           \/ frame.state # None /\ frame.state.open # {}
           \/ \E i \in DOMAIN toFrame : toFrame[i] # frame.state
<1>1. CASE frame.phase \in {"none", "loading"}
  BY <1>1 DEF FrameFits, NoFrame, LoadingFrame
<1>2. CASE frame.phase \in {"listening", "ready"} /\ page.card # None /\ ~Unheard
  <2>1. LastPosted = Posted(seen) /\ Posted(seen).open # {} /\ Posted(seen) \in PostedStates(used)
    BY <1>2, PostedIs DEF FrameFits, CardsTyped
  <2>2. CASE toFrame = <<>>
    BY <2>1, <2>2, NoneIsNothing DEF LastPosted
  <2>3. CASE toFrame # <<>>
    BY <2>1, <2>3, NoneIsNothing DEF LastPosted, CardsTyped
  <2> QED
    BY <2>2, <2>3
<1>3. CASE Unheard
  BY <1>3 DEF Unheard
<1>4. CASE page.card = None
  BY <1>4 DEF PendingFits
<1>5. frame.phase \in Phases
  BY DEF CardsTyped, Frames
<1> QED
  BY <1>1, <1>2, <1>3, <1>4, <1>5 DEF Phases

\* Nothing that is on its way to the frame, or known there, is of another active comment than that
\* of the page, when it is as it was last rendered.
LEMMA LastIsOfSeen ==
    ASSUME CardsTyped, FrameFits
    PROVE  /\ toFrame # <<>> => Len(toFrame) \in DOMAIN toFrame /\ toFrame[Len(toFrame)].active = seen.active
           /\ toFrame = <<>> => ActiveIn(frame) \in {None, seen.active}
           /\ viewer = "html" /\ seen.mode # "rendered" => ActiveIn(frame) = None /\ toFrame = <<>>
<1>1. PageOK(seen, used) /\ toFrame \in Seq(PostedStates(used)) /\ frame.phase \in Phases
  BY DEF CardsTyped, Frames
<1>2. Posted(seen).active = seen.active
  BY <1>1, PostedIs
<1>3. toFrame # <<>> => Len(toFrame) \in DOMAIN toFrame
  BY <1>1
<1>4. CASE frame.phase \in {"none", "loading"}
  BY <1>4 DEF FrameFits, NoFrame, LoadingFrame, ActiveIn
<1>5. CASE frame.phase \in {"listening", "ready"}
  BY <1>2, <1>3, <1>5 DEF FrameFits, LastPosted, ActiveIn, Unheard
<1> QED
  BY <1>1, <1>4, <1>5 DEF Phases

LEMMA OnPageKeeps ==
    ASSUME CardsInv, page = seen, UNCHANGED <<viewer, seen, frame, toFrame, toPage, settling>>,
           used \subseteq used', used' \subseteq Comments, PageOK(page', used'), page'.mode # "none",
           page'.comments \cap used \subseteq page.comments,
           page'.mode = "rendered" /\ Wants(page') =>
               page.mode # "rendered" \/ page'.active # page.active \/ Wants(page),
           wish' \in [card : Card, alone : BOOLEAN] \cup {None}, wish' # None => WishFits'
    PROVE  CardsInv'
<1>1. CardsTyped /\ FrameFits /\ CommentsFit /\ PendingFits /\ ActiveFits /\ EffectsFit
  BY DEF CardsInv
<1>2. CardsTyped'
  BY <1>1, MoreKnown DEF CardsTyped
<1>3. FrameFits'
  BY <1>1 DEF FrameFits, LastPosted, Unheard
<1>4. CommentsFit'
  <2>1. ASSUME NEW comments \in SUBSET used, Known(comments) PROVE Known(comments)'
    BY <2>1 DEF Known
  <2>2. ShownIn(frame) \in SUBSET used
    BY <1>1 DEF CardsTyped, Frames, PostedStates, ShownIn
  <2>3. \A i \in DOMAIN toFrame : toFrame[i].comments \in SUBSET used
    <3>1. \A i \in DOMAIN toFrame : toFrame[i] \in PostedStates(used)
      BY <1>1 DEF CardsTyped
    <3> QED
      BY <3>1 DEF PostedStates
  <2>4. \A k \in DOMAIN toPage : toPage[k].type = "open" => {toPage[k].id} \in SUBSET used
    BY <1>1 DEF CardsTyped, Messages
  <2>5. ShownIn(frame') = ShownIn(frame)
    OBVIOUS
  <2> QED
    BY <1>1, <2>1, <2>2, <2>3, <2>4, <2>5 DEF CommentsFit
<1>5. PendingFits'
  BY <1>1, PendingIsTold DEF PendingFits, Asks
<1>6. ActiveFits'
  <2>1. CASE page.mode = "rendered" /\ page'.active = page.active /\ Wants(page)
    BY <1>1, <2>1 DEF ActiveFits, AskedFor
  <2>2. CASE page'.active # page.active \/ page.mode # "rendered"
    <3> SUFFICES ASSUME viewer = "html", page'.mode = "rendered", Wants(page')
                 PROVE  /\ toFrame # <<>> => toFrame[Len(toFrame)].active # page'.active /\ Len(toFrame) \in DOMAIN toFrame
                        /\ toFrame = <<>> => ActiveIn(frame) # page'.active
                        /\ frame.phase = "listening" => page'.active # seen.active
      BY <1>1 DEF CardsTyped, ActiveFits
    <3>1. page'.active \in used' /\ page'.active # None
      BY <1>2, NoneIsNothing, RenderedAssumption DEF Wants, PageOK
    <3>2. /\ toFrame # <<>> => Len(toFrame) \in DOMAIN toFrame /\ toFrame[Len(toFrame)].active = seen.active
          /\ toFrame = <<>> => ActiveIn(frame) \in {None, seen.active}
          /\ seen.mode # "rendered" => ActiveIn(frame) = None /\ toFrame = <<>>
      BY <1>1, LastIsOfSeen
    <3>3. frame.phase = "listening" => page.mode = "rendered"
      BY <1>1 DEF FrameFits
    <3> QED
      BY <2>2, <3>1, <3>2, <3>3
  <2> QED
    BY <2>1, <2>2 DEF ActiveFits
<1>7. EffectsFit'
  BY <1>1, NoneIsNothing, InputsAre DEF CardsTyped, PageOK, EffectsFit, Wants
<1>8. WishFits'
  BY DEF WishFits
<1> QED
  BY <1>2, <1>3, <1>4, <1>5, <1>6, <1>7, <1>8 DEF CardsInv

\* What the reader does on the page.
LEMMA OnPageIs ==
    ASSUME CardsInv, OnPage
    PROVE  /\ page = seen /\ UNCHANGED <<viewer, seen, frame, toFrame, toPage, settling>>
           /\ CardsTyped /\ used \subseteq Comments /\ PageOK(page, used) /\ page.mode # "none" /\ InputsOK(page.inputs)
           /\ page.comments \subseteq used /\ None \notin used /\ None \notin Card /\ None \notin Blocks
           /\ page.card \in Card \cup {None} /\ page.active \in used \cup {None}
  BY NoneIsNothing DEF CardsInv, CardsTyped, PageOK, OnPage

LEMMA SelectKeeps ==
    ASSUME CardsInv, NEW c \in Comments, Select(c)
    PROVE  CardsInv'
  BY OnPageIs, OnPageKeeps DEF Select, Forgets, PageOK

LEMMA SetModeKeeps ==
    ASSUME CardsInv, SetMode
    PROVE  CardsInv'
  BY OnPageIs, OnPageKeeps DEF SetMode, Forgets, OpenCard, PageOK

LEMMA ThreadOfIs ==
    ASSUME NEW card \in Card, NEW comments \in SUBSET Comments
    PROVE  ThreadOf(card, comments) \in Comments \cup {New}
  BY RenderedAssumption, FirstIs DEF AtBlock, Card, ThreadOf

LEMMA TypeNoteKeeps ==
    ASSUME CardsInv, TypeNote
    PROVE  CardsInv'
<1> DEFINE card == [page.card EXCEPT !.thread = ThreadOf(page.card, page.comments)]
<1>1. /\ OnPage /\ used' = used /\ wish' = None /\ page.card # None
      /\ page' = [page EXCEPT !.inputs = StartInput(page.inputs, card)]
  BY DEF TypeNote, Forgets, HasComposer
<1>2. PageOK(page, used) /\ page.mode # "none" /\ page.card \in Card /\ InputsOK(page.inputs) /\ page.comments \in SUBSET Comments
  BY <1>1, OnPageIs
<1>3. card \in Card
  BY <1>2, ThreadOfIs DEF Card
<1> HIDE DEF card
<1>4. InputsOK(StartInput(page.inputs, card))
  BY <1>2, <1>3, StartInputIs
<1>5. /\ PageOK(page', used) /\ page'.mode # "none" /\ page'.comments = page.comments
      /\ page'.active = page.active /\ page'.card = page.card
  BY <1>1, <1>2, <1>4 DEF PageOK, InputsOK
<1> QED
  BY <1>1, <1>5, OnPageIs, OnPageKeeps DEF Wants

LEMMA CloseThreadKeeps ==
    ASSUME CardsInv, CloseThread
    PROVE  CardsInv'
<1> DEFINE closed == {s \in ToSet(page.inputs) : s.block = page.card.block}
           inputs == [i \in DOMAIN page.inputs |-> IF page.inputs[i] \in closed
                                                   THEN [page.inputs[i] EXCEPT !.open = FALSE] ELSE page.inputs[i]]
<1>1. OnPage /\ used' = used /\ wish' = None
  BY DEF CloseThread, Forgets
<1>2. PageOK(page, used) /\ page.mode # "none" /\ InputsOK(page.inputs)
  BY <1>1, OnPageIs
<1>3. page' = [[page EXCEPT !.inputs = inputs] EXCEPT !.card = None, !.active = None]
  BY DEF CloseThread, CloseCard, Collapsed, ToSet
<1> HIDE DEF closed
<1>4. InputsOK(inputs)
  BY <1>2, CollapsedIs
<1> HIDE DEF inputs
<1>5. /\ PageOK(page', used) /\ page'.mode # "none" /\ page'.comments = page.comments /\ page'.active = None
  BY <1>2, <1>3, <1>4 DEF PageOK, InputsOK
<1> QED
  BY <1>1, <1>5, OnPageIs, OnPageKeeps DEF Wants

LEMMA DiscardNoteKeeps ==
    ASSUME CardsInv, DiscardNote
    PROVE  CardsInv'
<1> DEFINE inputs == WithoutInput(page.inputs, page.card.block)
<1>1. /\ OnPage /\ used' = used /\ wish' = None
      /\ page' = [[page EXCEPT !.inputs = inputs] EXCEPT !.card = None, !.active = None]
  BY DEF DiscardNote, Forgets, CloseCard
<1>2. PageOK(page, used) /\ page.mode # "none" /\ InputsOK(page.inputs)
  BY <1>1, OnPageIs
<1>3. InputsOK(inputs)
  BY <1>2, AmongIs DEF WithoutInput
<1> HIDE DEF inputs
<1>4. /\ PageOK(page', used) /\ page'.mode # "none" /\ page'.comments = page.comments /\ page'.active = None
  BY <1>1, <1>2, <1>3 DEF PageOK, InputsOK
<1> QED
  BY <1>1, <1>4, OnPageIs, OnPageKeeps DEF Wants

LEMMA StartNewFeedbackKeeps ==
    ASSUME CardsInv, StartNewFeedback
    PROVE  CardsInv'
<1> DEFINE card == [page.card EXCEPT !.thread = New]
<1>1. /\ OnPage /\ used' = used /\ wish' = None /\ page.card # None
      /\ page' = [page EXCEPT !.inputs = StartInput(page.inputs, card), !.card = card, !.active = None]
  BY DEF StartNewFeedback, Forgets
<1>2. PageOK(page, used) /\ page.mode # "none" /\ page.card \in Card /\ InputsOK(page.inputs)
  BY <1>1, OnPageIs
<1>3. card \in Card
  BY <1>2 DEF Card
<1> HIDE DEF card
<1>4. InputsOK(StartInput(page.inputs, card))
  BY <1>2, <1>3, StartInputIs
<1>5. PageOK(page', used) /\ page'.mode # "none" /\ page'.comments = page.comments /\ page'.active = None
  BY <1>1, <1>2, <1>3, <1>4 DEF PageOK, InputsOK
<1> QED
  BY <1>1, <1>5, OnPageIs, OnPageKeeps DEF Wants

LEMMA SaveDraftKeeps ==
    ASSUME CardsInv, NEW c \in Comments, SaveDraft(c)
    PROVE  CardsInv'
<1> DEFINE inputs == WithoutInput(page.inputs, page.card.block)
           saved == [page EXCEPT !.comments = @ \cup {c}, !.inputs = inputs]
<1>1. /\ OnPage /\ used' = used \cup {c} /\ wish' = None /\ c \notin used
      /\ page' = saved \/ page' = CloseCard(saved)
  BY DEF SaveDraft, Forgets
<1>2. /\ PageOK(page, used) /\ page.mode # "none" /\ InputsOK(page.inputs) /\ used \subseteq Comments
      /\ page.active \in used \cup {None} /\ None \notin used /\ page.comments \subseteq used
  BY <1>1, OnPageIs
<1>3. InputsOK(inputs)
  BY <1>2, AmongIs DEF WithoutInput
<1> HIDE DEF inputs
<1>4. PageOK(page, used') /\ used \subseteq used' /\ used' \subseteq Comments
  BY <1>1, <1>2, MoreKnown
<1>5. /\ PageOK(saved, used') /\ saved.mode = page.mode /\ saved.comments = page.comments \cup {c}
      /\ saved.active = page.active /\ saved.card = page.card
  BY <1>1, <1>3, <1>4 DEF PageOK, InputsOK
<1> HIDE DEF saved
<1>6. /\ PageOK(page', used') /\ page'.mode = page.mode /\ page'.comments = page.comments \cup {c}
      /\ page'.active = None \/ (page'.active = page.active /\ page'.card = page.card)
  BY <1>1, <1>5 DEF PageOK, CloseCard
<1>7. page'.comments \cap used \subseteq page.comments
  BY <1>1, <1>6
<1>8. None \notin Comments
  BY RenderedAssumption
<1>9. Wants(page') => Wants(page)
  BY <1>1, <1>2, <1>6, <1>8 DEF Wants
<1> QED
  BY <1>1, <1>2, <1>4, <1>6, <1>7, <1>9, OnPageIs, OnPageKeeps

LEMMA ResumeInputKeeps ==
    ASSUME CardsInv, NEW b \in Blocks, ResumeInput(b)
    PROVE  CardsInv'
<1> DEFINE inputs == [i \in DOMAIN page.inputs |-> IF page.inputs[i].block = b
                                                   THEN [page.inputs[i] EXCEPT !.open = TRUE] ELSE page.inputs[i]]
<1>1. /\ OnPage /\ used' = used /\ wish' = None
      /\ page' = [page EXCEPT !.resume = b, !.inputs = inputs]
  BY DEF ResumeInput, Forgets
<1>2. PageOK(page, used) /\ page.mode # "none" /\ InputsOK(page.inputs)
  BY <1>1, OnPageIs
<1>3. ASSUME NEW i \in DOMAIN page.inputs
      PROVE  inputs[i] \in Input /\ inputs[i].block = page.inputs[i].block
  <2>1. page.inputs[i] \in Input
    BY <1>2 DEF InputsOK
  <2>2. CASE page.inputs[i].block = b
    BY <2>1, <2>2 DEF Input
  <2>3. CASE page.inputs[i].block # b
    BY <2>1, <2>3
  <2> QED
    BY <2>2, <2>3
<1>4. inputs = [i \in DOMAIN page.inputs |-> inputs[i]]
  OBVIOUS
<1> HIDE DEF inputs
<1>5. InputsOK(inputs)
  BY <1>2, <1>3, <1>4, InputsMapped
<1>6. /\ PageOK(page', used) /\ page'.mode # "none" /\ page'.comments = page.comments
      /\ page'.active = page.active /\ page'.card = page.card
  BY <1>1, <1>2, <1>5 DEF PageOK, InputsOK
<1> QED
  BY <1>1, <1>6, OnPageIs, OnPageKeeps DEF Wants

\* The collapse of the input of a card, and a composer in its place.
AloneAt(inputs, card, b) ==
    \A i \in DOMAIN inputs : ~inputs[i].open \/ inputs[i].block = b \/ CardOf(inputs[i]) = card

Started(q, p, s, b, u) ==
    /\ PageOK(q, u) /\ q.card = [block |-> b, thread |-> New] /\ q.card \in Card
    /\ q.mode = p.mode /\ q.version = p.version /\ q.comments = p.comments /\ q.active = p.active
    /\ q.resume = p.resume
    /\ BlocksOf(q.inputs) = BlocksOf(p.inputs) \cup {b}
    /\ \A i \in DOMAIN q.inputs : q.inputs[i].block = b => CardOf(q.inputs[i]) = q.card
    /\ AloneAt(p.inputs, s.card, b) => Expanded(q.inputs) \subseteq {b}

LEMMA StartCardIs ==
    ASSUME NEW u \in SUBSET Comments, NEW p, PageOK(p, u), NEW s, PageOK(s, u), NEW b \in Blocks,
           NEW q, q = StartCard(p, s, b)
    PROVE  Started(q, p, s, b, u)
<1> DEFINE card == [block |-> b, thread |-> New]
           left == IF s.card = None \/ s.card = card THEN p.inputs ELSE CollapseId(p.inputs, s.card)
           inputs == StartInput(left, card)
           closed == {r \in ToSet(p.inputs) : r.block = s.card.block /\ r.thread = s.card.thread}
<1>1. q = [p EXCEPT !.card = card, !.inputs = inputs]
  BY DEF StartCard
<1>2. InputsOK(p.inputs) /\ s.card \in Card \cup {None}
  BY DEF PageOK
<1>3. card \in Card /\ card.block = b /\ card.thread = New
  BY DEF Card
<1>4. /\ InputsOK(left) /\ BlocksOf(left) = BlocksOf(p.inputs)
      /\ AloneAt(p.inputs, s.card, b) => Expanded(left) \subseteq {b}
  <2>1. \A i \in DOMAIN p.inputs : CardOf(p.inputs[i]) \in Card
    BY <1>2, InputsAre
  <2>2. CASE s.card = None \/ s.card = card
    <3>1. left = p.inputs
      BY <2>2
    <3>2. None \notin Card
      BY RenderedAssumption DEF Card
    <3>3. \A i \in DOMAIN p.inputs : CardOf(p.inputs[i]) = s.card => p.inputs[i].block = b
      BY <2>1, <2>2, <3>2, <1>3 DEF CardOf
    <3> HIDE DEF left
    <3> QED
      BY <1>2, <3>1, <3>3 DEF Expanded, AloneAt
  <2>3. CASE s.card # None /\ s.card # card
    <3> DEFINE tt == [i \in DOMAIN p.inputs |-> IF p.inputs[i] \in closed
                                                THEN [p.inputs[i] EXCEPT !.open = FALSE] ELSE p.inputs[i]]
    <3>1. left = tt
      BY <2>3 DEF CollapseId, Collapsed, ToSet
    <3>2. \A i \in DOMAIN p.inputs : p.inputs[i] \in closed <=> CardOf(p.inputs[i]) = s.card
      BY <1>2, <2>3 DEF Card, CardOf, ToSet
    <3> HIDE DEF closed
    <3>3. /\ InputsOK(tt) /\ DOMAIN tt = DOMAIN p.inputs /\ BlocksOf(tt) = BlocksOf(p.inputs)
          /\ \A i \in DOMAIN p.inputs : /\ tt[i].block = p.inputs[i].block
                                        /\ tt[i].open => p.inputs[i].open /\ p.inputs[i] \notin closed
      BY <1>2, CollapsedIs
    <3> HIDE DEF tt, left
    <3> QED
      BY <3>1, <3>2, <3>3 DEF Expanded, AloneAt
  <2> QED
    BY <1>2, <2>2, <2>3
<1> HIDE DEF left, card
<1>5. /\ InputsOK(inputs) /\ BlocksOf(inputs) = BlocksOf(left) \cup {card.block}
      /\ Expanded(inputs) \subseteq Expanded(left) \cup {card.block}
      /\ \A i \in DOMAIN inputs : inputs[i].block = card.block => inputs[i].thread = card.thread
  BY <1>3, <1>4, StartInputIs
<1> HIDE DEF inputs
<1>6. PageOK(q, u) /\ q.card = card /\ q.inputs = inputs
  BY <1>1, <1>3, <1>5 DEF PageOK, InputsOK
<1>7. /\ q.mode = p.mode /\ q.version = p.version /\ q.comments = p.comments /\ q.active = p.active
      /\ q.resume = p.resume
  BY <1>1 DEF PageOK
<1>8. card = [block |-> b, thread |-> New]
  BY DEF card
<1> QED
  BY <1>3, <1>4, <1>5, <1>6, <1>7, <1>8 DEF CardOf, Started

LEMMA Requests ==
    ASSUME CardsInv, page = seen, page.mode = "rendered"
    PROVE  page.resume \notin BlocksOf(page.inputs)
  BY InputsAre, NoneIsNothing DEF CardsInv, CardsTyped, PageOK, EffectsFit

LEMMA ClickInPageKeeps ==
    ASSUME CardsInv, NEW b \in Blocks, ClickInPage(b)
    PROVE  CardsInv'
<1> DEFINE c == FirstOf(AtBlock(page.comments, b))
           card == [block |-> b, thread |-> c]
<1>1. /\ viewer = "markdown" /\ page.mode = "rendered" /\ AtBlock(page.comments, b) # {} /\ OnPage /\ used' = used
      /\ page' = [[page EXCEPT !.card = card] EXCEPT !.active = c] /\ Wishes(card)
  BY DEF ClickInPage, OpenCard
<1>2. /\ PageOK(page, used) /\ page = seen /\ page.comments \subseteq used /\ used \subseteq Comments /\ InputsOK(page.inputs)
      /\ viewer' = viewer /\ None \notin Card /\ UNCHANGED <<viewer, seen>>
  BY <1>1, OnPageIs
<1>3. c \in page.comments
  BY <1>1, <1>2, RenderedAssumption, FirstIs DEF AtBlock
<1> HIDE DEF c
<1>4. card \in Card /\ card.block = b /\ card.thread # New
  BY <1>2, <1>3, RenderedAssumption DEF Card
<1>5. Idle
  BY <1>1, <1>2 DEF Idle
<1>6. wish' \in [card : Card, alone : BOOLEAN] /\ wish'.card = card
  BY <1>1, <1>4, <1>5 DEF Wishes
<1>12. ASSUME wish'.alone PROVE \A i \in DOMAIN page.inputs : ~page.inputs[i].open \/ page.inputs[i].block = b
  BY <1>1, <1>4, <1>5, <1>12 DEF Wishes
<1> HIDE DEF card
<1>7. /\ PageOK(page', used) /\ page'.mode = "rendered" /\ page'.comments = page.comments
      /\ page'.card = card /\ page'.inputs = page.inputs /\ page'.resume = page.resume
  BY <1>1, <1>2, <1>3, <1>4 DEF PageOK
<1>8. ~Wants(page')
  BY <1>2, <1>4, <1>7 DEF Wants
<1>9. page.resume \notin BlocksOf(page.inputs)
  BY <1>1, <1>2, Requests
<1>10. ASSUME wish'.alone PROVE WishIsOpen'
  BY <1>4, <1>6, <1>7, <1>9, <1>10, <1>12 DEF Expanded, WishIsOpen
<1>11. WishFits'
  BY <1>1, <1>2, <1>7, <1>10 DEF WishFits
<1>13. used \subseteq used' /\ used' \subseteq Comments /\ PageOK(page', used') /\ page'.mode # "none"
       /\ page'.comments \cap used \subseteq page.comments
  BY <1>1, <1>2, <1>7
<1>14. UNCHANGED <<viewer, seen, frame, toFrame, toPage, settling>>
  BY <1>1, OnPageIs
<1> QED
  BY <1>2, <1>6, <1>8, <1>11, <1>13, <1>14, OnPageKeeps

LEMMA DoubleClickInPageKeeps ==
    ASSUME CardsInv, NEW b \in Blocks, DoubleClickInPage(b)
    PROVE  CardsInv'
<1> DEFINE card == [block |-> b, thread |-> New]
           q == StartCard(page, page, b)
<1>1. /\ viewer = "markdown" /\ page.mode = "rendered" /\ OnPage /\ used' = used
      /\ page' = [q EXCEPT !.active = None] /\ Wishes(card)
  BY DEF DoubleClickInPage
<1>2. /\ PageOK(page, used) /\ page = seen /\ used \in SUBSET Comments /\ InputsOK(page.inputs)
      /\ viewer' = viewer /\ None \notin Card /\ UNCHANGED <<viewer, seen>>
  BY <1>1, OnPageIs
<1>3. /\ PageOK(q, used) /\ q.card = card /\ card \in Card
      /\ q.mode = page.mode /\ q.comments = page.comments /\ q.resume = page.resume
      /\ BlocksOf(q.inputs) = BlocksOf(page.inputs) \cup {b}
      /\ AloneAt(page.inputs, page.card, b) => Expanded(q.inputs) \subseteq {b}
  <2>1. Started(q, page, page, b, used)
    BY <1>2, StartCardIs
  <2> HIDE DEF q
  <2> QED
    BY <2>1 DEF Started
<1>4. Idle
  BY <1>1, <1>2 DEF Idle
<1>5. wish' \in [card : Card, alone : BOOLEAN] /\ wish'.card = card
  BY <1>1, <1>3, <1>4 DEF Wishes
<1>12. ASSUME wish'.alone
       PROVE  AloneAt(page.inputs, page.card, b)
  BY <1>1, <1>3, <1>4, <1>12 DEF Wishes, AloneAt
<1>6. card.block = b
  OBVIOUS
<1> HIDE DEF card, q
<1>8. /\ PageOK(page', used) /\ page'.mode = "rendered" /\ page'.comments = page.comments /\ page'.active = None
      /\ page'.card = card /\ page'.inputs = q.inputs /\ page'.resume = page.resume
  BY <1>1, <1>2, <1>3 DEF PageOK
<1>9. ~Wants(page')
  BY <1>2, <1>3, <1>8 DEF Wants
<1>10. page.resume \notin BlocksOf(page.inputs)
  BY <1>1, <1>2, Requests
<1>13. ASSUME wish'.alone PROVE WishIsOpen'
  BY <1>3, <1>5, <1>6, <1>8, <1>10, <1>12, <1>13 DEF WishIsOpen
<1>11. WishFits'
  BY <1>1, <1>2, <1>8, <1>13 DEF WishFits
<1>14. used \subseteq used' /\ used' \subseteq Comments /\ PageOK(page', used') /\ page'.mode # "none"
       /\ page'.comments \cap used \subseteq page.comments
  BY <1>1, <1>2, <1>8
<1>15. UNCHANGED <<viewer, seen, frame, toFrame, toPage, settling>>
  BY <1>1, OnPageIs
<1> QED
  BY <1>2, <1>5, <1>9, <1>11, <1>14, <1>15, OnPageKeeps

-----------------------------------------------------------------------------
(* Others *)

\* The page changes, but neither its card nor its inputs; nothing else does.
LEMMA ElsewhereKeeps ==
    ASSUME CardsInv, UNCHANGED <<viewer, seen, frame, toFrame, toPage, settling>>,
           used \subseteq used', used' \subseteq Comments, PageOK(page', used'),
           page'.mode = page.mode, page'.active = page.active, page'.card = page.card, page'.inputs = page.inputs,
           page'.resume = page.resume,
           page'.comments \cap used \subseteq page.comments,
           \/ wish' = None
           \/ wish' = wish /\ page' = [page EXCEPT !.comments = page'.comments] /\ page.comments \subseteq page'.comments
    PROVE  CardsInv'
<1>1. CardsTyped /\ FrameFits /\ CommentsFit /\ PendingFits /\ ActiveFits /\ EffectsFit /\ WishFits
  BY DEF CardsInv
<1>2. CardsTyped'
  BY <1>1, MoreKnown DEF CardsTyped
<1>3. FrameFits'
  BY <1>1 DEF FrameFits, LastPosted, Unheard
<1>4. CommentsFit'
  <2>1. ASSUME NEW comments \in SUBSET used, Known(comments) PROVE Known(comments)'
    BY <2>1 DEF Known
  <2>2. ShownIn(frame) \in SUBSET used
    BY <1>1 DEF CardsTyped, Frames, PostedStates, ShownIn
  <2>3. \A i \in DOMAIN toFrame : toFrame[i].comments \in SUBSET used
    <3>1. \A i \in DOMAIN toFrame : toFrame[i] \in PostedStates(used)
      BY <1>1 DEF CardsTyped
    <3> QED
      BY <3>1 DEF PostedStates
  <2>4. \A k \in DOMAIN toPage : toPage[k].type = "open" => {toPage[k].id} \in SUBSET used
    BY <1>1 DEF CardsTyped, Messages
  <2>5. ShownIn(frame') = ShownIn(frame)
    OBVIOUS
  <2> QED
    BY <1>1, <2>1, <2>2, <2>3, <2>4, <2>5 DEF CommentsFit
<1>5. PendingFits'
  BY <1>1 DEF PendingFits, Asks
<1>6. ActiveFits'
  <2>1. Wants(page') => Wants(page)
    BY <1>1, NoneIsNothing DEF CardsTyped, PageOK, Wants
  <2> QED
    BY <1>1, <2>1 DEF ActiveFits, AskedFor
<1>7. EffectsFit'
  BY <1>1 DEF EffectsFit, Wants
<1>8. WishFits'
  <2>1. CASE wish' = None
    BY <2>1 DEF WishFits
  <2>2. CASE wish' = wish /\ page' = [page EXCEPT !.comments = page'.comments] /\ page.comments \subseteq page'.comments
    <3>1. page'.version = page.version
      BY <1>1, <2>2 DEF CardsTyped, PageOK
    <3>2. WishStands => WishStands'
      BY <2>2 DEF WishStands
    <3>3. WishIsOpen => WishIsOpen'
      BY <2>2 DEF WishIsOpen
    <3>4. WishWaits => WishWaits'
      BY <1>1, <2>2 DEF WishWaits, CardsTyped, PageOK, AsksFor
    <3> QED
      BY <1>1, <2>2, <3>1, <3>2, <3>3, <3>4 DEF WishFits
  <2> QED
    BY <2>1, <2>2
<1> QED
  BY <1>2, <1>3, <1>4, <1>5, <1>6, <1>7, <1>8 DEF CardsInv

LEMMA OthersKeep ==
    ASSUME CardsInv, \/ \E c \in Comments : CommentAdded(c) \/ CommentDeleted(c)
                     \/ FileChanged
    PROVE  CardsInv'
<1>1. CardsTyped /\ PageOK(page, used) /\ used \subseteq Comments /\ page.comments \subseteq used
  BY DEF CardsInv, CardsTyped, PageOK
<1>2. ASSUME NEW c \in Comments, CommentAdded(c) PROVE CardsInv'
  BY <1>1, <1>2, MoreKnown, ElsewhereKeeps DEF CommentAdded, PageOK
<1>3. ASSUME NEW c \in Comments, CommentDeleted(c) PROVE CardsInv'
  BY <1>1, <1>3, ElsewhereKeeps DEF CommentDeleted, Forgets, PageOK
<1>4. ASSUME FileChanged PROVE CardsInv'
  BY <1>1, <1>4, ElsewhereKeeps DEF FileChanged, Forgets, PageOK
<1> QED
  BY <1>2, <1>3, <1>4

-----------------------------------------------------------------------------
(* The start, and what changes nothing *)

LEMMA CardsStart ==
    ASSUME RenderedInit
    PROVE  CardsInv
<1>1. /\ viewer \in {"html", "markdown"} /\ used \in SUBSET Comments
      /\ page = [mode |-> "rendered", version |-> 1, comments |-> used, active |-> None, card |-> None,
                 inputs |-> <<>>, resume |-> None]
      /\ seen = [page EXCEPT !.mode = "none"]
      /\ frame = NoFrame /\ toFrame = <<>> /\ toPage = <<>> /\ wish = None /\ settling = FALSE
  BY RenderedAssumption DEF RenderedInit
<1>2. InputsOK(<<>>)
  BY DEF InputsOK
<1>3. PageOK(page, used) /\ page.mode = "rendered" /\ page.active = None
  BY <1>1, <1>2 DEF PageOK, InputsOK
<1>4. PageOK(seen, used) /\ seen.mode = "none"
  BY <1>1, <1>2 DEF PageOK, InputsOK
<1>5. frame \in Frames(used) /\ frame.phase = "none" /\ frame.state = None /\ ~frame.pending
  BY <1>1 DEF Frames, NoFrame, Phases
<1>6. CardsTyped
  <2>1. toFrame \in Seq(PostedStates(used)) /\ toPage \in Seq(Messages(used))
    BY <1>1
  <2>2. settling \in BOOLEAN /\ wish \in [card : Card, alone : BOOLEAN] \cup {None} /\ page.mode # "none"
    BY <1>1, <1>3
  <2> QED
    BY <1>1, <1>3, <1>4, <1>5, <2>1, <2>2 DEF CardsTyped
<1>7. FrameFits
  BY <1>1, <1>4, <1>5 DEF FrameFits
<1>8. CommentsFit
  BY <1>1, <1>5 DEF CommentsFit, ShownIn, Known
<1>9. PendingFits
  BY <1>5 DEF PendingFits
<1>10. ActiveFits
  BY <1>1, <1>3, RenderedAssumption DEF ActiveFits, Wants
<1>11. EffectsFit /\ WishFits
  BY <1>1, <1>4 DEF EffectsFit, WishFits
<1> QED
  BY <1>6, <1>7, <1>8, <1>9, <1>10, <1>11 DEF CardsInv

LEMMA CardsRest ==
    ASSUME CardsInv, UNCHANGED renderedVars
    PROVE  CardsInv'
<1>1. UNCHANGED <<viewer, page, seen, frame, toFrame, toPage, used, wish, settling>>
  BY DEF renderedVars
<1>2. CardsTyped' /\ FrameFits' /\ CommentsFit'
  BY <1>1 DEF CardsInv, CardsTyped, FrameFits, LastPosted, Unheard, CommentsFit, Known
<1>3. PendingFits' /\ ActiveFits' /\ EffectsFit'
  BY <1>1 DEF CardsInv, PendingFits, Asks, ActiveFits, AskedFor, EffectsFit
<1>4. WishFits'
  BY <1>1 DEF CardsInv, WishFits, WishWaits, WishStands, WishIsOpen, AsksFor
<1> QED
  BY <1>2, <1>3, <1>4 DEF CardsInv

-----------------------------------------------------------------------------
(* What the reader does in the frame *)

LEMMA MessageIs ==
    ASSUME NEW c \in Comments, NEW u, c \in u, RenderedAssumption
    PROVE  OpenMessage(c) \in Messages(u) /\ OpenMessage(c).type = "open" /\ OpenMessage(c).id = c
           /\ OpenMessage(c).block = BlockOf[c]
  BY DEF OpenMessage, Messages

LEMMA SendsKeeps ==
    ASSUME CardsInv, UNCHANGED <<viewer, page, seen, toFrame, used, settling>>,
           viewer = "html", frame.phase \in {"listening", "ready"},
           NEW waits \in BOOLEAN, frame' = [frame EXCEPT !.pending = waits],
           NEW message \in Messages(used), toPage' = Append(toPage, message),
           message.type = "open" => message.id \in ShownIn(frame),
           waits => Asks(message),
           wish' \in [card : Card, alone : BOOLEAN] \cup {None}, wish' # None => WishFits'
    PROVE  CardsInv'
<1>1. CardsTyped /\ FrameFits /\ CommentsFit /\ PendingFits /\ ActiveFits /\ EffectsFit
  BY DEF CardsInv
<1>2. /\ frame' \in Frames(used) /\ frame'.phase = frame.phase /\ frame'.state = frame.state /\ frame'.pending = waits
      /\ toPage \in Seq(Messages(used))
  BY <1>1 DEF CardsTyped, Frames
<1>3. /\ toPage' \in Seq(Messages(used)) /\ Len(toPage') = Len(toPage) + 1 /\ Len(toPage) \in Nat
      /\ DOMAIN toPage' = 1..(Len(toPage) + 1) /\ DOMAIN toPage = 1..Len(toPage)
      /\ toPage'[Len(toPage) + 1] = message /\ \A k \in DOMAIN toPage : k \in DOMAIN toPage' /\ toPage'[k] = toPage[k]
      /\ toPage' # <<>>
  BY <1>2
<1>4. CardsTyped'
  BY <1>1, <1>2, <1>3 DEF CardsTyped
<1>5. FrameFits'
  BY <1>1, <1>2 DEF FrameFits, LastPosted, Unheard
<1>6. CommentsFit'
  <2>1. ShownIn(frame') = ShownIn(frame) /\ \A comments : Known(comments)' <=> Known(comments)
    BY <1>2 DEF ShownIn, Known
  <2>2. ASSUME NEW k \in DOMAIN toPage', toPage'[k].type = "open" PROVE Known({toPage'[k].id})
    <3>1. CASE k \in DOMAIN toPage
      BY <1>1, <1>3, <2>2, <3>1 DEF CommentsFit
    <3>2. CASE k \notin DOMAIN toPage
      BY <1>1, <1>3, <2>2, <3>2 DEF CommentsFit, Known
    <3> QED
      BY <3>1, <3>2
  <2> QED
    BY <1>1, <2>1, <2>2 DEF CommentsFit, Known
<1>7. PendingFits'
  BY <1>2, <1>3 DEF ShownIn, PendingFits, Asks
<1>8. ActiveFits'
  BY <1>1, <1>2, <1>3 DEF ActiveIn, AskedFor, ActiveFits
<1>9. EffectsFit'
  BY <1>1 DEF EffectsFit
<1>10. WishFits'
  BY DEF WishFits
<1> QED
  BY <1>4, <1>5, <1>6, <1>7, <1>8, <1>9, <1>10 DEF CardsInv

\* A frame at rest knows the page, and nothing is on its way.
LEMMA AtRest ==
    ASSUME CardsInv, Idle, viewer = "html", page.mode = "rendered"
    PROVE  /\ page = seen /\ frame.phase = "ready" /\ toFrame = <<>> /\ toPage = <<>> /\ seen.mode = "rendered"
           /\ frame.state = Posted(seen) /\ frame.state # None
  BY PostedIs, NoneIsNothing DEF Idle, CardsInv, CardsTyped, FrameFits, Unheard, LastPosted

\* A card that is asked for in a frame at rest waits for its message.
LEMMA AskingWaits ==
    ASSUME CardsInv, InFrame, NEW message, NEW card \in Card, AsksFor(message, card), toPage' = Append(toPage, message),
           frame' = [frame EXCEPT !.pending = TRUE], Wishes(card)
    PROVE  wish' \in [card : Card, alone : BOOLEAN] \cup {None} /\ (wish' # None => WishFits')
<1>1. /\ viewer = "html" /\ frame.phase \in {"listening", "ready"}
      /\ UNCHANGED <<viewer, page, seen, toFrame, used, settling>>
  BY DEF InFrame
<1>2. CardsTyped /\ FrameFits /\ PageOK(seen, used) /\ PageOK(page, used)
  BY DEF CardsInv, CardsTyped
<1>3. CASE ~Idle
  BY <1>3 DEF Wishes
<1>4. CASE Idle
  BY <1>1, <1>2, <1>4, AtRest, Requests DEF Wishes, Idle, FrameFits, CardsTyped, Frames, PageOK, AsksFor,
     WishWaits, WishFits
<1> QED
  BY <1>3, <1>4

LEMMA ClickInFrameKeeps ==
    ASSUME CardsInv, NEW b \in Blocks, ClickInFrame(b)
    PROVE  CardsInv'
<1> DEFINE c == FirstOf(AtBlock(ShownIn(frame), b))
           card == [block |-> b, thread |-> c]
<1>1. /\ InFrame /\ AtBlock(ShownIn(frame), b) # {} /\ frame' = [frame EXCEPT !.pending = TRUE]
      /\ toPage' = Append(toPage, OpenMessage(c)) /\ Wishes(card)
  BY DEF ClickInFrame, FrameSends
<1>2. /\ viewer = "html" /\ frame.phase \in {"listening", "ready"}
      /\ UNCHANGED <<viewer, page, seen, toFrame, used, settling>>
  BY <1>1 DEF InFrame
<1>3. CardsTyped /\ FrameFits /\ PageOK(seen, used) /\ used \in SUBSET Comments
  BY DEF CardsInv, CardsTyped
<1>4. ShownIn(frame) \subseteq used
  BY <1>3 DEF CardsTyped, Frames, PostedStates, ShownIn
<1>5. c \in ShownIn(frame) /\ BlockOf[c] = b
  <2>1. AtBlock(ShownIn(frame), b) \in SUBSET Nat
    BY <1>3, <1>4, RenderedAssumption DEF AtBlock
  <2>2. c \in AtBlock(ShownIn(frame), b)
    BY <1>1, <2>1, FirstIs
  <2> QED
    BY <2>2 DEF AtBlock
<1> HIDE DEF c
<1>6. c \in used /\ c \in Comments
  BY <1>3, <1>4, <1>5
<1>7. OpenMessage(c) \in Messages(used) /\ OpenMessage(c).type = "open" /\ OpenMessage(c).id = c /\ OpenMessage(c).block = b
  BY <1>5, <1>6, MessageIs, RenderedAssumption
<1>8. card \in Card /\ card.block = b /\ card.thread = c
  BY <1>6 DEF Card
<1> HIDE DEF card
<1>9. wish' \in [card : Card, alone : BOOLEAN] \cup {None} /\ (wish' # None => WishFits')
  <2>1. CASE c \in seen.comments
    BY <1>1, <1>7, <1>8, <2>1, AskingWaits DEF AsksFor
  <2>2. CASE c \notin seen.comments
    <3>1. ~Idle
      BY <1>2, <1>3, <1>5, <2>2, AtRest, PostedIs DEF Idle, FrameFits, ShownIn
    <3> QED
      BY <1>1, <3>1 DEF Wishes
  <2> QED
    BY <2>1, <2>2
<1>10. Asks(OpenMessage(c))
  BY <1>5, <1>7 DEF Asks
<1> QED
  BY <1>1, <1>2, <1>5, <1>7, <1>9, <1>10, SendsKeeps

LEMMA DoubleClickInFrameKeeps ==
    ASSUME CardsInv, NEW b \in Blocks, DoubleClickInFrame(b)
    PROVE  CardsInv'
  BY AskingWaits, SendsKeeps DEF DoubleClickInFrame, FrameSends, InFrame, Messages, Card, Asks, AsksFor

LEMMA ClickOutsideKeeps ==
    ASSUME CardsInv, ClickOutside
    PROVE  CardsInv'
  BY SendsKeeps DEF ClickOutside, InFrame, Messages

-----------------------------------------------------------------------------
(* The frame *)

LEMMA FrameListensKeeps ==
    ASSUME CardsInv, FrameListens
    PROVE  CardsInv'
<1>1. /\ frame.phase = "loading" /\ page = seen /\ frame' = [frame EXCEPT !.phase = "listening"]
      /\ UNCHANGED <<viewer, page, seen, toFrame, toPage, used, wish, settling>>
  BY DEF FrameListens
<1>2. CardsTyped /\ FrameFits /\ CommentsFit /\ PendingFits /\ ActiveFits /\ EffectsFit /\ WishFits
  BY DEF CardsInv
<1>3. frame = LoadingFrame /\ toFrame = <<>> /\ frame.state = None /\ ~frame.pending
  BY <1>1, <1>2 DEF FrameFits, LoadingFrame
<1>4. frame' \in Frames(used) /\ frame'.phase = "listening" /\ frame'.state = None /\ ~frame'.pending
  BY <1>1, <1>2, <1>3 DEF CardsTyped, Frames, Phases
<1>5. CardsTyped'
  BY <1>1, <1>2, <1>4 DEF CardsTyped
<1>6. FrameFits'
  BY <1>1, <1>2, <1>3, <1>4 DEF FrameFits, Unheard, NoFrame, LoadingFrame
<1>7. CommentsFit'
  BY <1>1, <1>2, <1>3, <1>4 DEF CommentsFit, ShownIn, Known
<1>8. PendingFits'
  BY <1>4 DEF PendingFits
<1>9. ActiveFits'
  BY <1>1, <1>2, <1>3, <1>4 DEF ActiveIn, ActiveFits, AskedFor
<1>10. EffectsFit'
  BY <1>1, <1>2 DEF EffectsFit
<1>11. WishFits'
  BY <1>1, <1>2 DEF FrameFits, NoFrame, WishFits, CardsTyped
<1> QED
  BY <1>5, <1>6, <1>7, <1>8, <1>9, <1>10, <1>11 DEF CardsInv

\* What is added to a sequence.
LEMMA AppendIs ==
    ASSUME NEW S, NEW ss \in Seq(S), NEW e \in S, NEW tt, tt = Append(ss, e)
    PROVE  /\ tt \in Seq(S) /\ tt # <<>> /\ Len(tt) = Len(ss) + 1 /\ Len(ss) \in Nat
           /\ DOMAIN tt = 1..(Len(ss) + 1) /\ DOMAIN ss = 1..Len(ss)
           /\ tt[Len(ss) + 1] = e /\ \A i \in DOMAIN ss : tt[i] = ss[i]
  OBVIOUS

Shifted(ss, tt, S) ==
    /\ tt \in Seq(S) /\ Len(ss) \in Nat /\ Len(ss) > 0 /\ Len(tt) = Len(ss) - 1 /\ Head(ss) = ss[1] /\ 1 \in DOMAIN ss
    /\ DOMAIN tt = 1..(Len(ss) - 1) /\ DOMAIN ss = 1..Len(ss)
    /\ \A i \in DOMAIN tt : i + 1 \in DOMAIN ss /\ tt[i] = ss[i + 1]
    /\ \A i \in DOMAIN ss : i = 1 \/ (i - 1 \in DOMAIN tt /\ tt[i - 1] = ss[i])
    /\ tt = <<>> <=> Len(ss) = 1

LEMMA TailIs ==
    ASSUME NEW S, NEW ss \in Seq(S), ss # <<>>, NEW tt, tt = Tail(ss)
    PROVE  Shifted(ss, tt, S)
<1>1. /\ tt \in Seq(S) /\ Len(ss) \in Nat /\ Len(ss) > 0 /\ Len(tt) = Len(ss) - 1 /\ Head(ss) = ss[1] /\ 1 \in DOMAIN ss
      /\ DOMAIN tt = 1..(Len(ss) - 1) /\ DOMAIN ss = 1..Len(ss)
      /\ \A i \in DOMAIN tt : i + 1 \in DOMAIN ss /\ tt[i] = ss[i + 1]
  OBVIOUS
<1>2. ASSUME NEW i \in DOMAIN ss, i # 1 PROVE i - 1 \in DOMAIN tt /\ tt[i - 1] = ss[i]
  BY <1>1, <1>2
<1>3. tt = <<>> <=> Len(tt) = 0
  BY <1>1
<1> QED
  BY <1>1, <1>2, <1>3 DEF Shifted

LEMMA FrameLoadsKeeps ==
    ASSUME CardsInv, FrameLoads
    PROVE  CardsInv'
<1>1. /\ frame.phase = "listening" /\ frame' = [frame EXCEPT !.phase = "ready"] /\ toFrame' = Append(toFrame, Posted(seen))
      /\ UNCHANGED <<viewer, page, seen, toPage, used, wish, settling>>
  BY DEF FrameLoads, OnLoad
<1>2. CardsTyped /\ FrameFits /\ CommentsFit /\ PendingFits /\ ActiveFits /\ EffectsFit /\ WishFits /\ PageOK(seen, used)
  BY DEF CardsInv, CardsTyped
<1>3. frame' \in Frames(used) /\ frame'.phase = "ready" /\ frame'.state = frame.state /\ frame'.pending = frame.pending
  BY <1>1, <1>2 DEF CardsTyped, Frames, Phases
<1>4. /\ Posted(seen) \in PostedStates(used) /\ Posted(seen).comments = seen.comments /\ Posted(seen).active = seen.active
      /\ WantsIn(Posted(seen)) <=> Wants(seen)
  BY <1>2, PostedIs
<1>5. /\ toFrame' \in Seq(PostedStates(used)) /\ toFrame' # <<>> /\ Len(toFrame') = Len(toFrame) + 1 /\ Len(toFrame) \in Nat
      /\ DOMAIN toFrame' = 1..(Len(toFrame) + 1) /\ DOMAIN toFrame = 1..Len(toFrame)
      /\ toFrame'[Len(toFrame) + 1] = Posted(seen) /\ \A i \in DOMAIN toFrame : toFrame'[i] = toFrame[i]
  BY <1>1, <1>2, <1>4, AppendIs DEF CardsTyped
<1>6. CardsTyped'
  BY <1>1, <1>2, <1>3, <1>5 DEF CardsTyped
<1>7. FrameFits'
  BY <1>1, <1>2, <1>3, <1>5 DEF LastPosted, FrameFits, NoFrame
<1>8. CommentsFit'
  BY <1>1, <1>2, <1>3, <1>4, <1>5 DEF ShownIn, Known, CommentsFit
<1>9. PendingFits'
  BY <1>1, <1>2, <1>3, <1>5 DEF ShownIn, PendingFits, Asks
<1>10. ActiveFits'
  <2>1. ActiveIn(frame') = ActiveIn(frame)
    BY <1>3 DEF ActiveIn
  <2>2. \A i \in DOMAIN toFrame : i \in DOMAIN toFrame'
    BY <1>5
  <2> SUFFICES ASSUME viewer = "html", page.mode = "rendered", Wants(page)
               PROVE  \A i \in DOMAIN toFrame' :
                        (\A j \in i..Len(toFrame') : toFrame'[j].active = page.active) => WantsIn(toFrame'[i])
    BY <1>1, <1>2, <1>3, <1>5, <2>1, <2>2 DEF ActiveFits, AskedFor
  <2> SUFFICES ASSUME NEW i \in DOMAIN toFrame', \A j \in i..Len(toFrame') : toFrame'[j].active = page.active
               PROVE  WantsIn(toFrame'[i])
    OBVIOUS
  <2>3. CASE i \in DOMAIN toFrame
    <3>1. \A j \in i..Len(toFrame) : toFrame[j].active = page.active
      BY <1>5, <2>3
    <3>2. WantsIn(toFrame[i])
      BY <1>2, <2>3, <3>1 DEF ActiveFits
    <3> QED
      BY <1>5, <2>3, <3>2
  <2>4. CASE i \notin DOMAIN toFrame
    BY <1>1, <1>2, <1>4, <1>5, <2>4 DEF ActiveFits
  <2> QED
    BY <2>3, <2>4
<1>11. EffectsFit'
  BY <1>1, <1>2 DEF EffectsFit
<1>12. WishFits'
  BY <1>1, <1>2 DEF FrameFits, NoFrame, WishFits, CardsTyped
<1> QED
  BY <1>6, <1>7, <1>8, <1>9, <1>10, <1>11, <1>12 DEF CardsInv

-----------------------------------------------------------------------------

\* A message for the frame is taken: its state becomes another one, or was known.
LEMMA FrameTakesKeeps ==
    ASSUME CardsInv, FrameTakes
    PROVE  CardsInv'
<1> DEFINE state == Head(toFrame)
           after == Taken(frame, state)
           opens == /\ state.active # None /\ state.active # ActiveIn(frame) /\ ~ThreadIsOpen(after)
                    /\ state.active \in state.comments
<1>1. /\ toFrame # <<>> /\ toFrame' = Tail(toFrame)
      /\ UNCHANGED <<viewer, page, seen, used, wish, settling>>
      /\ state = frame.state => UNCHANGED <<frame, toPage>>
      /\ state # frame.state => /\ frame' = IF opens THEN [after EXCEPT !.pending = TRUE] ELSE after
                                /\ toPage' = IF opens THEN Append(toPage, OpenMessage(state.active)) ELSE toPage
  BY DEF FrameTakes
<1>2. CardsTyped /\ FrameFits /\ CommentsFit /\ PendingFits /\ ActiveFits /\ EffectsFit /\ WishFits
      /\ used \subseteq Comments /\ PageOK(page, used) /\ frame \in Frames(used)
  BY DEF CardsInv, CardsTyped
<1>3. /\ toFrame \in Seq(PostedStates(used)) /\ toPage \in Seq(Messages(used))
  BY <1>2 DEF CardsTyped
<1>4. /\ toFrame' \in Seq(PostedStates(used)) /\ Len(toFrame) \in Nat /\ Len(toFrame) > 0 /\ Len(toFrame') = Len(toFrame) - 1
      /\ state = toFrame[1] /\ 1 \in DOMAIN toFrame
      /\ DOMAIN toFrame' = 1..(Len(toFrame) - 1) /\ DOMAIN toFrame = 1..Len(toFrame)
      /\ \A i \in DOMAIN toFrame' : i + 1 \in DOMAIN toFrame /\ toFrame'[i] = toFrame[i + 1]
      /\ \A i \in DOMAIN toFrame : i = 1 \/ (i - 1 \in DOMAIN toFrame' /\ toFrame'[i - 1] = toFrame[i])
      /\ toFrame' = <<>> <=> Len(toFrame) = 1
  <2>1. toFrame # <<>> /\ toFrame' = Tail(toFrame) /\ state = Head(toFrame) /\ toFrame \in Seq(PostedStates(used))
    BY <1>1, <1>3
  <2>2. Shifted(toFrame, toFrame', PostedStates(used))
    BY <2>1, TailIs
  <2> QED
    BY <2>1, <2>2 DEF Shifted
<1>5. state \in PostedStates(used) /\ None \notin PostedStates(used) /\ None \notin used /\ state # None
  BY <1>2, <1>3, <1>4, NoneIsNothing
<1>6. /\ after \in Frames(used) /\ after.phase = frame.phase /\ after.state = state /\ ~after.pending
      /\ [after EXCEPT !.pending = TRUE] \in Frames(used) /\ [after EXCEPT !.pending = TRUE].phase = frame.phase
      /\ [after EXCEPT !.pending = TRUE].state = state
  BY <1>2, <1>5 DEF Taken, Frames
<1>7. opens <=> WantsIn(state) /\ state.active # ActiveIn(frame)
  BY <1>5, <1>6 DEF PostedStates, ThreadIsOpen, WantsIn
<1> HIDE DEF opens, after, state
\* What frame and messages are in either case.
<1>8. /\ frame' \in Frames(used) /\ frame'.phase = frame.phase /\ frame'.state = state
      /\ state # frame.state => (frame'.pending => opens)
      /\ state = frame.state => frame' = frame /\ toPage' = toPage
      /\ ~opens => toPage' = toPage
  BY <1>1, <1>2, <1>6
<1>9. \/ toPage' = toPage
      \/ /\ opens /\ toPage' = Append(toPage, OpenMessage(state.active)) /\ state # frame.state
  BY <1>1
<1>10. ASSUME opens
       PROVE  /\ OpenMessage(state.active) \in Messages(used) /\ OpenMessage(state.active).type = "open"
              /\ OpenMessage(state.active).id = state.active
  BY <1>2, <1>5, <1>7, <1>10, MessageIs, RenderedAssumption DEF PostedStates, WantsIn
<1>11. toPage' \in Seq(Messages(used))
  <2> HIDE DEF Messages
  <2> QED
    BY <1>3, <1>9, <1>10
<1>12. /\ \A k \in DOMAIN toPage : k \in DOMAIN toPage' /\ toPage'[k] = toPage[k]
       /\ \A k \in DOMAIN toPage' : k \in DOMAIN toPage \/ (opens /\ toPage'[k] = OpenMessage(state.active))
       /\ opens /\ state # frame.state =>
             /\ toPage' # <<>> /\ toPage'[Len(toPage')] = OpenMessage(state.active)
             /\ \E k \in DOMAIN toPage' : toPage'[k] = OpenMessage(state.active)
  <2>1. CASE toPage' = toPage /\ ~(opens /\ state # frame.state)
    BY <2>1
  <2>2. CASE opens /\ state # frame.state
    BY <1>1, <1>3, <1>10, <2>2, AppendIs
  <2> QED
    BY <1>9, <2>1, <2>2
<1>13. CardsTyped'
  BY <1>1, <1>2, <1>4, <1>8, <1>11 DEF CardsTyped
<1>14. viewer = "html" /\ frame.phase \in {"listening", "ready"}
  BY <1>1, <1>2 DEF FrameFits, Frames, Phases, CardsTyped
<1>15. FrameFits'
  <2>1. LastPosted = toFrame[Len(toFrame)] /\ LastPosted = Posted(seen)
    BY <1>1, <1>2, <1>14 DEF FrameFits, LastPosted, Unheard
  <2>2. LastPosted' = LastPosted
    <3>1. CASE toFrame' = <<>>
      BY <1>4, <1>8, <2>1, <3>1 DEF LastPosted
    <3>2. CASE toFrame' # <<>>
      <4>1. Len(toFrame') \in DOMAIN toFrame' /\ Len(toFrame') + 1 = Len(toFrame)
        BY <1>4, <3>2
      <4> QED
        BY <1>4, <2>1, <3>2, <4>1 DEF LastPosted
    <3> QED
      BY <3>1, <3>2
  <2> QED
    BY <1>1, <1>2, <1>8, <1>14, <2>1, <2>2 DEF FrameFits
<1>16. CommentsFit'
  <2>1. \A comments : Known(comments)' <=> Known(comments)
    BY <1>1 DEF Known
  <2>2. Known(state.comments)
    BY <1>2, <1>4 DEF CommentsFit
  <2>3. ShownIn(frame') = state.comments
    BY <1>5, <1>8 DEF ShownIn
  <2>4. \A i \in DOMAIN toFrame' : Known(toFrame'[i].comments)
    BY <1>2, <1>4 DEF CommentsFit
  <2>5. ASSUME NEW k \in DOMAIN toPage', toPage'[k].type = "open" PROVE Known({toPage'[k].id})
    BY <1>2, <1>7, <1>10, <1>12, <2>2, <2>5 DEF CommentsFit, Known, WantsIn
  <2> QED
    BY <2>1, <2>2, <2>3, <2>4, <2>5 DEF CommentsFit
<1>17. PendingFits'
  <2>1. CASE state = frame.state
    BY <1>1, <1>2, <1>4, <1>8, <2>1 DEF PendingFits, Asks
  <2>2. CASE state # frame.state
    BY <1>5, <1>7, <1>8, <1>10, <1>12, <2>2 DEF PendingFits, WantsIn, ShownIn, Asks
  <2> QED
    BY <2>1, <2>2
<1>18. ActiveFits'
  <2> SUFFICES ASSUME viewer = "html", page.mode = "rendered", Wants(page)
               PROVE  /\ \A i \in DOMAIN toFrame' :
                           (\A j \in i..Len(toFrame') : toFrame'[j].active = page.active) => WantsIn(toFrame'[i])
                      /\ ActiveIn(frame') = page.active /\ (\A i \in DOMAIN toFrame' : toFrame'[i].active = page.active)
                           => AskedFor(page.active)'
                      /\ frame'.phase = "listening" /\ page.active = seen.active => Wants(seen)
    BY <1>1 DEF ActiveFits
  <2>1. ASSUME NEW i \in DOMAIN toFrame', \A j \in i..Len(toFrame') : toFrame'[j].active = page.active
        PROVE  WantsIn(toFrame'[i])
    <3>1. i + 1 \in DOMAIN toFrame /\ toFrame'[i] = toFrame[i + 1]
      BY <1>4
    <3>2. \A j \in (i + 1)..Len(toFrame) : j - 1 \in i..Len(toFrame') /\ j \in DOMAIN toFrame /\ j # 1
      BY <1>4
    <3>3. \A j \in (i + 1)..Len(toFrame) : toFrame[j].active = page.active
      BY <1>4, <2>1, <3>2
    <3> QED
      BY <1>2, <3>1, <3>3 DEF ActiveFits
  <2>2. ASSUME ActiveIn(frame') = page.active, \A i \in DOMAIN toFrame' : toFrame'[i].active = page.active
        PROVE  AskedFor(page.active)'
    <3>1. state.active = page.active
      BY <1>5, <1>8, <2>2 DEF ActiveIn
    <3>2. \A i \in DOMAIN toFrame : toFrame[i].active = page.active
      BY <1>4, <2>2, <3>1
    <3>3. CASE ActiveIn(frame) = page.active
      BY <1>1, <1>2, <1>12, <3>2, <3>3 DEF ActiveFits, AskedFor
    <3>4. CASE ActiveIn(frame) # page.active
      <4>1. WantsIn(state)
        BY <1>2, <1>4, <3>2 DEF ActiveFits
      <4>2. opens
        BY <1>7, <3>1, <3>4, <4>1
      <4>3. state # frame.state
        BY <1>5, <3>1, <3>4 DEF ActiveIn
      <4>4. PICK k \in DOMAIN toPage' : toPage'[k] = OpenMessage(state.active)
        BY <1>12, <4>2, <4>3
      <4>5. toPage'[k].type = "open" /\ toPage'[k].id = page.active
        BY <1>10, <3>1, <4>2, <4>4
      <4> QED
        BY <1>1, <4>5 DEF AskedFor
    <3> QED
      BY <3>3, <3>4
  <2>3. frame'.phase = "listening" /\ page.active = seen.active => Wants(seen)
    BY <1>2, <1>8 DEF ActiveFits
  <2> QED
    BY <2>1, <2>2, <2>3
<1>19. EffectsFit'
  BY <1>1, <1>2 DEF EffectsFit
<1>20. WishFits'
  <2> SUFFICES ASSUME wish # None PROVE WishFits'
    BY <1>1 DEF WishFits
  <2>1. /\ page.mode = "rendered" /\ seen.mode = "rendered" /\ page.version = seen.version /\ frame.phase = "ready"
        /\ WishWaits \/ WishStands
    BY <1>2, <1>14 DEF WishFits
  <2>2. ActiveIn(frame') = state.active
    BY <1>5, <1>8 DEF ActiveIn
  <2>3. CASE WishWaits
    BY <1>1, <1>4, <1>7, <1>8, <1>14, <2>1, <2>2, <2>3 DEF WishWaits, AsksFor, WishFits
  <2>4. CASE WishStands
    <3>1. state.open = {} => state.active = ActiveIn(frame)
      BY <1>4, <2>4 DEF WishStands
    <3>2. toPage' = toPage
      BY <1>7, <1>8, <3>1 DEF WantsIn
    <3>3. ASSUME NEW i \in DOMAIN toFrame', toFrame'[i].open = {}
          PROVE  \A j \in 1..i : toFrame'[j].active = ActiveIn(frame')
      <4>1. i + 1 \in DOMAIN toFrame /\ toFrame[i + 1].open = {} /\ i \in Nat
        BY <1>4, <3>3
      <4>2. \A j \in 1..(i + 1) : toFrame[j].active = ActiveIn(frame)
        BY <2>4, <4>1 DEF WishStands
      <4>3. 1 \in 1..(i + 1) /\ \A j \in 1..i : j + 1 \in 1..(i + 1) /\ j \in DOMAIN toFrame'
        BY <1>4, <4>1
      <4> QED
        BY <1>4, <2>2, <4>2, <4>3
    <3>4. WishStands'
      BY <1>1, <2>4, <3>2, <3>3 DEF WishStands
    <3> QED
      BY <1>1, <1>8, <1>14, <2>1, <3>4 DEF WishFits
  <2> QED
    BY <2>1, <2>3, <2>4
<1> QED
  BY <1>13, <1>15, <1>16, <1>17, <1>18, <1>19, <1>20 DEF CardsInv

-----------------------------------------------------------------------------
(* The page *)

\* What a message makes of the page.
Turned(message) ==
    CASE message.type = "open" -> TakeOpen(page, seen, message)
      [] message.type = "clear" -> TakeClear(page, seen)
      [] message.type = "target" -> StartCard(page, seen, message.block)

LEMMA TurnedIs ==
    ASSUME CardsTyped, NEW message \in Messages(used), NEW q, q = Turned(message)
    PROVE  /\ PageOK(q, used) /\ q.mode = page.mode /\ q.version = page.version /\ q.comments = page.comments
           /\ q.resume = page.resume
           /\ \/ /\ message.type = "open" /\ message.id \notin seen.comments /\ q = page
              \/ /\ message.type = "open" /\ message.id \in seen.comments /\ q.inputs = page.inputs
                 /\ q.card = [block |-> message.block, thread |-> message.id] /\ q.card # None
              \/ /\ message.type = "clear" /\ (q = page \/ q.active = None)
              \/ /\ message.type = "target" /\ Started(q, page, seen, message.block, used) /\ q.card # None
<1>1. PageOK(page, used) /\ PageOK(seen, used) /\ used \in SUBSET Comments /\ None \notin Card
  BY NoneIsNothing DEF CardsTyped
<1>2. CASE message.type = "open"
  <2>1. message.id \in used /\ message.block \in Blocks
    BY <1>2 DEF Messages
  <2>2. q = TakeOpen(page, seen, message)
    BY <1>2 DEF Turned
  <2>3. CASE message.id \notin seen.comments
    BY <1>1, <1>2, <2>2, <2>3 DEF TakeOpen
  <2>4. CASE message.id \in seen.comments
    <3> DEFINE card == [block |-> message.block, thread |-> message.id]
    <3>1. card \in Card
      BY <1>1, <2>1 DEF Card
    <3>2. q = [[page EXCEPT !.card = card] EXCEPT !.active = message.id]
      BY <2>2, <2>4 DEF TakeOpen, OpenCard
    <3> HIDE DEF card
    <3>3. /\ PageOK(q, used) /\ q.mode = page.mode /\ q.version = page.version /\ q.comments = page.comments
          /\ q.resume = page.resume /\ q.inputs = page.inputs /\ q.card = card
      BY <1>1, <2>1, <3>1, <3>2 DEF PageOK
    <3> QED
      BY <1>1, <1>2, <2>4, <3>1, <3>3 DEF card
  <2> QED
    BY <2>3, <2>4
<1>3. CASE message.type = "clear"
  BY <1>1, <1>3 DEF Turned, TakeClear, CloseCard, PageOK
<1>4. CASE message.type = "target"
  <2>1. q = StartCard(page, seen, message.block) /\ message.block \in Blocks
    BY <1>4 DEF Turned, Messages
  <2>2. Started(q, page, seen, message.block, used)
    BY <1>1, <2>1, StartCardIs
  <2> QED
    BY <1>1, <1>4, <2>2 DEF Started
<1> QED
  BY <1>2, <1>3, <1>4 DEF Messages

LEMMA PageTakesKeeps ==
    ASSUME CardsInv, PageTakes
    PROVE  CardsInv'
<1> DEFINE message == Head(toPage)
<1>1. /\ toPage # <<>> /\ ~settling /\ toPage' = Tail(toPage) /\ page' = Turned(message)
      /\ UNCHANGED <<viewer, seen, frame, toFrame, used, wish, settling>>
  BY DEF PageTakes, Turned
<1>2. CardsTyped /\ FrameFits /\ CommentsFit /\ PendingFits /\ ActiveFits /\ EffectsFit /\ WishFits
      /\ PageOK(page, used) /\ PageOK(seen, used) /\ toPage \in Seq(Messages(used)) /\ page.mode # "none"
  BY DEF CardsInv, CardsTyped
<1>3. /\ toPage' \in Seq(Messages(used)) /\ Len(toPage) \in Nat /\ Len(toPage) > 0 /\ Len(toPage') = Len(toPage) - 1
      /\ message = toPage[1] /\ 1 \in DOMAIN toPage
      /\ DOMAIN toPage' = 1..(Len(toPage) - 1) /\ DOMAIN toPage = 1..Len(toPage)
      /\ \A i \in DOMAIN toPage' : i + 1 \in DOMAIN toPage /\ toPage'[i] = toPage[i + 1]
      /\ \A i \in DOMAIN toPage : i = 1 \/ (i - 1 \in DOMAIN toPage' /\ toPage'[i - 1] = toPage[i])
      /\ toPage' = <<>> <=> Len(toPage) = 1
  <2>1. toPage # <<>> /\ toPage' = Tail(toPage) /\ message = Head(toPage) /\ toPage \in Seq(Messages(used))
    BY <1>1, <1>2
  <2>2. Shifted(toPage, toPage', Messages(used))
    BY <2>1, TailIs
  <2> QED
    BY <2>1, <2>2 DEF Shifted
<1> HIDE DEF message
<1>4. message \in Messages(used)
  BY <1>2, <1>3
<1>5. /\ PageOK(page', used) /\ page'.mode = page.mode /\ page'.version = page.version /\ page'.comments = page.comments
      /\ page'.resume = page.resume
      /\ \/ /\ message.type = "open" /\ message.id \notin seen.comments /\ page' = page
         \/ /\ message.type = "open" /\ message.id \in seen.comments /\ page'.inputs = page.inputs
            /\ page'.card = [block |-> message.block, thread |-> message.id] /\ page'.card # None
         \/ /\ message.type = "clear" /\ (page' = page \/ page'.active = None)
         \/ /\ message.type = "target" /\ Started(page', page, seen, message.block, used) /\ page'.card # None
  BY <1>1, <1>2, <1>4, TurnedIs
<1>6. CardsTyped'
  BY <1>1, <1>2, <1>3, <1>5 DEF CardsTyped
<1>7. viewer = "html"
  BY <1>1, <1>2 DEF FrameFits, CardsTyped
<1>8. FrameFits'
  BY <1>1, <1>2, <1>7 DEF FrameFits, LastPosted, Unheard
<1>9. CommentsFit'
  BY <1>1, <1>2, <1>3, <1>5 DEF Known, CommentsFit
<1>10. PendingFits'
  <2> SUFFICES ASSUME frame.pending
               PROVE  /\ toPage' # <<>> => Asks(toPage'[Len(toPage')])
                      /\ toPage' = <<>> => \/ page'.card # None
                                           \/ frame.state # None /\ frame.state.open # {}
                                           \/ \E i \in DOMAIN toFrame : toFrame[i] # frame.state
    BY <1>1 DEF PendingFits, Asks
  <2>1. Asks(toPage[Len(toPage)])
    BY <1>1, <1>2 DEF PendingFits
  <2>2. CASE toPage' # <<>>
    BY <1>3, <2>1, <2>2
  <2>3. CASE toPage' = <<>>
    <3>1. Asks(message)
      BY <1>3, <2>1, <2>3
    <3>2. CASE page'.card = None
      BY <1>2, <1>5, <2>3, <3>1, <3>2, PostedIs DEF Asks, ShownIn, FrameFits, NoFrame, LoadingFrame, CardsTyped,
         Frames, Phases, Unheard, LastPosted
    <3> QED
      BY <2>3, <3>2
  <2> QED
    BY <2>2, <2>3
<1>11. ActiveFits'
  <2>1. None \notin page.comments
    BY <1>2, NoneIsNothing DEF PageOK
  <2> SUFFICES ASSUME page.mode = "rendered", Wants(page') PROVE ActiveFits'
    BY <1>5 DEF ActiveFits
  <2>2. page' = page
    BY <1>5, <2>1 DEF Wants
  <2>3. ~(message.type = "open" /\ message.id = page.active)
    BY <1>2, <1>3, <1>5, <2>2 DEF CommentsFit, Wants, Known
  <2>4. AskedFor(page.active) => AskedFor(page.active)'
    BY <1>3, <2>2, <2>3 DEF AskedFor
  <2> QED
    BY <1>1, <1>2, <2>2, <2>4 DEF ActiveFits
<1>12. EffectsFit'
  BY <1>1, <1>2 DEF EffectsFit
<1>13. WishFits'
  <2> SUFFICES ASSUME wish # None PROVE WishFits'
    BY <1>1 DEF WishFits
  <2>1. /\ page.mode = "rendered" /\ seen.mode = "rendered" /\ page.version = seen.version /\ frame.phase = "ready"
        /\ WishWaits \/ WishStands
    BY <1>2, <1>7 DEF WishFits
  <2>2. WishWaits
    BY <1>1, <2>1 DEF WishStands
  <2>3. toPage' = <<>> /\ AsksFor(message, wish.card) /\ page.resume \notin BlocksOf(page.inputs)
    BY <1>3, <2>2 DEF WishWaits
  <2>4. wish.card \in Card
    BY <1>2 DEF CardsTyped
  <2>5. page'.card = wish.card
    BY <1>5, <2>3, <2>4 DEF AsksFor, Card, Started
  <2>6. page'.resume \in BlocksOf(page'.inputs) =>
          \A i \in DOMAIN page'.inputs : page'.inputs[i].block = page'.resume => CardOf(page'.inputs[i]) = wish.card
    <3>1. CASE message.type = "open"
      BY <1>5, <2>3, <3>1 DEF AsksFor
    <3>2. CASE message.type = "target"
      BY <1>5, <2>3, <2>5, <3>2 DEF Started
    <3> QED
      BY <2>3, <3>1, <3>2 DEF AsksFor
  <2>7. \A i \in DOMAIN toFrame : toFrame[i].open = {} => \A j \in 1..i : toFrame[j].active = ActiveIn(frame)
    <3>1. \A i \in DOMAIN toFrame : \A j \in 1..i : j \in DOMAIN toFrame
      BY <1>2 DEF CardsTyped
    <3> QED
      BY <2>2, <3>1 DEF WishWaits
  <2>8. WishStands'
    BY <1>1, <2>3, <2>5, <2>6, <2>7 DEF WishStands
  <2> QED
    BY <1>1, <1>5, <1>7, <2>1, <2>8 DEF WishFits
<1> QED
  BY <1>6, <1>8, <1>9, <1>10, <1>11, <1>12, <1>13 DEF CardsInv

-----------------------------------------------------------------------------
(* The page is rendered *)

LEMMA RequestedIs ==
    ASSUME NEW p, NEW u, PageOK(p, u), None \notin Blocks
    PROVE  /\ Requested(p) # {} <=> p.resume \in BlocksOf(p.inputs)
           /\ Requested(p) # {} =>
                \E i \in DOMAIN p.inputs : SessionAt(p.inputs, p.resume) = p.inputs[i] /\ p.inputs[i].block = p.resume
  BY InputsAre DEF PageOK, Requested

\* An input that is asked for gets its card, and the others are collapsed.
ResumedAs(q, p, session, u) ==
    /\ PageOK(q, u) /\ q.mode = p.mode /\ q.version = p.version /\ q.comments = p.comments /\ q.active = p.active
    /\ q.resume = None /\ q.card = CardOf(session) /\ q.card # None /\ q.card.block = session.block
    /\ Expanded(q.inputs) \subseteq Expanded(p.inputs)

LEMMA ResumedIs2 ==
    ASSUME NEW p, NEW u, PageOK(p, u), None \notin Card, NEW session, CardOf(session) \in Card, NEW q, q = Resumed(p, session)
    PROVE  ResumedAs(q, p, session, u)
<1> DEFINE closed == {s \in ToSet(p.inputs) : s.block # session.block}
           inputs == [i \in DOMAIN p.inputs |-> IF p.inputs[i] \in closed
                                                THEN [p.inputs[i] EXCEPT !.open = FALSE] ELSE p.inputs[i]]
<1>1. InputsOK(p.inputs)
  BY DEF PageOK
<1>2. q = [p EXCEPT !.card = CardOf(session), !.inputs = inputs, !.resume = None]
  BY DEF Resumed, CollapseOthers, Collapsed, ToSet
<1> HIDE DEF closed
<1>3. /\ InputsOK(inputs) /\ DOMAIN inputs = DOMAIN p.inputs
      /\ \A i \in DOMAIN p.inputs : inputs[i].block = p.inputs[i].block /\ (inputs[i].open => p.inputs[i].open)
  BY <1>1, CollapsedIs
<1> HIDE DEF inputs
<1>4. Expanded(inputs) \subseteq Expanded(p.inputs)
  BY <1>3 DEF Expanded
<1>5. CardOf(session).block = session.block
  BY DEF CardOf
<1>6. /\ PageOK(q, u) /\ q.mode = p.mode /\ q.version = p.version /\ q.comments = p.comments /\ q.active = p.active
      /\ q.resume = None /\ q.card = CardOf(session) /\ q.inputs = inputs
  BY <1>2, <1>3 DEF PageOK, InputsOK
<1> QED
  BY <1>4, <1>5, <1>6 DEF ResumedAs

\* Another card, or none.
CardOnly(q, p, u) ==
    /\ PageOK(q, u) /\ q.mode = p.mode /\ q.version = p.version /\ q.comments = p.comments /\ q.active = p.active
    /\ q.resume = p.resume /\ q.inputs = p.inputs

LEMMA OpenCardIs ==
    ASSUME NEW p, NEW u, PageOK(p, u), NEW card \in Card \cup {None}, NEW q, q = OpenCard(p, card)
    PROVE  CardOnly(q, p, u) /\ q.card = card
  BY DEF OpenCard, CardOnly, PageOK

\* What every rendering leaves alone.
Kept(q, p, u) ==
    PageOK(q, u) /\ q.mode = p.mode /\ q.version = p.version /\ q.comments = p.comments /\ q.active = p.active

-----------------------------------------------------------------------------

\* What the rendering of a Markdown document makes of the page.
LEMMA MarkdownInputIs ==
    ASSUME CardsTyped, NEW q, q = MarkdownInput(page)
    PROVE  /\ Kept(q, page, used)
           /\ Expanded(page.inputs) # {} => q.card # None
           /\ page.card # None => q.card # None
           /\ page.resume \in BlocksOf(page.inputs) => q.resume = None
           /\ page.card # None /\ Expanded(page.inputs) \subseteq {page.card.block}
              /\ (page.resume \in BlocksOf(page.inputs) => page.resume = page.card.block)
                => /\ q.card = page.card /\ Expanded(q.inputs) \subseteq Expanded(page.inputs)
                   /\ q = page \/ q.resume = None
<1>1. PageOK(page, used) /\ InputsOK(page.inputs) /\ None \notin Blocks /\ None \notin Card
      /\ page.card \in Card \cup {None}
  BY NoneIsNothing DEF CardsTyped, PageOK
<1> DEFINE open == OpenInputs(page.inputs)
           session == IF Requested(page) # {} THEN SessionAt(page.inputs, page.resume) ELSE Head(open)
           isShown == page.card # None /\ page.card.block = session.block
<1>2. q = IF Requested(page) # {} THEN [Resumed(page, session) EXCEPT !.card = IF isShown THEN page.card ELSE @]
          ELSE IF open = <<>> \/ isShown THEN page ELSE OpenCard(page, CardOf(session))
  BY DEF MarkdownInput
<1>3. Requested(page) # {} <=> page.resume \in BlocksOf(page.inputs)
  BY <1>1, RequestedIs
<1>4. CASE Requested(page) # {}
  <2>1. PICK i \in DOMAIN page.inputs : session = page.inputs[i] /\ page.inputs[i].block = page.resume
    BY <1>1, <1>4, RequestedIs
  <2>2. CardOf(session) \in Card /\ session.block = page.resume
    BY <1>1, <2>1, InputsAre
  <2> DEFINE r == Resumed(page, session)
  <2> HIDE DEF session
  <2>3. ResumedAs(r, page, session, used)
    BY <1>1, <2>2, ResumedIs2
  <2>4. q = [r EXCEPT !.card = IF isShown THEN page.card ELSE @]
    BY <1>2, <1>4
  <2> HIDE DEF r
  <2>5. /\ Kept(q, page, used) /\ q.resume = None /\ q.card # None /\ q.inputs = r.inputs
        /\ isShown => q.card = page.card
    BY <1>1, <2>3, <2>4 DEF ResumedAs, Kept, PageOK
  <2>6. Expanded(q.inputs) \subseteq Expanded(page.inputs)
    BY <2>3, <2>5 DEF ResumedAs
  <2> QED
    BY <1>3, <1>4, <2>2, <2>5, <2>6
<1>5. CASE Requested(page) = {}
  <2>1. open = <<>> <=> Expanded(page.inputs) = {}
    BY <1>1, OpenInputsAre
  <2>2. CASE open = <<>> \/ isShown
    BY <1>1, <1>2, <1>3, <1>5, <2>1, <2>2 DEF Kept
  <2>3. CASE open # <<>> /\ ~isShown
    <3>1. PICK i \in DOMAIN page.inputs : session = page.inputs[i] /\ page.inputs[i].open
      BY <1>1, <1>5, <2>3, OpenInputsAre
    <3>2. CardOf(session) \in Card /\ session.block \in Expanded(page.inputs)
      BY <1>1, <3>1, InputsAre DEF Expanded
    <3>3. q = OpenCard(page, CardOf(session))
      BY <1>2, <1>5, <2>3
    <3> HIDE DEF session, open
    <3>4. CardOnly(q, page, used) /\ q.card = CardOf(session) /\ q.card # None
      BY <1>1, <3>2, <3>3, OpenCardIs
    <3>5. ~(page.card # None /\ Expanded(page.inputs) \subseteq {page.card.block})
      BY <2>3, <3>2
    <3> QED
      BY <1>3, <1>5, <3>4, <3>5 DEF CardOnly, Kept
  <2> QED
    BY <2>2, <2>3
<1> QED
  BY <1>4, <1>5

LEMMA OpenActiveIs ==
    ASSUME CardsTyped, NEW p, PageOK(p, used), NEW q, q = OpenActive(p)
    PROVE  /\ CardOnly(q, p, used)
           /\ page.card # None => q = p
           /\ p.card # None => q.card # None
           /\ Wants(page) => q.card # None
<1>1. PageOK(page, used) /\ None \notin used /\ None \notin Card /\ used \subseteq Comments /\ page.comments \subseteq used
  BY NoneIsNothing DEF CardsTyped, PageOK
<1>2. CASE page.card # None \/ page.active = None \/ page.active \notin page.comments
  BY <1>1, <1>2 DEF OpenActive, Wants, CardOnly
<1>3. CASE ~(page.card # None \/ page.active = None \/ page.active \notin page.comments)
  <2> DEFINE card == [block |-> BlockOf[page.active], thread |-> page.active]
  <2>1. card \in Card
    BY <1>1, <1>3, RenderedAssumption DEF Card
  <2>2. q = OpenCard(p, card)
    BY <1>3 DEF OpenActive
  <2> HIDE DEF card
  <2>3. CardOnly(q, p, used) /\ q.card = card
    BY <2>1, <2>2, OpenCardIs
  <2> QED
    BY <1>1, <1>3, <2>1, <2>3
<1> QED
  BY <1>2, <1>3

LEMMA RenderMarkdownKeeps ==
    ASSUME CardsInv, Render, viewer = "markdown"
    PROVE  CardsInv'
<1> DEFINE q == MarkdownInput(page)
<1>1. /\ seen' = page /\ settling' = (page' # page)
      /\ UNCHANGED <<viewer, frame, toFrame, toPage, used, wish>>
      /\ page' = IF page.mode = "rendered" THEN OpenActive(q) ELSE page
  BY DEF Render, RenderMarkdown
<1>2. CardsTyped /\ FrameFits /\ WishFits /\ PageOK(page, used) /\ page.mode # "none" /\ None \notin Blocks /\ None \notin Card
  BY NoneIsNothing DEF CardsInv, CardsTyped
<1>3. frame = NoFrame /\ toFrame = <<>> /\ toPage = <<>>
  BY <1>2 DEF FrameFits
<1>4. /\ Kept(q, page, used)
      /\ Expanded(page.inputs) # {} => q.card # None
      /\ page.card # None => q.card # None
      /\ page.resume \in BlocksOf(page.inputs) => q.resume = None
      /\ page.card # None /\ Expanded(page.inputs) \subseteq {page.card.block}
         /\ (page.resume \in BlocksOf(page.inputs) => page.resume = page.card.block)
           => /\ q.card = page.card /\ Expanded(q.inputs) \subseteq Expanded(page.inputs)
              /\ q = page \/ q.resume = None
  BY <1>2, MarkdownInputIs DEF q
<1> HIDE DEF q
<1>5. ASSUME page.mode = "rendered"
      PROVE  /\ CardOnly(page', q, used)
             /\ page.card # None => page' = q
             /\ q.card # None => page'.card # None
             /\ Wants(page) => page'.card # None
  BY <1>1, <1>2, <1>4, <1>5, OpenActiveIs DEF Kept
<1>6. Kept(page', page, used)
  BY <1>1, <1>2, <1>4, <1>5 DEF Kept, CardOnly
<1>7. CardsTyped'
  BY <1>1, <1>2, <1>6 DEF CardsTyped, Kept
<1>8. FrameFits'
  BY <1>1, <1>2, <1>3 DEF FrameFits, NoFrame
<1>9. CommentsFit'
  BY <1>1, <1>3, <1>6 DEF CommentsFit, Known, Kept
<1>10. PendingFits' /\ ActiveFits'
  BY <1>1, <1>2, <1>3 DEF PendingFits, ActiveFits, NoFrame
<1>11. EffectsFit'
  <2> SUFFICES ASSUME page.mode = "rendered"
               PROVE  /\ Expanded(page.inputs) # {} /\ page.card = None => page' # page /\ page'.card # None
                      /\ Wants(page) => page' # page /\ page'.card # None
                      /\ page.resume \in BlocksOf(page.inputs) => page' # page /\ page'.resume = None
    BY <1>1 DEF EffectsFit, Wants
  <2>1. BlocksOf(page.inputs) \subseteq Blocks
    BY <1>2, InputsAre DEF PageOK
  <2>2. page'.resume = q.resume
    BY <1>5 DEF CardOnly
  <2> QED
    BY <1>2, <1>4, <1>5, <2>1, <2>2 DEF Wants
<1>12. WishFits'
  <2> SUFFICES ASSUME wish # None PROVE WishFits'
    BY <1>1 DEF WishFits
  <2>1. page.mode = "rendered" /\ page'.mode = "rendered" /\ seen'.mode = "rendered" /\ viewer' = "markdown"
    BY <1>1, <1>2, <1>6 DEF WishFits, Kept
  <2>2. ASSUME wish.alone PROVE WishIsOpen'
    BY <1>1, <1>2, <1>4, <1>5, <1>6, <2>1, <2>2, InputsAre DEF WishFits, WishIsOpen, CardsTyped, Kept, PageOK
  <2> QED
    BY <1>1, <2>1, <2>2 DEF WishFits
<1> QED
  BY <1>7, <1>8, <1>9, <1>10, <1>11, <1>12 DEF CardsInv

-----------------------------------------------------------------------------

\* What the rendering of an HTML document makes of the page.
Cleared == IF page.version = seen.version THEN page ELSE OpenCard(page, None)
InputsTaken(p) ==
    IF ~HtmlInputs THEN p
    ELSE IF Requested(page) # {} THEN Resumed(p, SessionAt(page.inputs, page.resume)) ELSE ReopenInput(p)

LEMMA ClearedIs ==
    ASSUME CardsTyped
    PROVE  CardOnly(Cleared, page, used) /\ (page.version = seen.version => Cleared = page)
<1>1. PageOK(page, used)
  BY DEF CardsTyped
<1>2. CASE page.version = seen.version
  BY <1>1, <1>2 DEF Cleared, CardOnly
<1>3. CASE page.version # seen.version
  BY <1>1, <1>3, OpenCardIs DEF Cleared
<1> QED
  BY <1>2, <1>3

LEMMA InputsTakenIs ==
    ASSUME CardsTyped, NEW p, CardOnly(p, page, used), NEW q, q = InputsTaken(p)
    PROVE  /\ Kept(q, page, used)
           /\ ~HtmlInputs => q = p
           /\ HtmlInputs /\ Expanded(page.inputs) # {} /\ page.card = None => q.card # None
           /\ HtmlInputs /\ page.resume \in BlocksOf(page.inputs) => q.resume = None
           /\ p.card # None => q.card # None
           /\ \/ q = p
              \/ page.card = None
              \/ page.resume \in BlocksOf(page.inputs) /\ q.resume = None
                 /\ \E i \in DOMAIN page.inputs : page.inputs[i].block = page.resume /\ q.card = CardOf(page.inputs[i])
<1>1. PageOK(page, used) /\ InputsOK(page.inputs) /\ None \notin Blocks /\ None \notin Card /\ PageOK(p, used)
  BY NoneIsNothing DEF CardsTyped, PageOK, CardOnly
<1>2. Requested(page) # {} <=> page.resume \in BlocksOf(page.inputs)
  BY <1>1, RequestedIs
<1>3. CASE ~HtmlInputs
  BY <1>3 DEF InputsTaken, CardOnly, Kept
<1>4. CASE HtmlInputs /\ Requested(page) # {}
  BY <1>1, <1>2, <1>4, RequestedIs, InputsAre, ResumedIs2 DEF InputsTaken, ResumedAs, Kept, CardOnly
<1>5. CASE HtmlInputs /\ Requested(page) = {}
  <2>1. q = ReopenInput(p)
    BY <1>5 DEF InputsTaken
  <2>2. OpenInputs(page.inputs) = <<>> <=> Expanded(page.inputs) = {}
    BY <1>1, OpenInputsAre
  <2>3. CASE page.card # None \/ OpenInputs(page.inputs) = <<>>
    <3>1. q = p
      BY <2>1, <2>3 DEF ReopenInput
    <3> QED
      BY <1>2, <1>5, <2>2, <2>3, <3>1 DEF CardOnly, Kept
  <2>4. CASE page.card = None /\ OpenInputs(page.inputs) # <<>>
    <3>1. PICK i \in DOMAIN page.inputs : Last(OpenInputs(page.inputs)) = page.inputs[i] /\ page.inputs[i].open
      BY <1>1, <2>4, OpenInputsAre
    <3>2. CardOf(page.inputs[i]) \in Card /\ q = OpenCard(p, CardOf(page.inputs[i]))
      BY <1>1, <2>1, <2>4, <3>1, InputsAre DEF ReopenInput
    <3>3. CardOnly(q, p, used) /\ q.card # None
      BY <1>1, <3>2, OpenCardIs
    <3> QED
      BY <1>2, <1>5, <2>4, <3>3 DEF CardOnly, Kept
  <2> QED
    BY <2>3, <2>4
<1> QED
  BY <1>3, <1>4, <1>5

LEMMA RenderHtmlKeeps ==
    ASSUME CardsInv, Render, viewer = "html"
    PROVE  CardsInv'
<1>1. /\ seen' = page /\ settling' = (page' # page) /\ page' = InputsTaken(Cleared)
      /\ UNCHANGED <<viewer, toPage, used, wish>>
      /\ frame' = IF FreshFrame THEN LoadingFrame ELSE IF page.mode = "rendered" THEN frame ELSE NoFrame
      /\ toFrame' = IF frame' \in {LoadingFrame, NoFrame} THEN <<>>
                    ELSE IF PostsState THEN Append(toFrame, Posted(page)) ELSE toFrame
  BY DEF Render, RenderHtml, InputsTaken, Cleared
<1>2. CardsTyped /\ FrameFits /\ CommentsFit /\ PendingFits /\ ActiveFits /\ EffectsFit /\ WishFits
      /\ PageOK(page, used) /\ PageOK(seen, used) /\ page.mode # "none" /\ None \notin Blocks /\ None \notin Card
      /\ None \notin used
  BY NoneIsNothing DEF CardsInv, CardsTyped
<1> DEFINE cleared == Cleared
<1>3. CardOnly(cleared, page, used) /\ (page.version = seen.version => cleared = page)
  BY <1>2, ClearedIs
<1> HIDE DEF cleared
<1>4. /\ Kept(page', page, used)
      /\ ~HtmlInputs => page' = cleared
      /\ HtmlInputs /\ Expanded(page.inputs) # {} /\ page.card = None => page'.card # None
      /\ HtmlInputs /\ page.resume \in BlocksOf(page.inputs) => page'.resume = None
      /\ cleared.card # None => page'.card # None
      /\ \/ page' = cleared
         \/ page.card = None
         \/ page.resume \in BlocksOf(page.inputs) /\ page'.resume = None
            /\ \E i \in DOMAIN page.inputs : page.inputs[i].block = page.resume /\ page'.card = CardOf(page.inputs[i])
  BY <1>1, <1>2, <1>3, InputsTakenIs DEF cleared
<1>5. /\ Posted(page) \in PostedStates(used) /\ Posted(page).active = page.active
      /\ Posted(page).open = {} <=> page.card = None
      /\ WantsIn(Posted(page)) <=> Wants(page)
  BY <1>2, PostedIs
<1>6. toFrame \in Seq(PostedStates(used)) /\ frame \in Frames(used) /\ frame.phase \in Phases
  BY <1>2 DEF CardsTyped, Frames
<1>8. EffectsFit'
  <2> SUFFICES ASSUME page.mode = "rendered"
               PROVE  /\ Expanded(page.inputs) # {} /\ page.card = None => page' # page /\ page'.card # None
                      /\ page.resume \in BlocksOf(page.inputs) => page' # page /\ page'.resume = None
    BY <1>1, <1>2 DEF EffectsFit
  <2>1. BlocksOf(page.inputs) \subseteq Blocks
    BY <1>2, InputsAre DEF PageOK
  <2>2. Expanded(page.inputs) # {} /\ page.card = None => HtmlInputs
    BY <1>2 DEF HtmlInputs, EffectsFit
  <2>3. page.resume \in BlocksOf(page.inputs) => HtmlInputs
    BY <1>2, <2>1 DEF HtmlInputs, EffectsFit
  <2> QED
    BY <1>2, <1>4, <2>1, <2>2, <2>3
\* The frame is loaded anew, or there is none.
<1>7. CASE FreshFrame \/ page.mode # "rendered"
  <2>1. /\ toFrame' = <<>> /\ frame'.state = None /\ ~frame'.pending
        /\ frame' = IF page.mode = "rendered" THEN LoadingFrame ELSE NoFrame
        /\ frame'.phase = IF page.mode = "rendered" THEN "loading" ELSE "none"
    BY <1>1, <1>7 DEF FreshFrame, LoadingFrame, NoFrame
  <2>2. frame' \in Frames(used)
    BY <2>1 DEF Frames, LoadingFrame, NoFrame, Phases
  <2>3. CardsTyped'
    BY <1>1, <1>2, <1>4, <2>1, <2>2 DEF CardsTyped, Kept
  <2>4. FrameFits'
    BY <1>1, <2>1 DEF FrameFits
  <2>5. CommentsFit'
    BY <1>1, <1>4, <2>1 DEF CommentsFit, Known, Kept
  <2>6. PendingFits'
    BY <2>1 DEF PendingFits
  <2>7. ActiveFits'
    BY <1>2, <1>4, <2>1 DEF Wants, Kept, PageOK, ActiveFits, ActiveIn
  <2>8. WishFits'
    <3>1. wish = None
      BY <1>2, <1>7 DEF WishFits, FreshFrame
    <3> QED
      BY <1>1, <3>1 DEF WishFits
  <2> QED
    BY <2>3, <2>4, <2>5, <2>6, <2>7, <2>8, <1>8
       DEF CardsInv
\* The frame goes on, and is told what changed.
<1>9. CASE ~FreshFrame /\ page.mode = "rendered"
  <2>1. seen.mode = "rendered" /\ page.version = seen.version /\ cleared = page /\ frame' = frame
    BY <1>1, <1>3, <1>9 DEF FreshFrame
  <2>2. frame.phase # "none" /\ frame # NoFrame
    BY <1>2, <2>1 DEF FrameFits, NoFrame
  <2>3. /\ frame = LoadingFrame => toFrame = <<>> /\ toFrame' = <<>>
        /\ frame # LoadingFrame => /\ frame.phase \in {"listening", "ready"}
                                   /\ \/ toFrame' = Append(toFrame, Posted(page))
                                      \/ toFrame' = toFrame /\ Posted(page) = Posted(seen)
    <3>1. CASE frame = LoadingFrame
      BY <1>1, <1>2, <2>1, <3>1 DEF FrameFits, LoadingFrame
    <3>2. CASE frame # LoadingFrame
      BY <1>1, <1>2, <1>6, <1>9, <2>1, <2>2, <3>2 DEF PostsState, FrameFits, Phases
    <3> QED
      BY <3>1, <3>2
\* In every case the messages are the same, or there is one more.
  <2>4. \/ toFrame' = toFrame
        \/ /\ toFrame' \in Seq(PostedStates(used)) /\ toFrame' # <<>> /\ Len(toFrame') = Len(toFrame) + 1 /\ Len(toFrame) \in Nat
           /\ DOMAIN toFrame' = 1..(Len(toFrame) + 1) /\ DOMAIN toFrame = 1..Len(toFrame)
           /\ toFrame'[Len(toFrame) + 1] = Posted(page) /\ \A i \in DOMAIN toFrame : toFrame'[i] = toFrame[i]
    BY <1>5, <1>6, <2>3, AppendIs
  <2>5. \A i \in DOMAIN toFrame : i \in DOMAIN toFrame' /\ toFrame'[i] = toFrame[i]
    BY <2>4
  <2>6. \A i \in DOMAIN toFrame' : i \in DOMAIN toFrame \/ (i = Len(toFrame) + 1 /\ toFrame'[i] = Posted(page))
    BY <2>4
  <2>7. CardsTyped'
    BY <1>1, <1>2, <1>4, <1>6, <2>1, <2>4 DEF CardsTyped, Kept
  <2>8. FrameFits'
    <3>1. CASE frame = LoadingFrame
      BY <1>1, <1>2, <1>9, <2>1, <2>3, <3>1 DEF FrameFits, LoadingFrame
    <3>2. CASE frame # LoadingFrame
      <4>1. frame.phase \in {"listening", "ready"} /\ (Unheard \/ LastPosted = Posted(seen))
        BY <1>2, <2>3, <3>2 DEF FrameFits
      <4>2. Unheard' \/ LastPosted' = Posted(page)
        <5>1. CASE toFrame' = toFrame /\ Posted(page) = Posted(seen)
          BY <2>1, <4>1, <5>1 DEF Unheard, LastPosted
        <5>2. CASE toFrame' = Append(toFrame, Posted(page))
          BY <1>5, <1>6, <5>2, AppendIs DEF LastPosted
        <5> QED
          BY <2>3, <3>2, <5>1, <5>2
      <4> QED
        BY <1>1, <1>9, <2>1, <4>1, <4>2 DEF FrameFits
    <3> QED
      BY <3>1, <3>2
  <2>9. CommentsFit'
    BY <1>1, <1>4 DEF CommentsFit, Known, Kept
  <2>10. page.card # None => page'.card # None
    BY <1>4, <2>1
  <2>11. PendingFits'
    BY <1>1, <1>2, <2>1, <2>5, <2>10 DEF PendingFits, Asks
  <2>12. ActiveFits'
    <3> SUFFICES ASSUME Wants(page')
                 PROVE  /\ \A i \in DOMAIN toFrame' :
                             (\A j \in i..Len(toFrame') : toFrame'[j].active = page'.active) => WantsIn(toFrame'[i])
                        /\ ActiveIn(frame) = page'.active /\ (\A i \in DOMAIN toFrame' : toFrame'[i].active = page'.active)
                             => AskedFor(page'.active)
                        /\ Wants(page)
      BY <1>1, <2>1 DEF ActiveFits, AskedFor
    <3>1. Wants(page) /\ page'.active = page.active
      BY <1>4, <2>10 DEF Wants, Kept
    <3>2. ASSUME NEW i \in DOMAIN toFrame', \A j \in i..Len(toFrame') : toFrame'[j].active = page.active
          PROVE  WantsIn(toFrame'[i])
      <4>1. CASE i \in DOMAIN toFrame
        BY <1>1, <1>2, <1>6, <1>9, <2>4, <2>5, <3>1, <3>2, <4>1 DEF ActiveFits
      <4>2. CASE i \notin DOMAIN toFrame
        BY <1>5, <2>6, <3>1, <4>2
      <4> QED
        BY <4>1, <4>2
    <3>3. ASSUME ActiveIn(frame) = page.active, \A i \in DOMAIN toFrame' : toFrame'[i].active = page.active
          PROVE  AskedFor(page.active)
      BY <1>2, <1>9, <2>5, <3>1, <3>3 DEF ActiveFits
    <3> QED
      BY <3>1, <3>2, <3>3
  <2>13. WishFits'
    <3> SUFFICES ASSUME wish # None PROVE WishFits'
      BY <1>1 DEF WishFits
    <3>1. frame.phase = "ready" /\ (WishWaits \/ WishStands)
      BY <1>2 DEF WishFits
    <3>2. CASE WishWaits
      <4>1. /\ page.inputs = seen.inputs /\ page.resume = seen.resume /\ page.card = seen.card /\ page.active = seen.active
            /\ page.mode = seen.mode
        BY <1>2, <3>2 DEF WishWaits, PageOK
      <4>2. ~HtmlInputs
        BY <4>1 DEF HtmlInputs
      <4>3. page' = page
        BY <1>4, <2>1, <4>2
      <4>4. page'= [seen' EXCEPT !.comments = page'.comments]
        BY <1>1, <1>2, <4>3 DEF PageOK
      <4>5. AsksFor(toPage[1], wish.card)'
        BY <1>1, <3>2 DEF WishWaits, AsksFor
      <4>6. Posted(page).active = ActiveIn(frame)
        <5>1. LastPosted = Posted(seen) /\ Posted(seen) \in PostedStates(used) /\ Posted(seen).active = seen.active
          BY <1>2, <3>1, PostedIs DEF FrameFits, Unheard
        <5>2. CASE toFrame = <<>>
          BY <1>2, <1>5, <4>1, <5>1, <5>2, NoneIsNothing DEF LastPosted, ActiveIn
        <5>3. CASE toFrame # <<>>
          BY <1>5, <1>6, <3>2, <4>1, <5>1, <5>3 DEF LastPosted, WishWaits
        <5> QED
          BY <5>2, <5>3
      <4>7. \A i \in DOMAIN toFrame' : toFrame'[i].active = ActiveIn(frame)
        BY <2>5, <2>6, <3>2, <4>6 DEF WishWaits
      <4>8. WishWaits'
        BY <1>1, <2>1, <3>2, <4>3, <4>4, <4>5, <4>7 DEF WishWaits
      <4> QED
        BY <1>1, <1>9, <2>1, <3>1, <4>3, <4>8 DEF WishFits
    <3>3. CASE WishStands
      <4>1. page.card = wish.card /\ toPage = <<>> /\ page.card # None
        BY <1>2, <3>3 DEF WishStands, CardsTyped
      <4>2. page'.mode = "rendered" /\ page'.version = page.version
        BY <1>4, <1>9 DEF Kept
      <4>3. /\ page'.card = wish.card
            /\ page'.resume \in BlocksOf(page'.inputs) =>
                 \A i \in DOMAIN page'.inputs : page'.inputs[i].block = page'.resume => CardOf(page'.inputs[i]) = wish.card
        <5>1. CASE page' = page
          BY <3>3, <4>1, <5>1 DEF WishStands
        <5>2. CASE /\ page.resume \in BlocksOf(page.inputs) /\ page'.resume = None
                   /\ \E i \in DOMAIN page.inputs : page.inputs[i].block = page.resume /\ page'.card = CardOf(page.inputs[i])
          BY <1>2, <1>4, <3>3, <5>2, InputsAre DEF Kept, PageOK, WishStands
        <5> QED
          BY <1>4, <2>1, <4>1, <5>1, <5>2
      <4>4. ASSUME NEW i \in DOMAIN toFrame', toFrame'[i].open = {}
            PROVE  \A j \in 1..i : toFrame'[j].active = ActiveIn(frame)
        BY <1>5, <1>6, <2>5, <2>6, <3>3, <4>1, <4>4 DEF WishStands
      <4>5. WishStands'
        BY <1>1, <2>1, <4>1, <4>3, <4>4 DEF WishStands
      <4> QED
        BY <1>1, <1>9, <2>1, <3>1, <4>2, <4>5 DEF WishFits
    <3> QED
      BY <3>1, <3>2, <3>3
  <2> QED
    BY <1>8, <2>7, <2>8, <2>9, <2>11, <2>12, <2>13 DEF CardsInv
<1> QED
  BY <1>7, <1>9

-----------------------------------------------------------------------------
(* All of it *)

LEMMA CardsGoOn ==
    ASSUME CardsInv, RenderedNext
    PROVE  CardsInv'
<1>1. ASSUME RenderedSystem PROVE CardsInv'
  BY <1>1, PageTakesKeeps, RenderHtmlKeeps, RenderMarkdownKeeps, FrameListensKeeps, FrameLoadsKeeps,
     FrameTakesKeeps DEF CardsInv, CardsTyped, RenderedSystem
<1>2. ASSUME NEW b \in Blocks,
             ClickInFrame(b) \/ DoubleClickInFrame(b) \/ ClickInPage(b) \/ DoubleClickInPage(b) \/ ResumeInput(b)
      PROVE  CardsInv'
  BY <1>2, ClickInFrameKeeps, DoubleClickInFrameKeeps, ClickInPageKeeps, DoubleClickInPageKeeps, ResumeInputKeeps
<1>3. ASSUME NEW c \in Comments, Select(c) \/ SaveDraft(c) \/ CommentAdded(c) \/ CommentDeleted(c)
      PROVE  CardsInv'
  BY <1>3, SelectKeeps, SaveDraftKeeps, OthersKeep
<1>4. ASSUME ClickOutside \/ SetMode \/ TypeNote \/ CloseThread \/ DiscardNote \/ StartNewFeedback \/ FileChanged
      PROVE  CardsInv'
  BY <1>4, ClickOutsideKeeps, SetModeKeeps, TypeNoteKeeps, CloseThreadKeeps, DiscardNoteKeeps, StartNewFeedbackKeeps, OthersKeep
<1> QED
  BY <1>1, <1>2, <1>3, <1>4 DEF RenderedNext

LEMMA CardsAre ==
    ASSUME CardsInv
    PROVE  CardsFollow
<1>1. CardsTyped /\ FrameFits /\ PendingFits /\ ActiveFits /\ EffectsFit /\ WishFits /\ PageOK(page, used) /\ InputsOK(page.inputs)
      /\ frame \in Frames(used)
  BY DEF CardsInv, CardsTyped, PageOK
<1>2. RenderedTypeOK
  BY <1>1 DEF RenderedTypeOK, PageOK, Frames, Phases, InputsOK
<1>3. FrameShowsThePage
  BY <1>1, AtRest, PendingIsTold DEF FrameShowsThePage
<1>4. ActiveHasACard
  <2> SUFFICES ASSUME Idle, page.mode = "rendered", page.active \in page.comments, page.card = None PROVE FALSE
    BY DEF ActiveHasACard
  <2>1. page = seen /\ Wants(page)
    BY DEF Idle, Wants
  <2>2. CASE viewer = "markdown"
    BY <1>1, <2>1, <2>2 DEF EffectsFit
  <2>3. CASE viewer = "html"
    BY <1>1, <2>1, <2>3, AtRest, PostedIs DEF ActiveIn, ActiveFits, AskedFor
  <2> QED
    BY <1>1, <2>2, <2>3 DEF CardsTyped
<1>5. OpenInputHasACard
  BY <1>1, OpenInputsAre DEF OpenInputHasACard, Idle, EffectsFit
<1>6. WishIsShown
  <2> SUFFICES ASSUME Idle, wish # None, wish.alone PROVE page.card = wish.card
    BY DEF WishIsShown
  <2>1. page.mode = "rendered" /\ viewer \in {"html", "markdown"}
    BY <1>1 DEF WishFits, CardsTyped
  <2>2. CASE viewer = "html"
    <3>1. toPage = <<>>
      BY <2>1, <2>2, AtRest
    <3> QED
      BY <1>1, <2>2, <3>1 DEF WishFits, WishWaits, WishStands
  <2>3. CASE viewer = "markdown"
    BY <1>1, <2>3 DEF WishFits, WishIsOpen
  <2> QED
    BY <2>1, <2>2, <2>3
<1> QED
  BY <1>2, <1>3, <1>4, <1>5, <1>6 DEF CardsFollow

-----------------------------------------------------------------------------
(* The coloured lines *)

\* What is awaited is for the text that is shown, and the surface keeps back only the lines that
\* it saw last.
Jobs == [makes : [content : Contents, theme : Themes], live : BOOLEAN]
HighlightsInv ==
    /\ jobs \subseteq Jobs /\ content \in Contents /\ theme \in Themes
    /\ \A job \in jobs : job.live => job.makes = Wanted
    /\ LinesAreColoured
    /\ pending = incoming
    /\ ~elsewhere /\ ~selecting => visible = pending

LEMMA HighlightsStart ==
    ASSUME HighlightsInit
    PROVE  HighlightsInv
<1>1. jobs = {[makes |-> Wanted, live |-> TRUE]} /\ Wanted \in [content : Contents, theme : Themes]
  BY DEF HighlightsInit, Wanted
<1>2. [makes |-> Wanted, live |-> TRUE] \in {job \in jobs : job.live}
  BY <1>1
<1>3. jobs \subseteq Jobs /\ \A job \in jobs : job.makes = Wanted
  BY <1>1 DEF Jobs
<1> QED
  BY <1>2, <1>3 DEF HighlightsInit, HighlightsInv, LinesAreColoured

LEMMA ShowsKeeps ==
    ASSUME HighlightsInv, NEW c \in Contents, NEW t \in Themes, Shows(c, t)
    PROVE  HighlightsInv'
<1>1. \A job \in CancelAll(jobs) : ~job.live /\ job \in Jobs
  BY DEF HighlightsInv, CancelAll, Jobs
<1>2. /\ content' = c /\ theme' = t /\ jobs' = CancelAll(jobs) \cup {[makes |-> [content |-> c, theme |-> t], live |-> TRUE]}
      /\ incoming' = incoming /\ visible' = visible /\ pending' = pending /\ selecting' = selecting /\ elsewhere' = elsewhere
  BY DEF Shows
<1>3. \A job \in jobs' : job.live => job.makes = Wanted'
  BY <1>1, <1>2 DEF Wanted
<1>4. [makes |-> [content |-> c, theme |-> t], live |-> TRUE] \in {job \in jobs' : job.live}
  BY <1>2
<1>5. jobs' \subseteq Jobs
  <2>1. [makes |-> [content |-> c, theme |-> t], live |-> TRUE] \in Jobs
    BY DEF Jobs
  <2> QED
    BY <1>1, <1>2, <2>1
<1> QED
  BY <1>2, <1>3, <1>4, <1>5 DEF HighlightsInv, LinesAreColoured

LEMMA FinishesKeeps ==
    ASSUME HighlightsInv, NEW job \in jobs, NEW result, result = job.makes \/ result = Plain, Finishes(job, result)
    PROVE  HighlightsInv'
<1>1. /\ jobs' = jobs \ {job} /\ Wanted' = Wanted /\ content' = content /\ theme' = theme
      /\ job.live => highlightedHtml' = result /\ failed' = (result = Plain)
      /\ ~job.live => highlightedHtml' = highlightedHtml /\ failed' = failed
      /\ incoming' = incoming /\ visible' = visible /\ pending' = pending /\ selecting' = selecting /\ elsewhere' = elsewhere
  BY DEF Finishes, Wanted
<1>2. LinesAreColoured'
  <2>1. CASE job.live
    BY <1>1, <2>1 DEF HighlightsInv, LinesAreColoured
  <2>2. CASE ~job.live
    BY <1>1, <2>2 DEF HighlightsInv, LinesAreColoured
  <2> QED
    BY <2>1, <2>2
<1> QED
  BY <1>1, <1>2 DEF HighlightsInv

LEMMA HighlightsRest ==
    ASSUME HighlightsInv, UNCHANGED <<content, theme, jobs, highlightedHtml, incoming, pending, failed>>,
           \/ UNCHANGED <<visible, selecting, elsewhere>>
           \/ selecting'
           \/ elsewhere'
           \/ visible' = pending
    PROVE  HighlightsInv'
  BY DEF Wanted, LinesAreColoured, HighlightsInv

LEMMA SurfaceKeeps ==
    ASSUME HighlightsInv, Surface
    PROVE  HighlightsInv'
  BY DEF Surface, Wanted, LinesAreColoured, NextVisible, HighlightsInv

LEMMA HighlightsGoOn ==
    ASSUME HighlightsInv, HighlightsNext
    PROVE  HighlightsInv'
  BY ShowsKeeps, FinishesKeeps, HighlightsRest, SurfaceKeeps DEF HighlightsInv, ContentChanged, ThemeChanged,
     Highlighted, HighlightFails, BeginSelection, EndSelection, EndSelectionElsewhere, FlushDeferred,
     HighlightsNext

LEMMA HighlightsAreKept ==
    ASSUME HighlightsInv
    PROVE  LinesAreTheFile /\ LinesAreColoured
  BY DEF HighlightsInv, LinesAreTheFile, LinesStayTheFile, HighlightedLines

LEMMA SteadyStep ==
    ASSUME HighlightsNext, selecting, selecting'
    PROVE  visible' = visible
  BY DEF HighlightsNext, ContentChanged, ThemeChanged, Shows, Highlighted, HighlightFails, Finishes, Surface,
         NextVisible, BeginSelection, EndSelection, EndSelectionElsewhere

-----------------------------------------------------------------------------
(* The inputs of a diff *)

\* A set of numbers that is not empty has a first.
LEMMA FirstIsLeast ==
    ASSUME NEW numbers \in SUBSET Nat, numbers # {}
    PROVE  FirstOf(numbers) \in numbers /\ \A i \in numbers : FirstOf(numbers) <= i
<1> DEFINE R == OpToRel(<, Nat)
<1>1. IsWellFoundedOn(R, Nat)
  BY NatLessThanWellFounded DEF OpToRel
<1>2. R = {ss \in Nat \X Nat : ss[1] < ss[2]}
  BY DEF OpToRel
<1> HIDE DEF R
<1>3. PICK n \in numbers : \A m \in numbers : ~ (<<m, n>> \in R)
  BY <1>1, WFMin
<1>4. ASSUME NEW m \in numbers PROVE n <= m
  <2>1. m \in Nat /\ n \in Nat /\ ~(<<m, n>> \in R)
    BY <1>3
  <2>2. ~(m < n)
    BY <1>2, <2>1
  <2> QED
    BY <2>1, <2>2
<1> QED
  BY <1>4 DEF FirstOf

\* A sequence without one of its elements.
LeavesOut(tt, ss, k) ==
    /\ Len(tt) = Len(ss) - 1
    /\ \A i \in 1..Len(tt) : tt[i] = IF i < k THEN ss[i] ELSE ss[i + 1]

LEMMA RemovedIs ==
    ASSUME NEW S, NEW ss \in Seq(S), NEW k \in 1..Len(ss), NEW tt, tt = RemoveAt(ss, k)
    PROVE  tt \in Seq(S) /\ LeavesOut(tt, ss, k)
<1> DEFINE front == SubSeq(ss, 1, k - 1)
           back == SubSeq(ss, k + 1, Len(ss))
<1>1. /\ front \in Seq(S) /\ Len(front) = k - 1
      /\ \A i \in 1..(k - 1) : front[i] = ss[i]
  BY SubSeqProperties
<1>2. /\ back \in Seq(S) /\ Len(back) = Len(ss) - k
      /\ \A i \in 1..(Len(ss) - k) : back[i] = ss[i + k]
  BY SubSeqProperties
<1>3. tt = front \o back
  BY DEF RemoveAt
<1> HIDE DEF front, back
<1>4a. front \in Seq(S) /\ back \in Seq(S)
  BY <1>1, <1>2
<1>4. /\ tt \in Seq(S) /\ Len(tt) = Len(front) + Len(back)
      /\ \A i \in 1..(Len(front) + Len(back)) : tt[i] = IF i <= Len(front) THEN front[i] ELSE back[i - Len(front)]
  BY ONLY <1>4a, <1>3, ConcatProperties
<1>5. Len(tt) = Len(ss) - 1
  BY <1>1, <1>2, <1>4
<1>6. ASSUME NEW i \in 1..Len(tt) PROVE tt[i] = IF i < k THEN ss[i] ELSE ss[i + 1]
  <2>1. CASE i < k
    BY <1>1, <1>2, <1>4, <1>5, <2>1
  <2>2. CASE ~(i < k)
    BY <1>1, <1>2, <1>4, <1>5, <2>2
  <2> QED
    BY <2>1, <2>2
<1> QED
  BY <1>4, <1>5, <1>6 DEF LeavesOut

Distinct(ss) == \A i, j \in DOMAIN ss : ss[i] = ss[j] => i = j

\* The first of the inputs that hold a line.
Leads(ss, l, span) ==
    \E k \in DOMAIN ss : ss[k] = span /\ Spanning(span, l) /\ \A i \in DOMAIN ss : i < k => ~Spanning(ss[i], l)

\* One element is left out: the others are as distinct, and as early, as before.
Thinned(tt, ss, k) ==
    /\ Distinct(tt) /\ \A i \in DOMAIN tt : tt[i] # ss[k] /\ \E j \in DOMAIN ss : tt[i] = ss[j]
    /\ \A l, span : Leads(ss, l, span) /\ span # ss[k] => Leads(tt, l, span)

LEMMA ThinnedIs ==
    ASSUME NEW S, NEW ss \in Seq(S), Distinct(ss), NEW k \in DOMAIN ss, NEW tt, tt = RemoveAt(ss, k)
    PROVE  tt \in Seq(S) /\ Thinned(tt, ss, k)
<1>1. tt \in Seq(S) /\ LeavesOut(tt, ss, k) /\ DOMAIN tt = 1..Len(tt) /\ DOMAIN ss = 1..Len(ss) /\ Len(ss) \in Nat
  BY RemovedIs
<1>2. /\ Len(tt) = Len(ss) - 1
      /\ \A i \in 1..Len(tt) : tt[i] = IF i < k THEN ss[i] ELSE ss[i + 1]
  BY <1>1 DEF LeavesOut
<1>3. Distinct(tt)
  BY <1>1, <1>2 DEF Distinct
<1>4. ASSUME NEW i \in DOMAIN tt PROVE tt[i] # ss[k] /\ \E j \in DOMAIN ss : tt[i] = ss[j]
  BY <1>1, <1>2 DEF Distinct
<1>5. ASSUME NEW l, NEW span, Leads(ss, l, span), span # ss[k] PROVE Leads(tt, l, span)
  <2>1. PICK m \in DOMAIN ss : /\ ss[m] = span /\ Spanning(span, l)
                               /\ \A i \in DOMAIN ss : i < m => ~Spanning(ss[i], l)
    BY <1>5 DEF Leads
  <2> DEFINE n == IF m < k THEN m ELSE m - 1
  <2>2. m # k
    BY <1>5, <2>1
  <2>3. n \in 1..Len(tt) /\ tt[n] = span
    BY <1>1, <1>2, <2>1, <2>2
  <2>4. ASSUME NEW i \in 1..Len(tt), i < n PROVE ~Spanning(tt[i], l)
    BY <1>1, <1>2, <2>1, <2>2, <2>4
  <2> HIDE DEF n
  <2> QED
    BY <1>1, <2>1, <2>3, <2>4 DEF Leads
<1> QED
  BY <1>1, <1>3, <1>4, <1>5 DEF Thinned

LEMMA DroppedIs ==
    ASSUME NEW S, NEW ss \in Seq(S), NEW e, NEW tt, tt = RemoveFirst(ss, e)
    PROVE  \/ tt = ss /\ \A i \in DOMAIN ss : ss[i] # e
           \/ \E k \in DOMAIN ss : ss[k] = e /\ tt = RemoveAt(ss, k)
<1> DEFINE places == {i \in 1..Len(ss) : ss[i] = e}
<1>1. tt = IF \E i \in 1..Len(ss) : ss[i] = e THEN RemoveAt(ss, FirstOf(places)) ELSE ss
  BY DEF RemoveFirst, SelectInSeq, Min, FirstOf
<1>2. DOMAIN ss = 1..Len(ss) /\ places \in SUBSET Nat
  OBVIOUS
<1>3. CASE places = {}
  BY <1>1, <1>2, <1>3
<1>4. CASE places # {}
  BY <1>1, <1>2, <1>4, FirstIsLeast
<1> QED
  BY <1>3, <1>4

LEMMA AppendedLeads ==
    ASSUME NEW S, NEW ss \in Seq(S), NEW e \in S, NEW tt, tt = Append(ss, e),
           NEW l, NEW span, Leads(ss, l, span)
    PROVE  Leads(tt, l, span)
  BY AppendProperties DEF Leads

\* The inputs of a diff are distinct and on its lines, and so are the places where text is typed.
DiffInv ==
    /\ rows \subseteq 1..MaxRow /\ diffThreads \subseteq DOMAIN DiffSaved
    /\ draftThreads \in Seq(Spans) /\ Distinct(draftThreads) /\ written \subseteq Spans
    /\ diffContent \in Nat

LEMMA DiffIs ==
    ASSUME DiffInv
    PROVE  DiffTypeOK
  BY DEF DiffInv, ToSet, DiffTypeOK, Distinct

\* Whose composer a line has.
FirstHolder(ss, l) ==
    LET holders == {i \in 1..Len(ss) : Spanning(ss[i], l)}
    IN  IF holders = {} THEN 0 ELSE FirstOf(holders)
ComposerIn(ss, l) ==
    IF FirstHolder(ss, l) # 0 /\ ss[FirstHolder(ss, l)].end = l THEN {ss[FirstHolder(ss, l)]} ELSE {}

LEMMA ComposerIs ==
    ASSUME NEW l
    PROVE  /\ DraftAt(l) = FirstHolder(draftThreads, l) /\ DraftAt(l)' = FirstHolder(draftThreads', l)
           /\ ComposerBelow(l) = ComposerIn(draftThreads, l) /\ ComposerBelow(l)' = ComposerIn(draftThreads', l)
<1>1. DraftAt(l) = FirstHolder(draftThreads, l)
  BY DEF DraftAt, SelectInSeq, Min, FirstOf, FirstHolder
<1>2. DraftAt(l)' = FirstHolder(draftThreads', l)
  BY DEF DraftAt, SelectInSeq, Min, FirstOf, FirstHolder
<1> QED
  BY <1>1, <1>2 DEF ComposerBelow, ComposerIn

LEMMA ComposerLeads ==
    ASSUME NEW S, NEW ss \in Seq(S), NEW l, NEW span
    PROVE  span \in ComposerIn(ss, l) <=> Leads(ss, l, span) /\ span.end = l
<1> DEFINE holders == {i \in 1..Len(ss) : Spanning(ss[i], l)}
           k == FirstOf(holders)
<1>1. FirstHolder(ss, l) = IF holders = {} THEN 0 ELSE k
  BY DEF FirstHolder
<1>2. holders \in SUBSET Nat /\ DOMAIN ss = 1..Len(ss) /\ Len(ss) \in Nat
  OBVIOUS
<1>3. CASE holders = {}
  BY <1>1, <1>2, <1>3 DEF ComposerIn, Leads
<1>4. CASE holders # {}
  <2>1. k \in holders /\ \A i \in holders : k <= i
    BY <1>2, <1>4, FirstIsLeast
  <2>2. FirstHolder(ss, l) = k /\ k # 0 /\ k \in DOMAIN ss
    BY <1>1, <1>2, <1>4, <2>1
  <2> HIDE DEF k
  <2>3. ComposerIn(ss, l) = IF ss[k].end = l THEN {ss[k]} ELSE {}
    BY <2>2 DEF ComposerIn
  <2>4. Leads(ss, l, ss[k])
    BY <1>2, <2>1, <2>2 DEF Leads
  <2>5. Leads(ss, l, span) => span = ss[k]
    BY <1>2, <2>1, <2>2 DEF Leads
  <2> QED
    BY <2>3, <2>4, <2>5
<1> QED
  BY <1>3, <1>4

LEMMA LoneDraftLeads ==
    ASSUME DiffInv
    PROVE  LoneDraftIsShown
<1> SUFFICES ASSUME NEW i \in DOMAIN draftThreads, draftThreads[i].end \in rows,
                    \A j \in DOMAIN draftThreads \ {i} : \A l \in 1..MaxRow :
                        ~(Spanning(draftThreads[i], l) /\ Spanning(draftThreads[j], l))
             PROVE  HasDiffComposer(draftThreads[i])
  BY DEF LoneDraftIsShown
<1> DEFINE span == draftThreads[i]
           l == span.end
<1>1. span \in Spans /\ l \in 1..MaxRow /\ Spanning(span, l) /\ DOMAIN draftThreads = 1..Len(draftThreads)
  <2>1. span \in Spans
    BY DEF DiffInv
  <2> QED
    BY <2>1, DiffAssumption DEF Spans, Spanning, DiffInv
<1>2. Leads(draftThreads, l, span)
  BY <1>1 DEF Leads
<1>3. span \in ComposerBelow(l)
  BY <1>2, ComposerIs, ComposerLeads DEF DiffInv
<1> QED
  BY <1>3 DEF HasDiffComposer

\* A deed on the inputs leaves one of them out, or begins one at the end of the others, or both.
Deed(tt, ss) ==
    /\ tt \in Seq(Spans) /\ Distinct(tt)
    /\ \A l, span : Leads(ss, l, span) => \/ Leads(tt, l, span) \/ (\A i \in DOMAIN tt : tt[i] # span)
                                          \/ (Last(tt) = span /\ Last(ss) # span)

LEMMA SameDeed ==
    ASSUME DiffInv
    PROVE  Deed(draftThreads, draftThreads)
  BY DEF DiffInv, Deed

LEMMA ThinDeed ==
    ASSUME NEW ss \in Seq(Spans), Distinct(ss), NEW k \in DOMAIN ss, NEW tt, tt = RemoveAt(ss, k)
    PROVE  Deed(tt, ss)
  BY ThinnedIs DEF Thinned, Deed

LEMMA DropDeed ==
    ASSUME NEW ss \in Seq(Spans), Distinct(ss), NEW e, NEW tt, tt = RemoveFirst(ss, e)
    PROVE  Deed(tt, ss) /\ \A i \in DOMAIN tt : tt[i] # e
<1>1. CASE tt = ss /\ \A i \in DOMAIN ss : ss[i] # e
  BY <1>1 DEF Deed
<1>2. ASSUME NEW k \in DOMAIN ss, ss[k] = e, tt = RemoveAt(ss, k) PROVE Deed(tt, ss) /\ \A i \in DOMAIN tt : tt[i] # e
  BY <1>2, ThinnedIs DEF Thinned, Deed
<1> QED
  BY <1>1, <1>2, DroppedIs

LEMMA BeginDeed ==
    ASSUME NEW ss \in Seq(Spans), Distinct(ss), NEW e \in Spans, NEW tt, tt = Began(ss, e)
    PROVE  Deed(tt, ss)
<1> DEFINE rest == RemoveFirst(ss, e)
<1>1. Deed(rest, ss) /\ \A i \in DOMAIN rest : rest[i] # e
  BY DropDeed
<1>2. \/ rest = ss /\ \A i \in DOMAIN ss : ss[i] # e
      \/ \E k \in DOMAIN ss : ss[k] = e /\ rest = RemoveAt(ss, k)
  BY DroppedIs
<1>3. tt = Append(rest, e)
  BY DEF Began
<1> HIDE DEF rest
<1>4. rest \in Seq(Spans) /\ Distinct(rest)
  BY <1>1 DEF Deed
<1>5. /\ tt \in Seq(Spans) /\ Len(tt) = Len(rest) + 1 /\ DOMAIN tt = 1..(Len(rest) + 1) /\ DOMAIN rest = 1..Len(rest)
      /\ tt[Len(rest) + 1] = e /\ Len(rest) \in Nat
      /\ \A i \in DOMAIN rest : tt[i] = rest[i]
  BY <1>3, <1>4, AppendProperties
<1>6. Distinct(tt) /\ Last(tt) = e
  BY <1>1, <1>4, <1>5 DEF Distinct, Last
<1>7. ASSUME NEW l, NEW span, Leads(ss, l, span), ~Leads(tt, l, span), NEW m \in DOMAIN tt, tt[m] = span
      PROVE  Last(tt) = span /\ Last(ss) # span
  <2>1. CASE Leads(rest, l, span)
    BY <1>3, <1>4, <1>7, <2>1, AppendedLeads
  <2>2. CASE ~Leads(rest, l, span)
    <3>1. span = e
      <4>1. CASE rest = ss
        BY <1>7, <2>2, <4>1
      <4>2. ASSUME NEW k \in DOMAIN ss, ss[k] = e, rest = RemoveAt(ss, k) PROVE span = e
        BY <1>7, <2>2, <4>2, ThinnedIs DEF Thinned
      <4> QED
        BY <1>2, <4>1, <4>2
    <3>2. ASSUME Last(ss) = e PROVE FALSE
      <4>1. PICK k \in DOMAIN ss : ss[k] = e /\ rest = RemoveAt(ss, k)
        BY <1>2, <1>7, <3>1 DEF Leads
      <4>2. LeavesOut(rest, ss, k) /\ DOMAIN ss = 1..Len(ss) /\ Len(ss) \in Nat /\ Len(ss) \in DOMAIN ss
        BY <4>1, RemovedIs
      <4>3. k = Len(ss)
        BY <3>2, <4>1, <4>2 DEF Distinct, Last
      <4>4. Len(rest) = Len(ss) - 1 /\ \A i \in 1..(Len(ss) - 1) : rest[i] = ss[i]
        BY <4>2, <4>3 DEF LeavesOut
      <4>5. Len(tt) = Len(ss) /\ \A i \in 1..Len(ss) : tt[i] = ss[i]
        BY <1>5, <4>1, <4>3, <4>4
      <4>6. Leads(tt, l, span)
        BY <1>5, <1>7, <4>2, <4>5 DEF Leads
      <4> QED
        BY <1>7, <4>6
    <3> QED
      BY <1>6, <3>1, <3>2
  <2> QED
    BY <2>1, <2>2
<1> QED
  BY <1>5, <1>6, <1>7 DEF Deed

\* What a step of the reader on a diff that stays may do.
DiffSteady ==
    /\ diffContent' = diffContent /\ rows' = rows /\ Deed(draftThreads', draftThreads)
    /\ diffThreads' \subseteq DOMAIN DiffSaved /\ written' \subseteq Spans

LEMMA WithoutComposerIs ==
    ASSUME DiffInv, NEW l, NEW tt, tt = WithoutComposer(l)
    PROVE  /\ Deed(tt, draftThreads)
           /\ \A span \in ComposerBelow(l) : \A i \in DOMAIN tt : tt[i] # span
<1>1. CASE ComposerBelow(l) = {}
  BY <1>1, SameDeed DEF WithoutComposer
<1>2. CASE ComposerBelow(l) # {}
  <2> DEFINE ss == draftThreads
             holders == {i \in 1..Len(ss) : Spanning(ss[i], l)}
  <2>1. DraftAt(l) = IF holders = {} THEN 0 ELSE FirstOf(holders)
    BY ComposerIs DEF FirstHolder
  <2>2. DraftAt(l) # 0 /\ ComposerBelow(l) = {ss[DraftAt(l)]} /\ tt = RemoveAt(ss, DraftAt(l))
    BY <1>2 DEF ComposerBelow, WithoutComposer
  <2>3. holders \in SUBSET Nat /\ holders # {} /\ DOMAIN ss = 1..Len(ss) /\ ss \in Seq(Spans) /\ Distinct(ss)
    BY <2>1, <2>2 DEF DiffInv
  <2>4. DraftAt(l) \in DOMAIN ss
    BY <2>1, <2>3, FirstIsLeast
  <2>5. Thinned(tt, ss, DraftAt(l)) /\ Deed(tt, ss)
    BY <2>2, <2>3, <2>4, ThinnedIs, ThinDeed
  <2> QED
    BY <2>2, <2>5 DEF Thinned
<1> QED
  BY <1>1, <1>2

LEMMA StartSteady ==
    ASSUME DiffInv, NEW span \in Spans, StartDiffComment(span)
    PROVE  Deed(draftThreads', draftThreads)
  BY BeginDeed DEF DiffInv, StartDiffComment

LEMMA ClickSteady ==
    ASSUME DiffInv, NEW l \in 1..MaxRow, ClickDiffMarker(l)
    PROVE  DiffSteady
<1>1. UNCHANGED <<diffContent, rows, diffThreads, activeThread, written>>
  BY DEF ClickDiffMarker
<1>2. CASE RowOpen(l)
  BY <1>1, <1>2, WithoutComposerIs DEF ClickDiffMarker, CloseAllAt, DiffSteady, DiffInv
<1>3. CASE ~RowOpen(l) /\ EndingAt(l) # {}
  BY <1>1, <1>3, SameDeed DEF ClickDiffMarker, DiffSteady, DiffInv
<1>4. CASE ~RowOpen(l) /\ EndingAt(l) = {}
  <2>1. [start |-> l, end |-> l] \in Spans
    BY DiffAssumption DEF Spans
  <2> QED
    BY <1>1, <1>4, <2>1, StartSteady DEF ClickDiffMarker, DiffSteady, DiffInv
<1> QED
  BY <1>2, <1>3, <1>4

LEMMA DeedSteady ==
    ASSUME DiffInv, DiffDeed, diffContent' = diffContent
    PROVE  DiffSteady
<1>1. ASSUME NEW l \in 1..MaxRow, ClickDiffMarker(l) \/ ClickDiffRow(l) PROVE DiffSteady
  BY <1>1, ClickSteady DEF ClickDiffRow
<1>2. ASSUME NEW a \in 1..MaxRow, NEW b \in 1..MaxRow, SelectRows(a, b) PROVE DiffSteady
  BY <1>2, StartSteady DEF SelectRows, Spans, DiffSteady, DiffInv
<1>3. ASSUME NEW t \in DOMAIN DiffSaved, StartNewDiffFeedback(t) PROVE DiffSteady
  <2>1. DiffSaved[t] \in Spans
    BY DiffAssumption
  <2> QED
    BY <1>3, <2>1, StartSteady DEF StartNewDiffFeedback, DiffSteady, DiffInv
<1>4. ASSUME NEW t, CloseDiffThread(t) \/ ActivateThread(t) PROVE DiffSteady
  BY <1>4, SameDeed DEF CloseDiffThread, ActivateThread, DiffSteady, DiffInv
<1>5. ASSUME NEW span \in Spans, TypeInDiff(span) PROVE DiffSteady
  BY <1>5, SameDeed DEF TypeInDiff, DiffSteady, DiffInv
<1>6. ASSUME NEW span \in Spans, NEW saved, CloseDiffInput(span, saved) PROVE DiffSteady
  BY <1>6, DropDeed DEF DiffInv, CloseDiffInput, DiffSteady
<1>7. ASSUME NEW ts \in SUBSET DOMAIN DiffSaved, DiffThreadsChange(ts) PROVE DiffSteady
  BY <1>7, SameDeed DEF DiffThreadsChange, DiffSteady, DiffInv
<1>8. ASSUME NEW lines, DiffChanges(lines) PROVE FALSE
  BY <1>8 DEF DiffChanges, DiffInv
<1> QED
  BY <1>1, <1>2, <1>3, <1>4, <1>5, <1>6, <1>7, <1>8 DEF DiffDeed

LEMMA DiffStarts ==
    ASSUME DiffInit
    PROVE  DiffInv
  BY DiffAssumption DEF DiffInit, DiffInv, Distinct

LEMMA DiffGoesOn ==
    ASSUME DiffInv, DiffNext
    PROVE  DiffInv' /\ (DiffSteady \/ \E lines \in RowSets : DiffChanges(lines))
<1>1. CASE DiffSteady
  BY <1>1 DEF DiffSteady, DiffInv, Deed
<1>2. ASSUME NEW lines \in RowSets, DiffChanges(lines) PROVE DiffInv'
  BY <1>2, DiffAssumption DEF DiffChanges, ResetLocal, DiffInv, Distinct
<1>3. ASSUME NEW span, ResumeInDiff(span) PROVE DiffSteady
  BY <1>3, SameDeed DEF ResumeInDiff, DiffSteady, DiffInv
<1>4. CASE DiffDeed
  <2>1. CASE diffContent' = diffContent
    BY <1>1, <1>4, <2>1, DeedSteady
  <2>2. CASE diffContent' # diffContent
    BY <1>2, <1>4, <2>2 DEF DiffDeed, ClickDiffMarker, ClickDiffRow, SelectRows, StartNewDiffFeedback,
       CloseDiffThread, ActivateThread, TypeInDiff, CloseDiffInput, DiffThreadsChange
  <2> QED
    BY <2>1, <2>2
<1> QED
  BY <1>1, <1>3, <1>4 DEF DiffNext

\* Beginning a comment, and all else but leaving it, keeps the composers of the others.
LEMMA OthersStep ==
    ASSUME DiffInv, DiffNext
    PROVE  \A span \in Spans :
               /\ HasDiffComposer(span) /\ ~HasDiffComposer(span)' /\ diffContent' = diffContent
               => \/ span \notin ToSet(draftThreads')
                  \/ Last(draftThreads') = span /\ Last(draftThreads) # span
<1> SUFFICES ASSUME NEW span \in Spans, HasDiffComposer(span), ~HasDiffComposer(span)', diffContent' = diffContent,
                    span \in ToSet(draftThreads')
             PROVE  Last(draftThreads') = span /\ Last(draftThreads) # span
  OBVIOUS
<1>1. DiffInv' /\ DiffSteady
  <2>1. ASSUME NEW lines \in RowSets, DiffChanges(lines) PROVE FALSE
    BY <2>1 DEF DiffChanges, DiffInv
  <2> QED
    BY <2>1, DiffGoesOn
<1>2. rows' = rows /\ Deed(draftThreads', draftThreads)
  BY <1>1 DEF DiffSteady
<1>3. Leads(draftThreads, span.end, span)
  BY ComposerIs, ComposerLeads DEF HasDiffComposer, DiffInv
<1>4. ~Leads(draftThreads', span.end, span)
  BY <1>1, <1>2, ComposerIs, ComposerLeads DEF HasDiffComposer, DiffInv
<1> QED
  BY <1>2, <1>3, <1>4 DEF Deed, ToSet

LEMMA MarkerStep ==
    ASSUME DiffInv, DiffNext, NEW l \in rows, ClickDiffMarker(l), RowOpen(l)
    PROVE  /\ ShownAt(l)' \subseteq {activeThread}
           /\ (ComposerBelow(l) # {} => ComposerBelow(l)' # ComposerBelow(l))
<1>1. /\ CloseAllAt(l) /\ diffThreads' = diffThreads /\ activeThread' = activeThread
  BY DEF ClickDiffMarker
<1>2. ShownAt(l)' \subseteq {activeThread}
  BY <1>1 DEF CloseAllAt, ShownAt, VisibleThreads
<1>3. ASSUME NEW span \in ComposerBelow(l), span \in ComposerBelow(l)' PROVE FALSE
  BY <1>1, <1>3, WithoutComposerIs, DiffGoesOn, ComposerIs, ComposerLeads DEF CloseAllAt, DiffInv, Leads
<1> QED
  BY <1>2, <1>3

LEMMA NewDiffStep ==
    ASSUME DiffInv, DiffNext, diffContent' # diffContent
    PROVE  \A l \in 1..MaxRow : ComposerBelow(l)' = {} /\ ShownAt(l)' \subseteq {activeThread}
<1>1. PICK lines \in RowSets : DiffChanges(lines)
  BY DiffGoesOn DEF DiffSteady
<1>2. draftThreads' = <<>> /\ openThreadKeys' = {} /\ activeThread' = activeThread
  BY <1>1 DEF DiffChanges, ResetLocal
<1>3. ASSUME NEW l PROVE ComposerBelow(l)' = {}
  <2>1. FirstHolder(<<>>, l) = 0
    BY DEF FirstHolder
  <2>2. ComposerBelow(l)' = ComposerIn(<<>>, l)
    BY <1>2, ComposerIs
  <2> QED
    BY <2>1, <2>2 DEF ComposerIn
<1> QED
  BY <1>2, <1>3 DEF ShownAt, VisibleThreads

-----------------------------------------------------------------------------
(* The threads of a source file *)

LinePlaces == {p \in [start : Line, end : Line] : p.start <= p.end}
LineInputs == {i \in [start : Line, end : Line, collapsed : BOOLEAN] : i.start <= i.end}
LineItems == [key : Nat \ {0}, start : Line, end : Line]

\* The drafts have keys of their own, beyond those of the saved threads.
DraftKey(a, b) == Len(Saved) + MaxLine * a + b
DraftThread(p) ==
    [key |-> DraftKey(p.start, p.end), start |-> p.start, end |-> p.end, surface |-> "source", draft |-> TRUE]
AllThreads == {SavedThread(i) : i \in DOMAIN Saved} \cup {DraftThread(p) : p \in LinePlaces}
LastKey == Len(Saved) + MaxLine * MaxLine + MaxLine

LEMMA ProductGrows ==
    ASSUME NEW n \in Nat, NEW a \in Nat, NEW b \in Nat, a < b
    PROVE  n * a + n <= n * b
<1>1. PICK d \in Nat : b = a + 1 + d
  OBVIOUS
<1>2. n * b = n * a + n + n * d
  BY <1>1
<1>3. n * d \in Nat /\ n * a \in Nat /\ n * b \in Nat
  OBVIOUS
<1> QED
  BY <1>2, <1>3

LEMMA DraftKeysDiffer ==
    ASSUME NEW a \in Line, NEW b \in Line, NEW c \in Line, NEW d \in Line, DraftKey(a, b) = DraftKey(c, d)
    PROVE  a = c /\ b = d
<1>1. MaxLine \in Nat /\ Len(Saved) \in Nat /\ a \in Nat /\ c \in Nat
  BY LinesAssumption DEF Line
<1>2. MaxLine * a \in Nat /\ MaxLine * c \in Nat
  BY <1>1
<1>3. MaxLine * a + b = MaxLine * c + d
  BY <1>1, <1>2 DEF DraftKey, Line
<1>4. ~(a < c)
  BY <1>1, <1>2, <1>3, ProductGrows DEF Line
<1>5. ~(c < a)
  BY <1>1, <1>2, <1>3, ProductGrows DEF Line
<1>6. a = c
  BY <1>1, <1>4, <1>5
<1> QED
  BY <1>2, <1>3, <1>6 DEF Line

LEMMA DraftKeyIs ==
    ASSUME NEW a \in Line, NEW b \in Line
    PROVE  DraftKey(a, b) \in Nat /\ DraftKey(a, b) > Len(Saved) /\ DraftKey(a, b) <= LastKey
<1>1. MaxLine \in Nat /\ Len(Saved) \in Nat /\ a \in Nat /\ a <= MaxLine
  BY LinesAssumption DEF Line
<1>2. MaxLine * a \in Nat /\ MaxLine * MaxLine \in Nat
  BY <1>1
<1>3. MaxLine * a <= MaxLine * MaxLine
  BY <1>1, <1>2, ProductGrows
<1> QED
  BY <1>1, <1>2, <1>3 DEF DraftKey, LastKey, Line

\* A thread is where its lines are, and has a key of its own.
LEMMA ThreadsAre ==
    /\ LastKey \in Nat
    /\ \A t \in AllThreads : /\ t.key \in 1..LastKey /\ t.start \in Line /\ t.end \in Line /\ t.start <= t.end
                             /\ t.draft \in BOOLEAN
    /\ \A t, u \in AllThreads : t.key = u.key => t = u
<1>1. MaxLine \in Nat /\ MaxLine * MaxLine \in Nat /\ Len(Saved) \in Nat /\ DOMAIN Saved = 1..Len(Saved)
  BY LinesAssumption
<1>2. LastKey \in Nat /\ Len(Saved) <= LastKey
  BY <1>1 DEF LastKey
<1>3. ASSUME NEW i \in DOMAIN Saved
      PROVE  /\ SavedThread(i).key = i /\ i \in 1..LastKey /\ SavedThread(i).start \in Line /\ SavedThread(i).end \in Line
             /\ SavedThread(i).start <= SavedThread(i).end /\ SavedThread(i).draft \in BOOLEAN
  <2> DEFINE S == [start : 1 .. MaxLine, end : 1 .. MaxLine, surface : {"source", "rendered"}]
  <2>0. Saved \in Seq(S)
    BY LinesAssumption
  <2>1. Saved[i] \in S
    <3> HIDE DEF S
    <3> QED
      BY ONLY <2>0, i \in DOMAIN Saved
  <2>2. Saved[i].start \in Line /\ Saved[i].end \in Line /\ Saved[i].start <= Saved[i].end
    BY <2>1, LinesAssumption DEF Line
  <2>3. i \in 1..LastKey
    BY <1>1, <1>2
  <2>4. /\ SavedThread(i).key = i /\ SavedThread(i).start = Saved[i].start /\ SavedThread(i).end = Saved[i].end
        /\ SavedThread(i).draft = FALSE
    BY DEF SavedThread
  <2> QED
    BY <2>2, <2>3, <2>4
<1>4. ASSUME NEW p \in LinePlaces
      PROVE  /\ DraftThread(p).key = DraftKey(p.start, p.end) /\ DraftThread(p).key \in 1..LastKey
             /\ DraftThread(p).key > Len(Saved) /\ p.start \in Line /\ p.end \in Line
             /\ DraftThread(p).start = p.start /\ DraftThread(p).end = p.end
             /\ p.start <= p.end /\ DraftThread(p).draft \in BOOLEAN
  BY <1>1, <1>2, DraftKeyIs DEF LinePlaces, DraftThread
<1>5. ASSUME NEW t \in AllThreads
      PROVE  /\ t.key \in 1..LastKey /\ t.start \in Line /\ t.end \in Line /\ t.start <= t.end
             /\ t.draft \in BOOLEAN
  BY <1>3, <1>4 DEF AllThreads
<1>6. ASSUME NEW t \in AllThreads, NEW u \in AllThreads, t.key = u.key PROVE t = u
  <2>1. ASSUME NEW i \in DOMAIN Saved, NEW j \in DOMAIN Saved, t = SavedThread(i), u = SavedThread(j) PROVE t = u
    BY <1>3, <1>6, <2>1
  <2>2. ASSUME NEW i \in DOMAIN Saved, NEW p \in LinePlaces,
               SavedThread(i).key = DraftThread(p).key
        PROVE  FALSE
    BY <1>1, <1>3, <1>4, <2>2
  <2>3. ASSUME NEW p \in LinePlaces, NEW q \in LinePlaces, t = DraftThread(p), u = DraftThread(q) PROVE t = u
    <3>1. p.start = q.start /\ p.end = q.end
      BY <1>4, <1>6, <2>3, DraftKeysDiffer
    <3> QED
      BY <2>3, <3>1 DEF DraftThread
  <2> QED
    BY <1>6, <2>1, <2>2, <2>3 DEF AllThreads
<1> QED
  BY <1>2, <1>5, <1>6

LEMMA GreatestIs ==
    ASSUME NEW n \in Nat, NEW numbers \in SUBSET (0..n), numbers # {}
    PROVE  \E m \in numbers : \A i \in numbers : i <= m
<1> DEFINE gaps == {n - i : i \in numbers}
<1>1. gaps \in SUBSET Nat /\ gaps # {}
  <2>1. \A i \in numbers : n - i \in Nat
    OBVIOUS
  <2> QED
    BY <2>1
<1>2. FirstOf(gaps) \in gaps /\ \A g \in gaps : FirstOf(gaps) <= g
  BY <1>1, FirstIsLeast
<1>3. PICK m \in numbers : FirstOf(gaps) = n - m
  BY <1>2
<1>4. ASSUME NEW i \in numbers PROVE i <= m
  <2>1. n - m <= n - i /\ i \in 0..n /\ m \in 0..n
    BY <1>2, <1>3
  <2> QED
    BY <2>1
<1> QED
  BY <1>4

\* The order of codeCommentThreads has a first and a last of every set of threads.
LEMMA FirstThreadIs ==
    ASSUME NEW ts \in SUBSET AllThreads, ts # {}
    PROVE  First(ts) \in ts
<1>1. /\ \A t \in ts : t.key \in Nat /\ t.start \in Nat /\ t.end \in Nat
      /\ \A t, u \in ts : t.key = u.key => t = u
  BY ThreadsAre DEF Line
<1> DEFINE ends == {t.end : t \in ts}
           starts == {t.start : t \in {u \in ts : u.end = FirstOf(ends)}}
           keys == {t.key : t \in {u \in ts : u.end = FirstOf(ends) /\ u.start = FirstOf(starts)}}
<1>2. FirstOf(ends) \in ends /\ \A e \in ends : FirstOf(ends) <= e
  <2>1. ends \in SUBSET Nat /\ ends # {}
    BY <1>1
  <2> QED
    BY <2>1, FirstIsLeast
<1>3. FirstOf(starts) \in starts /\ \A e \in starts : FirstOf(starts) <= e
  <2>1. starts \in SUBSET Nat
    BY <1>1
  <2>2. PICK t \in ts : t.end = FirstOf(ends)
    BY <1>2
  <2>3. t.start \in starts
    BY <2>2
  <2> QED
    BY <2>1, <2>3, FirstIsLeast
<1>4. FirstOf(keys) \in keys /\ \A e \in keys : FirstOf(keys) <= e
  <2>1. keys \in SUBSET Nat /\ keys # {}
    BY <1>1, <1>3
  <2> HIDE DEF keys
  <2> QED
    BY <2>1, FirstIsLeast
<1>5. PICK t \in ts : t.end = FirstOf(ends) /\ t.start = FirstOf(starts) /\ t.key = FirstOf(keys)
  BY <1>4
<1>6. ASSUME NEW u \in ts \ {t} PROVE IsBefore(t, u)
  <2>1. u.end \in ends /\ t.key # u.key /\ t.end <= u.end
    BY <1>1, <1>2, <1>5
  <2>2. u.end = t.end => u.start \in starts /\ t.start <= u.start
    BY <1>3, <1>5
  <2>3. u.end = t.end /\ u.start = t.start => t.key <= u.key
    BY <1>4, <1>5
  <2>4. /\ t.end \in Nat /\ u.end \in Nat /\ t.start \in Nat /\ u.start \in Nat /\ t.key \in Nat /\ u.key \in Nat
    BY <1>1
  <2>5. CASE t.end # u.end
    BY <2>1, <2>4, <2>5 DEF IsBefore
  <2>6. CASE t.end = u.end /\ t.start # u.start
    BY <2>2, <2>4, <2>6 DEF IsBefore
  <2>7. CASE t.end = u.end /\ t.start = u.start
    BY <2>1, <2>3, <2>4, <2>7 DEF IsBefore
  <2> QED
    BY <2>5, <2>6, <2>7
<1> QED
  BY <1>6 DEF First

LEMMA LastThreadIs ==
    ASSUME NEW ts \in SUBSET AllThreads, ts # {}
    PROVE  LastOf(ts) \in ts
<1>1. /\ \A t \in ts : t.key \in 0..LastKey /\ t.start \in 0..MaxLine /\ t.end \in 0..MaxLine
      /\ \A t, u \in ts : t.key = u.key => t = u
      /\ MaxLine \in Nat /\ LastKey \in Nat
  BY ThreadsAre, LinesAssumption DEF Line
<1> DEFINE ends == {t.end : t \in ts}
<1>2. PICK e \in ends : \A f \in ends : f <= e
  <2>1. ends \in SUBSET (0..MaxLine) /\ ends # {}
    BY <1>1
  <2> HIDE DEF ends
  <2> QED
    BY <1>1, <2>1, GreatestIs
<1> DEFINE starts == {t.start : t \in {u \in ts : u.end = e}}
<1>3. PICK s \in starts : \A f \in starts : f <= s
  <2>1. starts \in SUBSET (0..MaxLine) /\ starts # {}
    BY <1>1, <1>2
  <2> HIDE DEF starts
  <2> QED
    BY <1>1, <2>1, GreatestIs
<1> DEFINE keys == {t.key : t \in {u \in ts : u.end = e /\ u.start = s}}
<1>4. PICK k \in keys : \A f \in keys : f <= k
  <2>1. keys \in SUBSET (0..LastKey) /\ keys # {}
    BY <1>1, <1>3
  <2> HIDE DEF keys
  <2> QED
    BY <1>1, <2>1, GreatestIs
<1>5. PICK t \in ts : t.end = e /\ t.start = s /\ t.key = k
  BY <1>4
<1>6. ASSUME NEW u \in ts \ {t} PROVE IsBefore(u, t)
  <2>1. u.end \in ends /\ t.key # u.key /\ u.end <= t.end
    BY <1>1, <1>2, <1>5
  <2>2. u.end = t.end => u.start \in starts /\ u.start <= t.start
    BY <1>3, <1>5
  <2>3. u.end = t.end /\ u.start = t.start => u.key <= t.key
    BY <1>4, <1>5
  <2>4. /\ t.end \in Nat /\ u.end \in Nat /\ t.start \in Nat /\ u.start \in Nat /\ t.key \in Nat /\ u.key \in Nat
    BY <1>1
  <2>5. CASE t.end # u.end
    BY <2>1, <2>4, <2>5 DEF IsBefore
  <2>6. CASE t.end = u.end /\ t.start # u.start
    BY <2>2, <2>4, <2>6 DEF IsBefore
  <2>7. CASE t.end = u.end /\ t.start = u.start
    BY <2>1, <2>3, <2>4, <2>7 DEF IsBefore
  <2> QED
    BY <2>5, <2>6, <2>7
<1> QED
  BY <1>6 DEF LastOf

-----------------------------------------------------------------------------
(* The lines of a source file *)

\* A typed comment is at lines of its own, an opened thread is known by its key.
TypingFits(ss) ==
    /\ ss \in Seq(LineInputs) /\ Len(ss) <= MaxTyped
    /\ \A i, j \in DOMAIN ss : SameRange(ss[i], ss[j]) => i = j
ItemsFit(items) ==
    /\ items \subseteq LineItems
    /\ \A item, other \in items : item.key = other.key => item = other
ChosenFits(range) == range = NoLines \/ range \in LinePlaces

PageFits ==
    /\ length \in Line /\ lineThreads \subseteq AllThreads
    /\ TypingFits(typing) /\ ItemsFit(expanded)
    /\ ChosenFits(chosen) /\ anchorLine \in Nat /\ activeKey \in Nat

\* Only one button is held or clicked at a time, and while it is, nothing is promised unless the
\* click will not be heard.
LineButtons == [line : Line, on : Buttons, shift : BOOLEAN, means : LinePlaces \cup {NoLines}]
LinePresses == [button : LineButtons, start : Line, current : Line, moved : BOOLEAN]
HandsFit ==
    /\ press = NoPress \/ press \in LinePresses
    /\ clickDue = NoPress \/ clickDue \in LineButtons
    /\ quiet \in BOOLEAN
    /\ press # NoPress => clickDue = NoPress /\ promised = NoLines
    /\ clickDue # NoPress /\ ~quiet => promised = NoLines

OpenAt(ss, range) == \E i \in DOMAIN ss : ~ss[i].collapsed /\ SameRange(ss[i], range)
PromiseKept == promised # NoLines => OpenAt(typing, promised)

SourceInv == PageFits /\ HandsFit /\ PromiseKept

LEMMA NormalizeIs ==
    ASSUME PageFits, NEW a \in Int, NEW b \in Int
    PROVE  /\ NormalizeLineRange(a, b) \in LinePlaces
           /\ NormalizeLineRange(a, b).end <= length
<1>1. length \in Nat /\ length >= 1 /\ length <= MaxLine /\ MaxLine \in Nat
  BY LinesAssumption DEF PageFits, Line
<1>2. \A l \in Int : ClampLine(l) \in Line /\ ClampLine(l) <= length
  BY <1>1 DEF ClampLine, Line
<1>3. ClampLine(a) \in Line /\ ClampLine(b) \in Line /\ ClampLine(a) <= length /\ ClampLine(b) <= length
  BY <1>2
<1>4. CASE ClampLine(a) <= ClampLine(b)
  BY <1>3, <1>4 DEF NormalizeLineRange, LinePlaces
<1>5. CASE ~(ClampLine(a) <= ClampLine(b))
  BY <1>3, <1>5 DEF NormalizeLineRange, Line, LinePlaces
<1> QED
  BY <1>4, <1>5

\* Beginning a comment opens the one of these lines, and changes no other.
LEMMA EnteredFits ==
    ASSUME NEW ss, TypingFits(ss), NEW at \in LinePlaces, NEW tt, tt = EnterRange(ss, at), Len(tt) <= MaxTyped
    PROVE  TypingFits(tt) /\ OpenAt(tt, at)
<1> DEFINE new == [start |-> at.start, end |-> at.end, collapsed |-> FALSE]
<1>1. /\ ss \in Seq(LineInputs) /\ DOMAIN ss = 1..Len(ss) /\ Len(ss) \in Nat
      /\ \A i \in DOMAIN ss : ss[i] \in LineInputs
      /\ \A i, j \in DOMAIN ss : SameRange(ss[i], ss[j]) => i = j
  BY DEF TypingFits
<1>2. new \in LineInputs /\ SameRange(new, at) /\ ~new.collapsed
  BY DEF LineInputs, LinePlaces, SameRange, RangeOf
<1>3. CASE \E i \in DOMAIN ss : SameRange(ss[i], at)
  <2>1. tt = [i \in DOMAIN ss |-> IF SameRange(ss[i], at) THEN [ss[i] EXCEPT !.collapsed = FALSE] ELSE ss[i]]
    BY <1>3 DEF EnterRange
  <2>2. \A i \in DOMAIN ss : /\ [ss[i] EXCEPT !.collapsed = FALSE] \in LineInputs
                             /\ SameRange([ss[i] EXCEPT !.collapsed = FALSE], ss[i])
                             /\ ~[ss[i] EXCEPT !.collapsed = FALSE].collapsed
    BY <1>1 DEF LineInputs, SameRange, RangeOf
  <2>3. DOMAIN tt = DOMAIN ss /\ \A i \in DOMAIN ss : tt[i] \in LineInputs /\ SameRange(tt[i], ss[i])
    BY <1>1, <2>1, <2>2 DEF SameRange
  <2>4. tt \in Seq(LineInputs) /\ Len(tt) = Len(ss)
    BY <1>1, <2>1, <2>3
  <2>5. \A i, j \in DOMAIN tt : SameRange(tt[i], tt[j]) => i = j
    BY <1>1, <2>3 DEF SameRange
  <2>6. PICK k \in DOMAIN ss : SameRange(ss[k], at)
    BY <1>3
  <2>7. ~tt[k].collapsed /\ SameRange(tt[k], at)
    BY <2>1, <2>2, <2>6 DEF SameRange
  <2> QED
    BY <2>3, <2>4, <2>5, <2>7 DEF TypingFits, OpenAt
<1>4. CASE ~\E i \in DOMAIN ss : SameRange(ss[i], at)
  <2>1. tt = Append(ss, new)
    BY <1>4 DEF EnterRange
  <2> HIDE DEF new
  <2>2. /\ tt \in Seq(LineInputs) /\ Len(tt) = Len(ss) + 1 /\ DOMAIN tt = 1..(Len(ss) + 1)
        /\ tt[Len(ss) + 1] = new /\ \A i \in DOMAIN ss : tt[i] = ss[i]
    BY <1>1, <1>2, <2>1, AppendProperties
  <2>3. ASSUME NEW i \in DOMAIN tt, NEW j \in DOMAIN tt, SameRange(tt[i], tt[j]) PROVE i = j
    BY <1>1, <1>2, <1>4, <2>2, <2>3 DEF SameRange
  <2>4. OpenAt(tt, at)
    BY <1>1, <1>2, <2>2 DEF OpenAt
  <2> QED
    BY <2>2, <2>3, <2>4 DEF TypingFits
<1> QED
  BY <1>3, <1>4

\* Closing and opening comments leaves them at their lines.
SameLines(tt, ss) ==
    /\ tt \in Seq(LineInputs) /\ Len(tt) = Len(ss) /\ DOMAIN tt = DOMAIN ss
    /\ \A i \in DOMAIN ss : SameRange(tt[i], ss[i])

LEMMA SameLinesFit ==
    ASSUME NEW ss, NEW tt, TypingFits(ss), SameLines(tt, ss)
    PROVE  TypingFits(tt)
  BY DEF TypingFits, SameLines, SameRange

Flagged(ss, flags) == [i \in DOMAIN ss |-> [ss[i] EXCEPT !.collapsed = flags[i]]]
HasFlags(tt, ss, flags) == \A i \in DOMAIN ss : tt[i].collapsed = flags[i]

LEMMA FlagsOnly ==
    ASSUME NEW ss \in Seq(LineInputs), NEW flags \in [DOMAIN ss -> BOOLEAN], NEW tt, tt = Flagged(ss, flags)
    PROVE  SameLines(tt, ss) /\ HasFlags(tt, ss, flags)
<1>1. DOMAIN ss = 1..Len(ss) /\ Len(ss) \in Nat /\ \A i \in DOMAIN ss : ss[i] \in LineInputs /\ flags[i] \in BOOLEAN
  OBVIOUS
<1>2. \A i \in DOMAIN ss : /\ [ss[i] EXCEPT !.collapsed = flags[i]] \in LineInputs
                           /\ SameRange([ss[i] EXCEPT !.collapsed = flags[i]], ss[i])
                           /\ [ss[i] EXCEPT !.collapsed = flags[i]].collapsed = flags[i]
  BY <1>1 DEF LineInputs, SameRange, RangeOf
<1>3. DOMAIN tt = DOMAIN ss /\ \A i \in DOMAIN ss : tt[i] \in LineInputs /\ SameRange(tt[i], ss[i]) /\ tt[i].collapsed = flags[i]
  BY <1>2 DEF Flagged
<1>4. tt \in Seq(LineInputs) /\ Len(tt) = Len(ss)
  <2>1. tt \in [1..Len(ss) -> LineInputs]
    BY <1>1, <1>3 DEF Flagged
  <2> QED
    BY ONLY <1>1, <2>1
<1> QED
  BY <1>3, <1>4 DEF SameLines, HasFlags

LEMMA RemovedFits ==
    ASSUME NEW ss, TypingFits(ss), NEW k \in DOMAIN ss, NEW tt, tt = RemoveAt(ss, k)
    PROVE  TypingFits(tt)
<1>1. /\ ss \in Seq(LineInputs) /\ DOMAIN ss = 1..Len(ss) /\ Len(ss) \in Nat /\ Len(ss) <= MaxTyped /\ MaxTyped \in Nat
      /\ \A i, j \in DOMAIN ss : SameRange(ss[i], ss[j]) => i = j
  BY LinesAssumption DEF TypingFits
<1>2. /\ tt \in Seq(LineInputs) /\ Len(tt) = Len(ss) - 1 /\ DOMAIN tt = 1..Len(tt)
      /\ \A i \in 1..Len(tt) : tt[i] = IF i < k THEN ss[i] ELSE ss[i + 1]
  <2>1. tt \in Seq(LineInputs) /\ LeavesOut(tt, ss, k)
    BY <1>1, RemovedIs
  <2> QED
    BY <2>1 DEF LeavesOut
<1>3. ASSUME NEW i \in 1..Len(tt), NEW j \in 1..Len(tt), SameRange(tt[i], tt[j]) PROVE i = j
  <2> DEFINE p == IF i < k THEN i ELSE i + 1
             q == IF j < k THEN j ELSE j + 1
  <2>1. p \in 1..Len(ss) /\ q \in 1..Len(ss) /\ tt[i] = ss[p] /\ tt[j] = ss[q]
    BY <1>1, <1>2
  <2>2. p = q
    <3> HIDE DEF p, q
    <3> QED
      BY <1>1, <1>3, <2>1
  <2> QED
    BY <1>1, <2>2
<1> QED
  BY <1>1, <1>2, <1>3 DEF TypingFits

LEMMA AddedFits ==
    ASSUME NEW items, ItemsFit(items), NEW ts \in SUBSET AllThreads
    PROVE  /\ ItemsFit(AddExpanded(items, ts))
           /\ items \subseteq AddExpanded(items, ts)
           /\ \A t \in ts : \E item \in AddExpanded(items, ts) : item.key = t.key
<1> DEFINE new == {t \in ts : \A item \in items : item.key # t.key}
<1>1. AddExpanded(items, ts) = items \cup {ItemOf(t) : t \in new}
  BY DEF AddExpanded
<1>2. \A t \in ts : ItemOf(t) \in LineItems /\ ItemOf(t).key = t.key
  BY ThreadsAre DEF ItemOf, LineItems
<1>3. \A t, u \in ts : t.key = u.key => t = u
  BY ThreadsAre
<1>4. ItemsFit(AddExpanded(items, ts))
  BY <1>1, <1>2, <1>3 DEF ItemsFit
<1>5. ASSUME NEW t \in ts PROVE \E item \in AddExpanded(items, ts) : item.key = t.key
  BY <1>1, <1>2
<1> QED
  BY <1>1, <1>4, <1>5

-----------------------------------------------------------------------------
(* What a gesture does *)

\* What changes with the page, and what was promised.
StepFits ==
    /\ TypingFits(typing') /\ ItemsFit(expanded') /\ ChosenFits(chosen')
    /\ anchorLine' \in Nat /\ activeKey' \in Nat

LEMMA StartFits ==
    ASSUME PageFits, NEW range, range.start \in Int, range.end \in Int, StartRangeComment(range)
    PROVE  StepFits /\ OpenAt(typing', promised')
<1> DEFINE at == NormalizeLineRange(range.start, range.end)
<1>1. at \in LinePlaces
  BY NormalizeIs
<1> HIDE DEF at
<1>2. /\ Len(EnterRange(typing, at)) <= MaxTyped
      /\ typing' = EnterRange(typing, at) /\ promised' = at
      /\ expanded' = {} /\ anchorLine' = at.start /\ chosen' = at /\ activeKey' = 0
  BY DEF StartRangeComment, at
<1>3. TypingFits(typing') /\ OpenAt(typing', promised')
  BY <1>1, <1>2, EnteredFits DEF PageFits
<1>4. at.start \in Nat
  BY <1>1 DEF LinePlaces, Line
<1> QED
  BY <1>1, <1>2, <1>3, <1>4 DEF StepFits, ItemsFit, ChosenFits

LEMMA StartLineFits ==
    ASSUME PageFits, NEW l \in Line, StartLineComment(l)
    PROVE  StepFits /\ OpenAt(typing', promised')
<1> DEFINE selected == IF chosen = NoLines THEN NoLines ELSE NormalizeLineRange(chosen.start, chosen.end)
           range == IF selected # NoLines /\ selected.end = l THEN selected ELSE [start |-> l, end |-> l]
<1>1. StartRangeComment(range)
  BY DEF StartLineComment
<1>2. selected # NoLines => selected \in LinePlaces
  <2>1. CASE chosen # NoLines
    BY <2>1, NormalizeIs DEF PageFits, ChosenFits, LinePlaces, Line
  <2> QED
    BY <2>1
<1>3. range.start \in Int /\ range.end \in Int
  BY <1>2 DEF LinePlaces, Line
<1> HIDE DEF range
<1> QED
  BY <1>1, <1>3, StartFits

LEMMA OpenFits ==
    ASSUME PageFits, NEW ts \in SUBSET AllThreads, ts # {}, OpenCommentThreads(ts)
    PROVE  StepFits /\ typing' = typing /\ promised' = StillPromised
  BY LastThreadIs, ThreadsAre, AddedFits DEF OpenCommentThreads, RangeOf, LinePlaces, PageFits, StepFits,
     ChosenFits

LEMMA CloseFits ==
    ASSUME PageFits, NEW cards, CloseCommentThreads(cards)
    PROVE  /\ StepFits /\ promised' = StillPromised /\ SameLines(typing', typing)
           /\ \A i \in DOMAIN typing : typing[i].collapsed => typing'[i].collapsed
<1> DEFINE Closes(x_) == \E card \in cards : SameRange(card, x_)
           IsOf(input) == \E card \in cards : card.own = RangeOf(input)
           flags == [i \in DOMAIN typing |-> typing[i].collapsed \/ Closes(typing[i]) \/ IsOf(typing[i])]
<1>1. /\ typing' = [i \in DOMAIN typing |-> [typing[i] EXCEPT !.collapsed = flags[i]]]
      /\ expanded' \subseteq expanded /\ chosen' = NoLines /\ activeKey' = 0
      /\ anchorLine' = anchorLine /\ promised' = StillPromised
  BY DEF CloseCommentThreads, ActiveAfterClose
<1>2. typing \in Seq(LineInputs) /\ \A i \in DOMAIN typing : typing[i].collapsed \in BOOLEAN
  BY DEF PageFits, TypingFits, LineInputs
<1>3. flags \in [DOMAIN typing -> BOOLEAN] /\ \A i \in DOMAIN typing : typing[i].collapsed => flags[i]
  BY <1>2
<1> HIDE DEF flags
<1>4a. typing' = Flagged(typing, flags)
  BY <1>1 DEF Flagged
<1>4b. SameLines(typing', typing) /\ HasFlags(typing', typing, flags)
  BY <1>2, <1>3, <1>4a, FlagsOnly
<1>4. SameLines(typing', typing) /\ \A i \in DOMAIN typing : typing'[i].collapsed = flags[i]
  BY <1>4b DEF HasFlags
<1>5. TypingFits(typing')
  BY <1>4, SameLinesFit DEF PageFits
<1> QED
  BY <1>1, <1>3, <1>4, <1>5 DEF StepFits, PageFits, ItemsFit, ChosenFits

-----------------------------------------------------------------------------
(* What the reader does *)

LEMMA ShownAreThreads ==
    ASSUME PageFits, NEW l
    PROVE  /\ DisplayedThreads(l) \subseteq AllThreads /\ RowThreads(l) \subseteq AllThreads
           /\ ContainingThreads(l) \subseteq AllThreads /\ ActionThreads(l) \subseteq RowThreads(l)
  BY DEF PageFits, DisplayedThreads, RowThreads, ContainingThreads, ActionThreads

LEMMA PreferredIs ==
    ASSUME NEW ts \in SUBSET AllThreads, ts # {}
    PROVE  Preferred(ts) \in ts
<1>1. First(ts) \in ts
  BY FirstThreadIs
<1> QED
  BY <1>1 DEF Preferred

\* The typed comment that has a line is the first that holds it.
LEMMA TypedIs ==
    ASSUME PageFits, NEW l
    PROVE  /\ TypedAt(l) = 0 => \A i \in DOMAIN typing : ~HasLine(typing[i], l)
           /\ TypedAt(l) # 0 => TypedAt(l) \in DOMAIN typing /\ HasLine(typing[TypedAt(l)], l)
           /\ Composer(l) # 0 => Composer(l) = TypedAt(l)
<1> DEFINE holders == {i \in 1..Len(typing) : HasLine(typing[i], l)}
<1>1. TypedAt(l) = IF holders = {} THEN 0 ELSE FirstOf(holders)
  BY DEF TypedAt, SelectInSeq, Min, FirstOf
<1>2. DOMAIN typing = 1..Len(typing) /\ holders \in SUBSET Nat
  BY DEF PageFits, TypingFits
<1>3. CASE holders = {}
  BY <1>1, <1>2, <1>3 DEF Composer
<1>4. CASE holders # {}
  <2>1. FirstOf(holders) \in holders
    BY <1>2, <1>4, FirstIsLeast
  <2> QED
    BY <1>1, <1>2, <1>4, <2>1 DEF Composer
<1> QED
  BY <1>3, <1>4

LEMMA ItFits ==
    ASSUME StepFits, length' \in Line, lineThreads' \subseteq AllThreads, HandsFit', PromiseKept'
    PROVE  SourceInv'
  BY DEF StepFits, SourceInv, PageFits

LEMMA FreeHands ==
    ASSUME HandsFree, quiet \in BOOLEAN, UNCHANGED <<press, clickDue, quiet>>
    PROVE  HandsFit'
  BY DEF HandsFree, HandsFit

LEMMA SameStep ==
    ASSUME PageFits, UNCHANGED <<typing, expanded, chosen, anchorLine, activeKey>>
    PROVE  StepFits
  BY DEF PageFits, StepFits

LEMMA SelectFits ==
    ASSUME PageFits, NEW l \in Line, NEW shift, SelectLine(l, shift)
    PROVE  StepFits /\ typing' = typing
  BY NormalizeIs DEF PageFits, Line, SelectLine, ChosenFits, StepFits

LEMMA MarkerFits ==
    ASSUME PageFits, NEW l \in Line, ClickOnMarker(l), StillPromised = NoLines
    PROVE  StepFits /\ PromiseKept'
<1>1. CASE ThreadOpen(l)
  BY <1>1, CloseFits DEF ClickOnMarker, PromiseKept
<1>2. CASE ~ThreadOpen(l) /\ ActionThreads(l) = {}
  <2>1. StartLineComment(l)
    BY <1>2 DEF ClickOnMarker
  <2> QED
    BY <2>1, StartLineFits DEF PromiseKept
<1>3. CASE ~ThreadOpen(l) /\ ActionThreads(l) # {}
  BY <1>3, ShownAreThreads, OpenFits DEF ClickOnMarker, PromiseKept
<1> QED
  BY <1>1, <1>2, <1>3

LEMMA PressKeeps ==
    ASSUME SourceInv, NEW l \in Line, NEW on \in Buttons, NEW shift \in BOOLEAN, Press(l, on, shift)
    PROVE  SourceInv'
<1> DEFINE button == [line |-> l, on |-> on, shift |-> shift,
                      means |-> IF shift /\ anchorLine # 0 THEN NormalizeLineRange(anchorLine, l) ELSE NoLines]
<1>1. PageFits /\ HandsFree /\ promised' = NoLines /\ l <= length /\ quiet \in BOOLEAN
  BY DEF SourceInv, Press, HandsFit
<1>2. button \in LineButtons
  BY <1>1, NormalizeIs DEF PageFits, Line, LineButtons
<1>3. CASE on = "marker" /\ ActionThreads(l) # {}
  BY <1>1, <1>2, <1>3, SameStep, ItFits DEF Press, Free, HandsFree, HandsFit, PageFits, PromiseKept
<1>4. CASE ~(on = "marker" /\ ActionThreads(l) # {})
  <2>1. /\ press' = [button |-> button, start |-> l, current |-> l, moved |-> FALSE]
        /\ anchorLine' = l /\ chosen' = [start |-> l, end |-> l]
        /\ UNCHANGED <<clickDue, typing, expanded, activeKey, quiet, length, lineThreads>>
    BY <1>4 DEF Press, Free
  <2> HIDE DEF button
  <2>2. press' \in LinePresses
    BY <1>2, <2>1 DEF LinePresses
  <2>3. chosen' \in LinePlaces /\ l \in Nat
    BY <2>1 DEF LinePlaces, Line
  <2>4. StepFits
    BY <1>1, <2>1, <2>3 DEF StepFits, PageFits, ChosenFits
  <2>5. HandsFit'
    BY <1>1, <2>1, <2>2 DEF HandsFree, HandsFit
  <2> QED
    BY <1>1, <2>1, <2>4, <2>5, ItFits DEF PageFits, PromiseKept
<1> QED
  BY <1>3, <1>4

LEMMA DragKeeps ==
    ASSUME SourceInv, NEW l \in Line, Drag(l)
    PROVE  SourceInv'
<1>1. /\ PageFits /\ press \in LinePresses /\ clickDue = NoPress /\ promised = NoLines /\ quiet \in BOOLEAN
  BY DEF SourceInv, Drag, HandsFit
<1>2. /\ press' = [press EXCEPT !.current = l, !.moved = TRUE]
      /\ chosen' = NormalizeLineRange(press.start, l)
      /\ UNCHANGED <<typing, expanded, anchorLine, activeKey, clickDue, quiet, promised, length, lineThreads>>
  BY DEF Drag, Free
<1>3. press' \in LinePresses /\ press.start \in Int /\ l \in Int
  <2>1. \A p \in LinePresses : [p EXCEPT !.current = l, !.moved = TRUE] \in LinePresses
    BY DEF LinePresses
  <2>2. press.start \in Int /\ l \in Int
    BY <1>1 DEF LinePresses, Line
  <2> QED
    BY <1>1, <1>2, <2>1, <2>2
<1>4. chosen' \in LinePlaces
  BY <1>1, <1>2, <1>3, NormalizeIs
<1>5. StepFits
  BY <1>1, <1>2, <1>4 DEF StepFits, PageFits, ChosenFits
<1>6. HandsFit'
  BY <1>1, <1>2, <1>3 DEF HandsFit
<1> QED
  BY <1>1, <1>2, <1>5, <1>6, ItFits DEF PageFits, PromiseKept

LEMMA ReleaseKeeps ==
    ASSUME SourceInv, Release
    PROVE  SourceInv'
<1>1. /\ PageFits /\ press \in LinePresses /\ clickDue = NoPress /\ promised = NoLines /\ quiet \in BOOLEAN
  BY DEF SourceInv, Release, HandsFit
<1>2. /\ press' = NoPress /\ clickDue' \in {NoPress, press.button} /\ UNCHANGED <<length, lineThreads>>
  BY DEF Release, Free
<1>3. press.button \in LineButtons /\ press.start \in Line /\ press.current \in Line /\ press.start \in Int /\ press.current \in Int
  BY <1>1 DEF LinePresses, Line
<1>4. CASE press.moved
  <2> DEFINE range == NormalizeLineRange(press.start, press.current)
  <2>1. StartRangeComment(range) /\ quiet' = TRUE
    BY <1>4 DEF Release
  <2>2. range \in LinePlaces
    BY <1>1, <1>3, NormalizeIs
  <2> HIDE DEF range
  <2>3. range.start \in Int /\ range.end \in Int
    BY <2>2 DEF LinePlaces, Line
  <2>4. StepFits /\ OpenAt(typing', promised')
    BY <1>1, <2>1, <2>3, StartFits
  <2>5. HandsFit'
    BY <1>2, <1>3, <2>1 DEF HandsFit
  <2> QED
    BY <1>1, <1>2, <2>4, <2>5, ItFits DEF PageFits, PromiseKept
<1>5. CASE ~press.moved /\ press.button.on = "marker"
  BY <1>1, <1>2, <1>3, <1>5, StartLineFits, ItFits DEF Release, HandsFit, PageFits, PromiseKept
<1>6. CASE ~press.moved /\ press.button.on # "marker"
  BY <1>1, <1>2, <1>3, <1>6, SameStep, ItFits DEF Release, HandsFit, PageFits, PromiseKept
<1> QED
  BY <1>4, <1>5, <1>6

LEMMA ClickKeeps ==
    ASSUME SourceInv, Click
    PROVE  SourceInv'
<1>1. /\ PageFits /\ PromiseKept /\ clickDue \in LineButtons /\ press = NoPress /\ quiet \in BOOLEAN
      /\ ~quiet => promised = NoLines
  BY DEF SourceInv, Click, HandsFit
<1>2. clickDue' = NoPress /\ press' = press /\ quiet' = quiet /\ UNCHANGED <<length, lineThreads>>
  BY DEF Click, Free
<1>3. HandsFit'
  BY <1>1, <1>2 DEF HandsFit
<1>4. CASE quiet
  BY <1>1, <1>2, <1>3, <1>4, SameStep, ItFits DEF Click, Hears, PageFits, PromiseKept
<1>5. CASE ~quiet /\ clickDue.on = "marker"
  BY <1>1, <1>2, <1>3, <1>5, MarkerFits, ItFits DEF Click, Hears, LineButtons, StillPromised, PageFits
<1>6. CASE ~quiet /\ clickDue.on # "marker"
  BY <1>1, <1>2, <1>3, <1>6, SelectFits, ItFits DEF Click, Hears, LineButtons, PageFits, PromiseKept
<1> QED
  BY <1>1, <1>4, <1>5, <1>6

\* A deed of hands that are free leaves them free.
Deedful == PageFits /\ HandsFree /\ quiet \in BOOLEAN /\ StillPromised = NoLines

LEMMA FreeIs ==
    ASSUME SourceInv, HandsFree
    PROVE  Deedful
  BY DEF SourceInv, HandsFit, HandsFree, StillPromised, Deedful

LEMMA FreeFits ==
    ASSUME Deedful, StepFits, PromiseKept', UNCHANGED <<press, clickDue, quiet, length, lineThreads>>
    PROVE  SourceInv'
  BY FreeHands, ItFits DEF Deedful, PageFits

LEMMA KeyKeeps ==
    ASSUME SourceInv, NEW l \in Line, KeyOnMarker(l)
    PROVE  SourceInv'
  BY FreeIs, MarkerFits, FreeFits DEF KeyOnMarker, Free, Deedful

LEMMA RowKeeps ==
    ASSUME SourceInv, NEW l \in Line, NEW shift, ClickOnRow(l, shift)
    PROVE  SourceInv'
<1>1. Deedful /\ PageFits /\ UNCHANGED <<press, clickDue, quiet, length, lineThreads>>
  BY FreeIs DEF ClickOnRow, Free, Deedful
<1>2. CASE ContainingThreads(l) # {}
  BY <1>1, <1>2, ShownAreThreads, PreferredIs, OpenFits, FreeFits DEF ClickOnRow, Deedful, PromiseKept
<1>3. CASE ContainingThreads(l) = {}
  BY <1>1, <1>3, SelectFits, FreeFits DEF ClickOnRow, PromiseKept
<1> QED
  BY <1>2, <1>3

LEMMA TextKeeps ==
    ASSUME SourceInv, NEW a \in Line, NEW b \in Line, SelectText(a, b)
    PROVE  SourceInv'
  BY FreeIs, StartFits, FreeFits DEF SelectText, Free, Line, Deedful, PromiseKept

LEMMA LeaveKeeps ==
    ASSUME SourceInv, NEW l \in Line, NEW saved, Leave(l, saved)
    PROVE  SourceInv'
<1> DEFINE input == typing[Composer(l)]
           draft == [key |-> Len(Saved) + MaxLine * input.start + input.end, start |-> input.start,
                     end |-> input.end, surface |-> "source", draft |-> TRUE]
<1>1. /\ Deedful /\ PageFits /\ Composer(l) # 0 /\ typing' = RemoveAt(typing, Composer(l))
      /\ lineThreads' = IF ~saved THEN lineThreads ELSE lineThreads \cup {draft}
      /\ promised' = NoLines /\ UNCHANGED <<length, expanded, chosen, anchorLine, activeKey, press, clickDue, quiet>>
  BY FreeIs DEF Leave, Deedful
<1>2. Composer(l) \in DOMAIN typing
  BY <1>1, TypedIs
<1>3. TypingFits(typing')
  BY <1>1, <1>2, RemovedFits DEF PageFits
<1>4. draft \in AllThreads
  <2>1. input.start \in Line /\ input.end \in Line /\ input.start <= input.end
    BY <1>1, <1>2 DEF PageFits, TypingFits, LineInputs
  <2> DEFINE place == [start |-> input.start, end |-> input.end]
  <2>2. place \in LinePlaces
    BY <2>1 DEF LinePlaces
  <2>3. draft = DraftThread(place)
    BY DEF DraftThread, DraftKey
  <2> HIDE DEF place, draft
  <2> QED
    BY <2>2, <2>3 DEF AllThreads
<1> HIDE DEF draft
<1>5. StepFits
  BY <1>1, <1>3 DEF StepFits, PageFits
<1>6. HandsFit' /\ length' \in Line /\ lineThreads' \subseteq AllThreads
  BY <1>1, <1>4, FreeHands DEF Deedful, PageFits
<1> QED
  BY <1>1, <1>5, <1>6, ItFits DEF PromiseKept

LEMMA CardKeeps ==
    ASSUME SourceInv, NEW l \in Line, CloseLineCard(l)
    PROVE  SourceInv'
  BY FreeIs, CloseFits, FreeFits DEF CloseLineCard, Free, Deedful, PromiseKept

LEMMA ResumeTypedKeeps ==
    ASSUME SourceInv, NEW i \in 1..MaxTyped, ResumeTyped(i)
    PROVE  SourceInv'
<1>1. /\ Deedful /\ PageFits /\ i \in DOMAIN typing /\ UNCHANGED <<press, clickDue, quiet, length, lineThreads>>
      /\ typing' = [typing EXCEPT ![i].collapsed = FALSE]
      /\ expanded' = {} /\ chosen' = PlaceOf(typing[i]) /\ anchorLine' = PlaceOf(typing[i]).start
      /\ activeKey' = 0 /\ promised' = RangeOf(typing[i])
  BY FreeIs DEF ResumeTyped, Free, Deedful
<1>2. typing \in Seq(LineInputs) /\ \A j \in DOMAIN typing : typing[j] \in LineInputs
  BY <1>1 DEF PageFits, TypingFits
<1> DEFINE flags == [j \in DOMAIN typing |-> IF j = i THEN FALSE ELSE typing[j].collapsed]
<1>3. flags \in [DOMAIN typing -> BOOLEAN] /\ flags[i] = FALSE
  BY <1>1, <1>2 DEF LineInputs
<1>4. typing' = Flagged(typing, flags)
  BY <1>1, <1>2 DEF LineInputs, Flagged
<1> HIDE DEF flags
<1>5. SameLines(typing', typing) /\ HasFlags(typing', typing, flags)
  BY <1>2, <1>3, <1>4, FlagsOnly
<1>6. TypingFits(typing')
  BY <1>1, <1>5, SameLinesFit DEF PageFits
<1>7. OpenAt(typing', promised')
  BY <1>1, <1>3, <1>5 DEF HasFlags, SameLines, SameRange, RangeOf, OpenAt
<1>8. PlaceOf(typing[i]) \in LinePlaces
  BY <1>1, <1>2, NormalizeIs DEF LineInputs, Line, PlaceOf
<1>9. StepFits
  BY <1>1, <1>6, <1>8 DEF StepFits, ItemsFit, ChosenFits, LinePlaces, Line
<1>10. PromiseKept'
  BY <1>7 DEF PromiseKept
<1>11. Deedful /\ UNCHANGED <<press, clickDue, quiet, length, lineThreads>>
  BY <1>1
<1> QED
  BY <1>9, <1>10, <1>11, FreeFits

LEMMA OutsideKeeps ==
    ASSUME SourceInv, NEW t \in lineThreads, OpenFromOutside(t)
    PROVE  SourceInv'
<1>1. /\ Deedful /\ PageFits /\ UNCHANGED <<press, clickDue, quiet, length, lineThreads>>
      /\ activeKey' = t.key /\ chosen' = RangeOf(t) /\ promised' = NoLines
      /\ UNCHANGED <<typing, expanded, anchorLine>>
  BY FreeIs DEF OpenFromOutside, Free, Deedful
<1>2. t.key \in Nat /\ RangeOf(t) \in LinePlaces
  <2>1. t \in AllThreads
    BY <1>1 DEF PageFits
  <2> QED
    BY <2>1, ThreadsAre DEF RangeOf, LinePlaces
<1>3. StepFits
  BY <1>1, <1>2 DEF StepFits, PageFits, ChosenFits
<1> QED
  BY <1>1, <1>3, FreeFits DEF PromiseKept

\* What happens without the reader.
LEMMA RestKeeps ==
    ASSUME SourceInv, length' \in Line, lineThreads' \subseteq AllThreads,
           UNCHANGED <<typing, expanded, chosen, anchorLine, activeKey, press, clickDue, promised>>,
           quiet' = quiet \/ (clickDue = NoPress /\ quiet' = FALSE)
    PROVE  SourceInv'
  BY SameStep, ItFits DEF SourceInv, HandsFit, PromiseKept

LEMMA SourceStarts ==
    ASSUME SourceInit
    PROVE  SourceInv
<1>1. TypingFits(<<>>)
  BY LinesAssumption DEF TypingFits
<1>2. length \in Line /\ lineThreads \subseteq AllThreads
  BY DEF SourceInit, AllThreads
<1>3. /\ typing = <<>> /\ expanded = {} /\ chosen = NoLines /\ anchorLine = 0 /\ activeKey = 0
      /\ press = NoPress /\ clickDue = NoPress /\ quiet = FALSE /\ promised = NoLines
  BY DEF SourceInit
<1> QED
  BY <1>1, <1>2, <1>3 DEF SourceInv, PageFits, HandsFit, PromiseKept, ItemsFit, ChosenFits

LEMMA SourceGoesOn ==
    ASSUME SourceInv, SourceNext
    PROVE  SourceInv'
  BY RestKeeps, PressKeeps, DragKeeps, KeyKeeps, CardKeeps, RowKeeps, LeaveKeeps, TextKeeps, ResumeTypedKeeps,
     OutsideKeeps, ReleaseKeeps, ClickKeeps DEF SourceInv, PageFits, Timeout, Free, LengthChanges, ThreadsChange,
     AllThreads, SourceNext

-----------------------------------------------------------------------------
(* What follows for the lines *)

LEMMA SourceTypeIs ==
    ASSUME SourceInv
    PROVE  SourceTypeOK /\ PromisedIsOpen
  BY DEF SourceInv, PageFits, HandsFit, TypingFits, ItemsFit, SourceTypeOK, PromiseKept, OpenAt, PromisedIsOpen,
     OpenTyping, ToSet

LEMMA LoneInputIs ==
    ASSUME PageFits, NEW input \in OpenTyping, \A other \in OpenTyping \ {input} : ~Touches(input, other)
    PROVE  IsShown(input)
<1> DEFINE place == PlaceOf(input)
           last == place.end
<1>1. PICK i \in DOMAIN typing : typing[i] = input /\ ~input.collapsed
  BY DEF OpenTyping, ToSet
<1>2. place \in LinePlaces /\ last <= length
  BY <1>1, NormalizeIs DEF PageFits, TypingFits, LineInputs, Line, PlaceOf
<1>3. last \in Line /\ Holds(place, last)
  BY <1>2 DEF LinePlaces, Holds, Line
<1>4. CASE Previews(place) = {}
  <2>1. HasLine(typing[i], last)
    BY <1>1, <1>3, <1>4 DEF HasLine
  <2> DEFINE k == TypedAt(last)
  <2>2. k # 0 /\ k \in DOMAIN typing /\ HasLine(typing[k], last)
    BY <2>1, TypedIs
  <2> HIDE DEF k
  <2>3. typing[k] \in OpenTyping /\ Holds(PlaceOf(typing[k]), last)
    BY <2>2 DEF HasLine, OpenTyping, ToSet
  <2>4. typing[k] = input
    BY <1>3, <2>3 DEF Touches
  <2>5. Composer(last) = k
    BY <2>2, <2>4 DEF Composer, k
  <2>6. Composer(last) # 0 /\ SameRange(typing[Composer(last)], input)
    BY <2>2, <2>4, <2>5 DEF SameRange
  <2> HIDE DEF place
  <2> QED
    BY <1>2, <2>6 DEF IsShown, place
<1>5. CASE Previews(place) # {}
  <2> DEFINE t == First(Previews(place))
  <2>1. Previews(place) \in SUBSET AllThreads
    BY DEF PageFits, Previews
  <2>2. t \in Previews(place)
    BY <1>5, <2>1, FirstThreadIs
  <2> HIDE DEF t
  <2>3. t \in lineThreads /\ SameRange(t, place) /\ t.end = last
    BY <2>2 DEF Previews, SameRange, RangeOf
  <2>4. t.key \in VisibleThreadKeys
    BY <1>5 DEF t, VisibleThreadKeys
  <2>5. t \in DisplayedThreads(last)
    BY <2>3, <2>4 DEF DisplayedThreads
  <2> QED
    BY <1>2, <2>3, <2>5 DEF IsShown
<1> QED
  BY <1>4, <1>5

-----------------------------------------------------------------------------
(* What a click on a marker shows and hides *)

\* The thread that an opened one stands for, among those there are.
Matching(ts, item) ==
    LET same == {t \in ts : SameRange(t, item)}
    IN  IF \E t \in ts : t.key = item.key THEN item.key
        ELSE IF same # {} THEN First(same).key ELSE item.key

LEMMA MatchingIs ==
    ASSUME NEW item
    PROVE  MatchingExpanded(item) = Matching(lineThreads, item) /\ MatchingExpanded(item)' = Matching(lineThreads', item)
  BY DEF MatchingExpanded, Matching

\* Whatever has a thread's key in the place of an opened one is that one, or at its lines.
LEMMA MatchedIs ==
    ASSUME NEW ts \in SUBSET AllThreads, NEW t \in ts, NEW item, Matching(ts, item) = t.key
    PROVE  item.key = t.key \/ SameRange(t, item)
<1> DEFINE same == {u \in ts : SameRange(u, item)}
<1>1. CASE (\E u \in ts : u.key = item.key) \/ same = {}
  BY <1>1 DEF Matching
<1>2. CASE ~(\E u \in ts : u.key = item.key) /\ same # {}
  BY <1>2, FirstThreadIs, ThreadsAre DEF Matching
<1> QED
  BY <1>1, <1>2

LEMMA NoComposer ==
    ASSUME PageFits, OpenTyping = {}, NEW l
    PROVE  Composer(l) = 0
  BY TypedIs DEF OpenTyping, ToSet, HasLine

LEMMA HidesStep ==
    ASSUME SourceInv, SourceInv', NEW l \in Line, KeyOnMarker(l), ThreadOpen(l), OpenTyping = {}
    PROVE  ~ThreadOpen(l)'
<1> DEFINE cards == LineCards(l)
<1>1. PageFits /\ CloseCommentThreads(cards) /\ lineThreads' = lineThreads
  BY DEF SourceInv, KeyOnMarker, ClickOnMarker, Free
<1>2. OpenTyping' = {}
  BY <1>1, CloseFits DEF OpenTyping, ToSet, SameLines
<1>3. Composer(l)' = 0
  <2>1. (PageFits /\ OpenTyping = {} => Composer(l) = 0)'
    BY NoComposer, PTL
  <2> QED
    BY <1>2, <2>1 DEF SourceInv
<1>4. /\ expanded' = {item \in expanded : ~(\E card \in cards : SameRange(card, item)) /\ \A card \in cards : item.key # card.key}
      /\ activeKey' = 0
  BY <1>1 DEF CloseCommentThreads, ActiveAfterClose
<1> HIDE DEF cards
<1>5. VisibleThreadKeys' = {0} \cup {Matching(lineThreads, item) : item \in expanded'}
  BY <1>1, <1>2, <1>4, MatchingIs DEF VisibleThreadKeys
<1>6. ASSUME NEW t \in DisplayedThreads(l)' PROVE FALSE
  <2>1. t \in lineThreads /\ t.end = l /\ t.key \in VisibleThreadKeys'
    BY <1>1, <1>6 DEF DisplayedThreads
  <2>2. t \in AllThreads /\ lineThreads \in SUBSET AllThreads
    BY <1>1, <2>1 DEF PageFits
  <2>3. t.key # 0
    BY <2>2, ThreadsAre
  <2>4. PICK item \in expanded' : Matching(lineThreads, item) = t.key
    BY <1>5, <2>1, <2>3
  <2>5. item \in expanded /\ (item.key = t.key \/ SameRange(t, item))
    BY <1>4, <2>1, <2>2, <2>4, MatchedIs
  <2>6. t \in DisplayedThreads(l)
    BY <1>4, <2>1, <2>4, MatchingIs DEF VisibleThreadKeys, DisplayedThreads
  <2> DEFINE card == LineCard(t.key, t, NoLines)
  <2>7. card \in cards
    BY <2>6 DEF LineCards, cards
  <2>8. card.key = t.key /\ RangeOf(card) = RangeOf(t)
    BY DEF LineCard, RangeOf
  <2> HIDE DEF card
  <2> QED
    BY <1>4, <2>4, <2>5, <2>7, <2>8 DEF SameRange
<1> QED
  BY <1>3, <1>6 DEF ThreadOpen

LEMMA ShowsStep ==
    ASSUME SourceInv, NEW l \in Line, KeyOnMarker(l), ~ThreadOpen(l), OpenTyping = {},
           RowThreads(l) # {}, \A t, u \in RowThreads(l) : t.surface = u.surface
    PROVE  RowThreads(l) \subseteq DisplayedThreads(l)'
<1>1. PageFits /\ DisplayedThreads(l) = {}
  BY DEF SourceInv, ThreadOpen
<1>2. ActionThreads(l) = RowThreads(l)
  BY <1>1, ShownAreThreads, PreferredIs DEF ActionThreads
<1>3. OpenCommentThreads(RowThreads(l)) /\ lineThreads' = lineThreads
  BY <1>2 DEF KeyOnMarker, ClickOnMarker, Free
<1>4. expanded' = AddExpanded(expanded, RowThreads(l)) /\ typing' = typing
  BY <1>3 DEF OpenCommentThreads
<1>5. OpenTyping' = {}
  BY <1>4 DEF OpenTyping
<1>6. ASSUME NEW t \in RowThreads(l) PROVE t \in DisplayedThreads(l)'
  <2>1. PICK item \in expanded' : item.key = t.key
    BY <1>1, <1>4, ShownAreThreads, AddedFits DEF PageFits
  <2>2. t \in lineThreads /\ t.end = l
    BY DEF RowThreads
  <2>3. Matching(lineThreads, item) = t.key
    BY <2>1, <2>2 DEF Matching
  <2>4. t.key \in VisibleThreadKeys'
    BY <1>3, <1>5, <2>1, <2>3, MatchingIs DEF VisibleThreadKeys
  <2> QED
    BY <1>3, <2>2, <2>4 DEF DisplayedThreads
<1> QED
  BY <1>6

-----------------------------------------------------------------------------
(* The lines, whatever a behaviour is about *)

LinesInv == SourceInv /\ HighlightsInv /\ DiffInv
AllVars == <<selectionVars, renderedVars, sourceVars, highlightVars, diffVars, concern>>

LEMMA LinesStart ==
    ASSUME MCInit
    PROVE  LinesInv
  BY SourceStarts, HighlightsStart, DiffStarts DEF MCInit, LinesInv

LEMMA SourceRests ==
    ASSUME SourceInv, UNCHANGED sourceVars
    PROVE  SourceInv'
  BY RestKeeps DEF SourceInv, PageFits, sourceVars

LEMMA HighlightsRests ==
    ASSUME HighlightsInv, UNCHANGED highlightVars
    PROVE  HighlightsInv'
  BY HighlightsRest DEF highlightVars

LEMMA DiffRests ==
    ASSUME DiffInv, UNCHANGED diffVars
    PROVE  DiffInv'
  BY DEF DiffInv, diffVars

\* Each of them steps, or stands still.
LEMMA LinesStep ==
    ASSUME [MCNext]_AllVars
    PROVE  /\ SourceNext \/ UNCHANGED sourceVars
           /\ HighlightsNext \/ UNCHANGED highlightVars
           /\ DiffNext \/ UNCHANGED diffVars
  BY DEF AllVars, MCNext

LEMMA LinesGoOn ==
    ASSUME LinesInv, [MCNext]_AllVars
    PROVE  LinesInv'
  BY LinesStep, SourceGoesOn, SourceRests, HighlightsGoOn, HighlightsRests, DiffGoesOn, DiffRests DEF LinesInv

LEMMA LinesAreKept ==
    ASSUME LinesInv
    PROVE  LinesShowTheInputs
  BY SourceTypeIs, LoneInputIs, DiffIs, LoneDraftLeads, HighlightsAreKept DEF LinesInv, SourceInv,
     LoneInputIsShown, LinesShowTheInputs

HidesAction ==
    \A l \in Line : KeyOnMarker(l) /\ ThreadOpen(l) /\ OpenTyping = {} => ~ThreadOpen(l)'
ShowsAction ==
    \A l \in Line :
       /\ KeyOnMarker(l) /\ ~ThreadOpen(l) /\ OpenTyping = {}
       /\ RowThreads(l) # {} /\ \A t, u \in RowThreads(l) : t.surface = u.surface
       => RowThreads(l) \subseteq DisplayedThreads(l)'
ClosesAction ==
    \A l \in rows : ClickDiffMarker(l) /\ RowOpen(l) =>
       /\ ShownAt(l)' \subseteq {activeThread}
       /\ (ComposerBelow(l) # {} => ComposerBelow(l)' # ComposerBelow(l))
OthersAction ==
    \A span \in Spans :
       /\ HasDiffComposer(span) /\ ~HasDiffComposer(span)' /\ diffContent' = diffContent
       => \/ span \notin ToSet(draftThreads')
          \/ Last(draftThreads') = span /\ Last(draftThreads) # span
CleanAction ==
    diffContent' # diffContent =>
       \A l \in 1..MaxRow : ComposerBelow(l)' = {} /\ ShownAt(l)' \subseteq {activeThread}
SteadyAction == selecting /\ selecting' => visible' = visible

LEMMA SourceSteps ==
    ASSUME LinesInv, LinesInv'
    PROVE  HidesAction /\ ShowsAction
  BY HidesStep, ShowsStep DEF LinesInv, HidesAction, ShowsAction

LEMMA DiffSteps ==
    ASSUME LinesInv, [MCNext]_AllVars
    PROVE  [ClosesAction]_diffVars /\ [OthersAction]_diffVars /\ [CleanAction]_diffVars
<1>1. DiffInv /\ (DiffNext \/ UNCHANGED diffVars)
  BY LinesStep DEF LinesInv
<1>2. CASE DiffNext
  BY <1>1, <1>2, MarkerStep, OthersStep, NewDiffStep DEF ClosesAction, OthersAction, CleanAction
<1> QED
  BY <1>1, <1>2

LEMMA HighlightSteps ==
    ASSUME [MCNext]_AllVars
    PROVE  [SteadyAction]_highlightVars
  BY LinesStep, SteadyStep DEF SteadyAction

-----------------------------------------------------------------------------
(* The results *)

\* What a careful reader types is in an input, on its way, saved or in the storage until it is
\* discarded; it is saved once, does not come back once it was discarded, and an input that does
\* not say that the file changed is about the version that is shown (reduceCommentInputSessions
\* and the composers).
THEOREM WhatIsTypedIsKept ==
    ASSUME Careful
    PROVE  MCSpec => []WritingIsKept
<1>1. MCInit => WritingInv
  BY WritingStarts
<1>2. WritingInv /\ [MCNext]_<<selectionVars, renderedVars, sourceVars, highlightVars, diffVars, concern>> => WritingInv'
  BY WritingGoesOn
<1>3. WritingInv => WritingIsKept
  BY WritingIs
<1> QED
  BY <1>1, <1>2, <1>3, PTL DEF MCSpec

\* The composer of selected text sends the version that is shown, and the input that a careful
\* reader resumes is the one that it shows (SelectionCommentComposer).
THEOREM TheSelectionIsCurrent ==
    ASSUME Careful
    PROVE  MCSpec => SelectionIsCurrent
<1>1. MCInit => WritingInv
  BY WritingStarts
<1>2. WritingInv /\ [MCNext]_<<selectionVars, renderedVars, sourceVars, highlightVars, diffVars, concern>> => WritingInv'
  BY WritingGoesOn
<1>3. WritingInv => /\ [SaveSelection => Effective.hash = fileHash]_selectionVars
                    /\ [\A a \in Anchors : ResumeSelection(a) => Effective'.anchor = a]_selectionVars
  BY SelectionStep
<1> QED
  BY <1>1, <1>2, <1>3, PTL DEF MCSpec, SelectionIsCurrent, SentIsCurrent, ResumedIsShown

\* The card of a rendered document is the thread or the input that was asked for last, the frame
\* says of its threads what the page said last, and nothing that one of them sent gets lost
\* (MarkdownViewer, HtmlViewer and the script in the sandboxed frame), whoever the reader is.
THEOREM CardsFollowThePage == MCSpec => []CardsFollow
<1>1. MCInit => CardsInv
  BY CardsStart DEF MCInit
<1>2. CardsInv /\ [MCNext]_<<selectionVars, renderedVars, sourceVars, highlightVars, diffVars, concern>> => CardsInv'
  BY CardsGoOn, CardsRest DEF MCNext
<1>3. CardsInv => CardsFollow
  BY CardsAre
<1> QED
  BY <1>1, <1>2, <1>3, PTL DEF MCSpec

\* The only input of a line is shown on a line of the file, a press that promised to close a card
\* finds it open, the lines are the ones that the highlighter made of this text in this theme, and
\* an input of a diff that overlaps no other is shown (SourceCommentSurface, CodeViewer, SourceDiff).
THEOREM TheLinesShowTheInputs == MCSpec => []LinesShowTheInputs
<1>1. MCInit => LinesInv
  BY LinesStart
<1>2. LinesInv /\ [MCNext]_AllVars => LinesInv'
  BY LinesGoOn
<1>3. LinesInv => LinesShowTheInputs
  BY LinesAreKept
<1> QED
  BY <1>1, <1>2, <1>3, PTL DEF MCSpec, AllVars

\* A click on a marker closes all that it showed or shows all that it hid, a diff that is made anew
\* shows nothing of the old one, a new input leaves the others, and the coloured lines stay while
\* text is selected (closeCommentThread, openCommentThread, SourceDiffLine, nextDeferredSourceHighlightState).
THEOREM MarkersDoThat == MCSpec => MarkersDoAsTheySay
<1>1. MCInit => LinesInv
  BY LinesStart
<1>2. LinesInv /\ [MCNext]_AllVars => LinesInv'
  BY LinesGoOn
<1>3. LinesInv /\ LinesInv' => [HidesAction]_sourceVars /\ [ShowsAction]_sourceVars
  BY SourceSteps
<1>4. LinesInv /\ [MCNext]_AllVars => [ClosesAction]_diffVars /\ [OthersAction]_diffVars /\ [CleanAction]_diffVars
  BY DiffSteps
<1>5. [MCNext]_AllVars => [SteadyAction]_highlightVars
  BY HighlightSteps
<1>6. MCSpec => [][HidesAction]_sourceVars /\ [][ShowsAction]_sourceVars
                /\ [][ClosesAction]_diffVars /\ [][OthersAction]_diffVars /\ [][CleanAction]_diffVars
                /\ [][SteadyAction]_highlightVars
  BY <1>1, <1>2, <1>3, <1>4, <1>5, PTL DEF MCSpec, AllVars
<1> QED
  BY <1>6, PTL DEF MarkersDoAsTheySay, ClickHides, ClickShowsAll, MarkerCloses, OthersStay, NewDiffIsClean,
     SelectionIsSteady, HidesAction, ShowsAction, ClosesAction, OthersAction, CleanAction, SteadyAction

=============================================================================
