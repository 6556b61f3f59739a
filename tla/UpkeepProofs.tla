---------------------------- MODULE UpkeepProofs ----------------------------
(***************************************************************************)
(* Proofs about what a page keeps up to date: the tree of the workspace      *)
(* (WorkspaceTree) and the list of changes with its differences              *)
(* (WorkbenchReview).                                                        *)
(***************************************************************************)
EXTENDS MCWorkbenchUpkeep, TLAPS, FiniteSetTheorems, SequenceTheorems, WellFoundedInduction

(***************************************************************************)
(* The tree.  The invariant is about a view v, the entries e of the          *)
(* directories, those an event is on its way for (p) and those that are      *)
(* excepted (u), so that it can be followed through the steps within one     *)
(* action: an answer is applied, a listing is asked for, and then another    *)
(* one for the file that is revealed.                                        *)
(***************************************************************************)

Listings == [dir : Dirs, version : Nat \ {0}, read : Nat \cup {NotRead}]

Views == [top : Dirs, listings : Seq(Nat), calls : SUBSET Listings, versions : [Dirs -> Nat], sequence : Nat,
          loadingDirectories : SUBSET Dirs, expanded : SUBSET (Dirs \ {Root}), reveal : Dirs]

ViewOK(v) ==
    /\ v \in Views
    /\ v.top + Len(v.listings) <= Depth + 1
    /\ \A call \in v.calls : call.version <= v.sequence
    /\ \A call, other \in v.calls : call.version = other.version => call = other
    /\ \A dir \in v.loadingDirectories : \E call \in v.calls : call.dir = dir

\* A directory has a current version exactly as long as that listing is under way.
LatestIsThere(v) ==
    \A dir \in Dirs : v.versions[dir] # 0 => \E call \in v.calls : call.dir = dir /\ IsLatestListing(v, call)

RootIsComing(v, u) == v.versions[Root] # 0 \/ Root \in u \/ (v.top = Root /\ v.listings # <<>>)

\* The latest listing under way shows the directory as it is, or will.
CallsFit(v, e, p, u) ==
    \A call \in v.calls :
        IsLatestListing(v, call) => call.dir \in p \cup u \/ call.read \in {NotRead, e[call.dir]}

\* A directory that is loaded is as it is, or is being listed, unless it was taken for the root.
LoadedFits(v, e, p, u) ==
    \A dir \in Dirs :
        \/ dir \in p \cup u \/ v.versions[dir] # 0 \/ (dir = v.top /\ dir # Root)
        \/ IsLoaded(v, dir) => Listing(v, dir) = e[dir]

ViewFits(v, e, p, u) ==
    /\ ViewOK(v) /\ LatestIsThere(v) /\ RootIsComing(v, u)
    /\ CallsFit(v, e, p, u) /\ LoadedFits(v, e, p, u)

\* What the revealed file needs next is being listed.
RevealIsComing(v) ==
    v.listings # <<>> /\ v.top + Len(v.listings) <= v.reveal => v.top + Len(v.listings) \in v.loadingDirectories

TreeInv ==
    /\ entries \in [Dirs -> Nat] /\ pushed \in Seq(Dirs) /\ unseen \in SUBSET Dirs
    /\ ViewFits(view, entries, ToSet(pushed), unseen) /\ RevealIsComing(view)

-----------------------------------------------------------------------------
(* A listing is asked for *)

\* What asking for a listing changes in a view.
LEMMA ListFields ==
    ASSUME NEW v \in Views, NEW dir \in Dirs
    PROVE  LET w == List(v, dir)
               call == [dir |-> dir, version |-> v.sequence + 1, read |-> NotRead]
           IN  /\ w \in Views /\ call \in Listings
               /\ w.top = v.top /\ w.listings = v.listings /\ w.expanded = v.expanded /\ w.reveal = v.reveal
               /\ w.sequence = v.sequence + 1
               /\ w.versions = [v.versions EXCEPT ![dir] = v.sequence + 1]
               /\ w.calls = v.calls \cup {call}
               /\ w.loadingDirectories = IF dir = Root THEN v.loadingDirectories ELSE v.loadingDirectories \cup {dir}
<1> DEFINE call == [dir |-> dir, version |-> v.sequence + 1, read |-> NotRead]
           w == List(v, dir)
<1>1. v.sequence \in Nat /\ v.sequence + 1 > v.sequence /\ v.sequence + 1 \in Nat \ {0}
  BY DEF Views
<1>2. call \in Listings
  BY <1>1 DEF Listings
<1>3. w = [v EXCEPT !.sequence = v.sequence + 1, !.versions = [v.versions EXCEPT ![dir] = v.sequence + 1],
                    !.calls = v.calls \cup {call},
                    !.loadingDirectories = IF dir = Root THEN v.loadingDirectories ELSE v.loadingDirectories \cup {dir}]
  BY <1>1 DEF List, NextVersion, Views
<1>4. [v.versions EXCEPT ![dir] = v.sequence + 1] \in [Dirs -> Nat]
  BY <1>1 DEF Views
<1> HIDE DEF call, w
<1>5. w \in Views
  BY <1>1, <1>2, <1>3, <1>4 DEF Views
<1>6. /\ w.top = v.top /\ w.listings = v.listings /\ w.expanded = v.expanded /\ w.reveal = v.reveal
      /\ w.sequence = v.sequence + 1
      /\ w.versions = [v.versions EXCEPT ![dir] = v.sequence + 1]
      /\ w.calls = v.calls \cup {call}
      /\ w.loadingDirectories = IF dir = Root THEN v.loadingDirectories ELSE v.loadingDirectories \cup {dir}
  BY <1>3 DEF Views
<1> QED
  BY <1>2, <1>5, <1>6 DEF call, w

\* A listing that is asked for will show a directory that something happened in (p loses dir).
LEMMA ListKeeps ==
    ASSUME NEW v, NEW dir \in Dirs, NEW e \in [Dirs -> Nat], NEW p, NEW q, NEW u,
           ViewFits(v, e, p, u), p \subseteq q \cup {dir}
    PROVE  ViewFits(List(v, dir), e, q, u)
<1> DEFINE call == [dir |-> dir, version |-> v.sequence + 1, read |-> NotRead]
           w == List(v, dir)
<1>1. v \in Views
  BY DEF ViewFits, ViewOK
<1>2. /\ w \in Views /\ call \in Listings
      /\ w.top = v.top /\ w.listings = v.listings
      /\ w.sequence = v.sequence + 1 /\ w.versions = [v.versions EXCEPT ![dir] = v.sequence + 1]
      /\ w.calls = v.calls \cup {call}
      /\ w.loadingDirectories \subseteq v.loadingDirectories \cup {dir}
  <2> HIDE DEF Root
  <2> QED BY <1>1, ListFields, Zenon
<1>3. call.dir = dir /\ call.version = v.sequence + 1 /\ call.read = NotRead
  OBVIOUS
<1>4. /\ v.sequence \in Nat /\ v.versions \in [Dirs -> Nat] /\ v.calls \in SUBSET Listings
  BY <1>1 DEF Views
<1>5. \A c \in v.calls : c.dir \in Dirs /\ c.version \in Nat /\ c.version <= v.sequence /\ c.version # v.sequence + 1
  BY <1>4 DEF ViewFits, ViewOK, Listings
<1> HIDE DEF call, w
<1>6. ViewOK(w)
  <2>1. w.top + Len(w.listings) <= Depth + 1
    BY <1>2 DEF ViewFits, ViewOK
  <2>2. \A c \in w.calls : c.version <= w.sequence
    BY <1>2, <1>3, <1>4, <1>5
  <2>3. \A c, other \in w.calls : c.version = other.version => c = other
    BY <1>2, <1>3, <1>4, <1>5 DEF ViewFits, ViewOK
  <2>4. \A d \in w.loadingDirectories : \E c \in w.calls : c.dir = d
    BY <1>2, <1>3 DEF ViewFits, ViewOK
  <2> QED
    BY <1>2, <2>1, <2>2, <2>3, <2>4 DEF ViewOK
<1>7. LatestIsThere(w)
  <2> SUFFICES ASSUME NEW d \in Dirs, w.versions[d] # 0 PROVE \E c \in w.calls : c.dir = d /\ IsLatestListing(w, c)
    BY DEF LatestIsThere
  <2>1. CASE d = dir
    BY <1>2, <1>3, <1>4, <2>1 DEF IsLatestListing
  <2>2. CASE d # dir
    <3>1. w.versions[d] = v.versions[d]
      BY <1>2, <1>4, <2>2
    <3>2. PICK c \in v.calls : c.dir = d /\ IsLatestListing(v, c)
      BY <3>1 DEF ViewFits, LatestIsThere
    <3> QED
      BY <1>2, <3>1, <3>2 DEF IsLatestListing
  <2> QED
    BY <2>1, <2>2
<1>8. RootIsComing(w, u)
  BY <1>2, <1>4 DEF ViewFits, RootIsComing, Root
<1>9. CallsFit(w, e, q, u)
  <2> SUFFICES ASSUME NEW c \in w.calls, IsLatestListing(w, c)
               PROVE  c.dir \in q \cup u \/ c.read \in {NotRead, e[c.dir]}
    BY DEF CallsFit
  <2>1. CASE c = call
    BY <1>3, <2>1
  <2>2. CASE c \in v.calls
    <3>1. c.dir # dir
      BY <1>2, <1>4, <1>5, <2>2 DEF IsLatestListing
    <3>2. IsLatestListing(v, c)
      BY <1>2, <1>4, <1>5, <2>2, <3>1 DEF IsLatestListing
    <3> QED
      BY <2>2, <3>1, <3>2 DEF ViewFits, CallsFit
  <2> QED
    BY <1>2, <2>1, <2>2
<1>10. LoadedFits(w, e, q, u)
  <2> SUFFICES ASSUME NEW d \in Dirs
               PROVE  \/ d \in q \cup u \/ w.versions[d] # 0 \/ (d = w.top /\ d # Root)
                      \/ IsLoaded(w, d) => Listing(w, d) = e[d]
    BY DEF LoadedFits
  <2>1. CASE d = dir
    BY <1>2, <1>4, <2>1
  <2>2. CASE d # dir
    <3>1. w.versions[d] = v.versions[d] /\ (IsLoaded(w, d) <=> IsLoaded(v, d)) /\ Listing(w, d) = Listing(v, d)
      BY <1>2, <1>4, <2>2 DEF IsLoaded, Listing
    <3> QED
      BY <1>2, <2>2, <3>1 DEF ViewFits, LoadedFits
  <2> QED
    BY <2>1, <2>2
<1> QED
  BY <1>6, <1>7, <1>8, <1>9, <1>10 DEF ViewFits, w

\* The effect of a change of the tree: nothing is spoilt, and what is revealed comes next.
LEMMA RevealKeeps ==
    ASSUME NEW v, NEW e \in [Dirs -> Nat], NEW p, NEW u, ViewFits(v, e, p, u)
    PROVE  ViewFits(RevealNext(v), e, p, u) /\ RevealIsComing(RevealNext(v))
<1> DEFINE first == v.top + Len(v.listings)
<1>1. v \in Views
  BY DEF ViewFits, ViewOK
<1>2. v.top \in Nat /\ Len(v.listings) \in Nat /\ v.reveal \in Dirs /\ Depth \in Nat
      /\ (v.listings # <<>> => Len(v.listings) > 0)
  BY <1>1, TreeAssumption DEF Views, Dirs
<1>3. CASE v.listings # <<>> /\ first <= v.reveal /\ first \notin v.loadingDirectories
  <2>1. first \in Dirs /\ first # Root
    BY <1>2, <1>3 DEF Dirs, Root
  <2>2. RevealNext(v) = List(v, first)
    BY <1>3 DEF RevealNext
  <2>3. ViewFits(List(v, first), e, p, u)
    BY <2>1, ListKeeps
  <2>4. List(v, first).top = v.top /\ List(v, first).listings = v.listings
        /\ first \in List(v, first).loadingDirectories
    BY <1>1, <2>1, ListFields
  <2> QED
    BY <2>2, <2>3, <2>4 DEF RevealIsComing
<1>4. CASE ~(v.listings # <<>> /\ first <= v.reveal /\ first \notin v.loadingDirectories)
  <2>1. RevealNext(v) = v
    BY <1>4 DEF RevealNext
  <2> QED
    BY <1>4, <2>1 DEF RevealIsComing
<1> QED
  BY <1>3, <1>4

-----------------------------------------------------------------------------
(* A listing is answered, or fails *)

\* What is loaded after an answer was loaded before, or is the answer.
LEMMA ApplyFacts ==
    ASSUME NEW v, ViewOK(v), NEW dir \in Dirs, NEW read \in Nat
    PROVE  LET s == Apply(v, dir, read)
           IN  /\ s \in Views /\ s.top + Len(s.listings) <= Depth + 1
               /\ s.calls = v.calls /\ s.versions = v.versions /\ s.sequence = v.sequence
               /\ s.loadingDirectories = v.loadingDirectories
               /\ (dir = Root \/ (v.top = Root /\ v.listings # <<>>) => s.top = Root /\ s.listings # <<>>)
               /\ (IsLoaded(s, dir) => Listing(s, dir) = read \/ (dir = s.top /\ dir # Root))
               /\ \A d \in Dirs \ {dir} :
                     IsLoaded(s, d) => IsLoaded(v, d) /\ Listing(s, d) = Listing(v, d) /\ s.top = v.top
<1> DEFINE s == Apply(v, dir, read)
<1>1. v \in Views /\ v.top + Len(v.listings) <= Depth + 1
  BY DEF ViewOK
<1>2. v.top \in Nat /\ v.listings \in Seq(Nat) /\ Len(v.listings) \in Nat /\ Depth \in Nat /\ dir \in Nat /\ dir <= Depth
      /\ (v.listings # <<>> => Len(v.listings) > 0)
  BY <1>1, TreeAssumption DEF Views, Dirs
<1>3. CASE dir = Root \/ v.listings = <<>>
  <2>1. s = [v EXCEPT !.top = dir, !.listings = <<read>>]
    BY <1>3 DEF Apply
  <2>2. <<read>> \in Seq(Nat) /\ Len(<<read>>) = 1 /\ <<read>>[1] = read /\ <<read>> # <<>>
    OBVIOUS
  <2>3. s \in Views /\ s.top = dir /\ s.listings = <<read>>
        /\ s.calls = v.calls /\ s.versions = v.versions /\ s.sequence = v.sequence
        /\ s.loadingDirectories = v.loadingDirectories
    BY <1>1, <2>1, <2>2 DEF Views
  <2>4. IsLoaded(s, dir) /\ Listing(s, dir) = read
    BY <1>2, <2>2, <2>3 DEF IsLoaded, Listing
  <2>5. \A d \in Dirs \ {dir} : ~IsLoaded(s, d)
    BY <1>2, <2>2, <2>3 DEF IsLoaded, Dirs
  <2>6. dir = Root \/ (v.top = Root /\ v.listings # <<>>) => s.top = Root /\ s.listings # <<>>
    BY <1>3, <2>2, <2>3
  <2>7. s.top + Len(s.listings) <= Depth + 1
    BY <1>2, <2>2, <2>3
  <2> QED
    BY <2>3, <2>4, <2>5, <2>6, <2>7
<1>4. CASE dir # Root /\ v.listings # <<>> /\ InTree(v, dir)
  <2> DEFINE kept == SubSeq(v.listings, 1, dir - v.top)
             new == Append(kept, read)
  <2>1. s = [v EXCEPT !.listings = new]
    BY <1>4 DEF Apply, ReplaceDirectoryChildren
  <2>2. dir - v.top \in Nat /\ dir - v.top >= 1 /\ dir - v.top <= Len(v.listings)
    BY <1>2, <1>4 DEF InTree
  <2>3. kept \in Seq(Nat) /\ Len(kept) = dir - v.top /\ \A i \in 1..(dir - v.top) : kept[i] = v.listings[i]
    <3> DEFINE old == v.listings
               n == dir - v.top
    <3>1. old \in Seq(Nat) /\ n \in Int /\ 1 \in Int /\ n \in Nat /\ n >= 1 /\ n <= Len(old)
      BY <1>2, <2>2
    <3>2. \A i \in 1..n : old[i] \in Nat
      <4> HIDE DEF old, n
      <4> QED
        BY <3>1
    <3>3. kept = SubSeq(old, 1, n)
      OBVIOUS
    <3> HIDE DEF old, n, kept
    <3>4. kept \in Seq(Nat) /\ Len(kept) = (IF 1 <= n THEN n - 1 + 1 ELSE 0)
          /\ \A i \in 1..(n - 1 + 1) : kept[i] = old[1 + i - 1]
      BY <3>1, <3>2, <3>3, SubSeqProperties
    <3>5. kept \in Seq(Nat) /\ Len(kept) = n /\ \A i \in 1..n : kept[i] = old[i]
      BY <3>1, <3>4
    <3> QED
      BY <3>5 DEF old, n
  <2> HIDE DEF kept
  <2>4. new \in Seq(Nat) /\ Len(new) = dir - v.top + 1 /\ new[dir - v.top + 1] = read /\ new # <<>>
        /\ \A i \in 1..(dir - v.top) : new[i] = v.listings[i]
    BY <2>2, <2>3
  <2> HIDE DEF new, s
  <2>5. s \in Views /\ s.top = v.top /\ s.listings = new
        /\ s.calls = v.calls /\ s.versions = v.versions /\ s.sequence = v.sequence
        /\ s.loadingDirectories = v.loadingDirectories
    BY <1>1, <2>1, <2>4 DEF Views
  <2>6. Listing(s, dir) = read
    BY <1>2, <2>2, <2>4, <2>5 DEF Listing
  <2>7. ASSUME NEW d \in Dirs \ {dir}, IsLoaded(s, d) PROVE IsLoaded(v, d) /\ Listing(s, d) = Listing(v, d)
    <3>1. d \in Nat /\ d >= v.top /\ d < dir
      BY <1>2, <2>2, <2>4, <2>5, <2>7 DEF IsLoaded, Dirs
    <3>2. d - v.top + 1 \in 1..(dir - v.top)
      BY <1>2, <2>2, <3>1
    <3>3. IsLoaded(v, d)
      BY <1>2, <2>2, <3>1 DEF IsLoaded
    <3>4. new[d - v.top + 1] = v.listings[d - v.top + 1]
      BY <2>4, <3>2
    <3>5. Listing(s, d) = new[d - v.top + 1] /\ Listing(v, d) = v.listings[d - v.top + 1]
      BY <2>5 DEF Listing
    <3> QED
      BY <3>3, <3>4, <3>5
  <2>8. s.top + Len(s.listings) <= Depth + 1
    BY <1>2, <2>2, <2>4, <2>5
  <2> QED
    BY <1>4, <2>4, <2>5, <2>6, <2>7, <2>8 DEF s
<1>5. CASE dir # Root /\ v.listings # <<>> /\ ~InTree(v, dir)
  <2>1. s = v
    BY <1>5 DEF Apply, ReplaceDirectoryChildren
  <2>2. IsLoaded(v, dir) => dir = v.top
    BY <1>2, <1>5 DEF IsLoaded, InTree
  <2> QED
    BY <1>1, <1>5, <2>1, <2>2
<1> QED
  BY <1>3, <1>4, <1>5

\* What the end of a call changes in a view.
LEMMA EndedFields ==
    ASSUME NEW v \in Views, NEW call \in v.calls
    PROVE  LET w == Ended(v, call)
           IN  /\ w \in Views
               /\ w.top = v.top /\ w.listings = v.listings /\ w.sequence = v.sequence
               /\ w.calls = v.calls \ {call} /\ w.loadingDirectories = v.loadingDirectories \ {call.dir}
               /\ w.versions = [v.versions EXCEPT ![call.dir] = IF IsLatestListing(v, call) THEN 0
                                                               ELSE v.versions[call.dir]]
<1> DEFINE w == Ended(v, call)
           changed == [v.versions EXCEPT ![call.dir] = IF IsLatestListing(v, call) THEN 0 ELSE v.versions[call.dir]]
<1>1. call.dir \in Dirs /\ v.versions \in [Dirs -> Nat]
  BY DEF Views, Listings
<1>2. changed \in [Dirs -> Nat]
  BY <1>1
<1>3. w = [v EXCEPT !.calls = v.calls \ {call}, !.loadingDirectories = v.loadingDirectories \ {call.dir},
                    !.versions = changed]
  BY DEF Ended, Views
<1> HIDE DEF w, changed
<1>4. w \in Views
  BY <1>2, <1>3 DEF Views
<1>5. /\ w.top = v.top /\ w.listings = v.listings /\ w.sequence = v.sequence
      /\ w.calls = v.calls \ {call} /\ w.loadingDirectories = v.loadingDirectories \ {call.dir}
      /\ w.versions = changed
  BY <1>3 DEF Views
<1> QED
  BY <1>4, <1>5 DEF w, changed

\* The parts that do not depend on what was answered.
LEMMA EndedKeeps ==
    ASSUME NEW v, NEW call \in v.calls, ViewOK(v), LatestIsThere(v)
    PROVE  /\ ViewOK(Ended(v, call)) /\ LatestIsThere(Ended(v, call))
           /\ \A d \in Dirs \ {call.dir} : Ended(v, call).versions[d] = v.versions[d]
           /\ \A other \in v.calls \ {call} :
                 IsLatestListing(Ended(v, call), other) /\ IsLatestListing(v, call)
                     => IsLatestListing(v, other) /\ other.dir # call.dir
           /\ ~IsLatestListing(v, call) => Ended(v, call).versions = v.versions
           /\ IsLatestListing(v, call) => Ended(v, call).versions[call.dir] = 0
<1> DEFINE w == Ended(v, call)
<1>1. v \in Views
  BY DEF ViewOK
<1>2. /\ w \in Views
      /\ w.top = v.top /\ w.listings = v.listings /\ w.sequence = v.sequence
      /\ w.calls = v.calls \ {call} /\ w.loadingDirectories = v.loadingDirectories \ {call.dir}
      /\ w.versions = [v.versions EXCEPT ![call.dir] = IF IsLatestListing(v, call) THEN 0
                                                      ELSE v.versions[call.dir]]
  BY <1>1, EndedFields, Zenon
<1>3. v.versions \in [Dirs -> Nat] /\ v.calls \in SUBSET Listings
  BY <1>1 DEF Views
<1>4. \A c \in v.calls : c.dir \in Dirs /\ c.version \in Nat \ {0}
  BY <1>3 DEF Listings
<1> HIDE DEF w
<1>5. ViewOK(w)
  <2>1. w.top + Len(w.listings) <= Depth + 1
    BY <1>2 DEF ViewOK
  <2>2. \A c \in w.calls : c.version <= w.sequence
    BY <1>2 DEF ViewOK
  <2>3. \A c, other \in w.calls : c.version = other.version => c = other
    BY <1>2 DEF ViewOK
  <2>4. \A d \in w.loadingDirectories : \E c \in w.calls : c.dir = d
    BY <1>2 DEF ViewOK
  <2> QED
    BY <1>2, <2>1, <2>2, <2>3, <2>4 DEF ViewOK
<1>6. \A d \in Dirs \ {call.dir} : w.versions[d] = v.versions[d]
  BY <1>2, <1>3, <1>4
<1>7. IsLatestListing(v, call) => w.versions[call.dir] = 0
  BY <1>2, <1>3, <1>4
<1>8. ~IsLatestListing(v, call) => w.versions = v.versions
  BY <1>2, <1>3, <1>4
<1>9. LatestIsThere(w)
  <2> SUFFICES ASSUME NEW d \in Dirs, w.versions[d] # 0 PROVE \E c \in w.calls : c.dir = d /\ IsLatestListing(w, c)
    BY DEF LatestIsThere
  <2>1. w.versions[d] = v.versions[d] /\ (d # call.dir \/ ~IsLatestListing(v, call))
    BY <1>6, <1>7, <1>8
  <2>2. PICK c \in v.calls : c.dir = d /\ IsLatestListing(v, c)
    BY <2>1 DEF LatestIsThere
  <2>3. c # call
    BY <2>1, <2>2
  <2> QED
    BY <1>2, <2>1, <2>2, <2>3 DEF IsLatestListing
<1>10. \A other \in v.calls \ {call} :
          IsLatestListing(w, other) /\ IsLatestListing(v, call) => IsLatestListing(v, other) /\ other.dir # call.dir
  BY <1>4, <1>6, <1>7 DEF IsLatestListing
<1> QED
  BY <1>5, <1>6, <1>7, <1>8, <1>9, <1>10 DEF w

\* An answer is right, or was overtaken.
LEMMA AnswerKeeps ==
    ASSUME NEW v, NEW e \in [Dirs -> Nat], NEW p, NEW u, ViewFits(v, e, p, u),
           NEW call \in v.calls, call.read # NotRead
    PROVE  LET s == IF IsLatestListing(v, call) THEN Apply(v, call.dir, call.read) ELSE v
           IN  ViewFits(Ended(s, call), e, p, u)
<1> DEFINE s == IF IsLatestListing(v, call) THEN Apply(v, call.dir, call.read) ELSE v
           w == Ended(s, call)
<1>1. v \in Views /\ ViewOK(v) /\ LatestIsThere(v) /\ v.calls \in SUBSET Listings /\ v.versions \in [Dirs -> Nat]
  BY DEF ViewFits, ViewOK, Views
<1>2. call.dir \in Dirs /\ call.read \in Nat /\ call.version \in Nat \ {0}
  BY <1>1 DEF Listings, NotRead
<1>3. CASE ~IsLatestListing(v, call)
  <2>1. s = v
    BY <1>3
  <2>2. /\ ViewOK(Ended(v, call)) /\ LatestIsThere(Ended(v, call)) /\ Ended(v, call).versions = v.versions
        /\ Ended(v, call).top = v.top /\ Ended(v, call).listings = v.listings
        /\ Ended(v, call).calls = v.calls \ {call}
    BY <1>1, <1>3, EndedKeeps, EndedFields
  <2>3. RootIsComing(Ended(v, call), u)
    BY <2>2 DEF ViewFits, RootIsComing
  <2>4. CallsFit(Ended(v, call), e, p, u)
    BY <2>2 DEF ViewFits, CallsFit, IsLatestListing
  <2>5. LoadedFits(Ended(v, call), e, p, u)
    BY <2>2 DEF ViewFits, LoadedFits, IsLoaded, Listing
  <2> QED
    BY <2>1, <2>2, <2>3, <2>4, <2>5 DEF ViewFits
<1>4. CASE IsLatestListing(v, call)
  <2>1. s = Apply(v, call.dir, call.read)
    BY <1>4
  <2> HIDE DEF s
  <2>2. /\ s \in Views /\ s.top + Len(s.listings) <= Depth + 1
        /\ s.calls = v.calls /\ s.versions = v.versions /\ s.sequence = v.sequence
        /\ s.loadingDirectories = v.loadingDirectories
        /\ (call.dir = Root \/ (v.top = Root /\ v.listings # <<>>) => s.top = Root /\ s.listings # <<>>)
        /\ (IsLoaded(s, call.dir) => Listing(s, call.dir) = call.read \/ (call.dir = s.top /\ call.dir # Root))
        /\ \A d \in Dirs \ {call.dir} :
              IsLoaded(s, d) => IsLoaded(v, d) /\ Listing(s, d) = Listing(v, d) /\ s.top = v.top
    BY <1>1, <1>2, <2>1, ApplyFacts
  <2>3. ViewOK(s) /\ LatestIsThere(s) /\ IsLatestListing(s, call)
    BY <1>1, <1>4, <2>2 DEF ViewOK, LatestIsThere, IsLatestListing
  <2>4. /\ ViewOK(w) /\ LatestIsThere(w) /\ w.versions[call.dir] = 0
        /\ \A d \in Dirs \ {call.dir} : w.versions[d] = s.versions[d]
        /\ \A other \in s.calls \ {call} :
              IsLatestListing(w, other) => IsLatestListing(s, other) /\ other.dir # call.dir
    BY <2>2, <2>3, EndedKeeps
  <2>5. w.top = s.top /\ w.listings = s.listings /\ w.calls = s.calls \ {call}
    BY <2>2, EndedFields
  <2> HIDE DEF w
  <2>6. RootIsComing(w, u)
    <3>1. CASE call.dir = Root
      BY <2>2, <2>5, <3>1 DEF RootIsComing
    <3>2. CASE call.dir # Root
      <4>1. w.versions[Root] = v.versions[Root]
        BY <1>1, <2>2, <2>4, <3>2, TreeAssumption DEF Root, Dirs
      <4> QED
        BY <2>2, <2>5, <4>1 DEF ViewFits, RootIsComing
    <3> QED
      BY <3>1, <3>2
  <2>7. CallsFit(w, e, p, u)
    <3> SUFFICES ASSUME NEW c \in w.calls, IsLatestListing(w, c)
                 PROVE  c.dir \in p \cup u \/ c.read \in {NotRead, e[c.dir]}
      BY DEF CallsFit
    <3>1. c \in v.calls /\ IsLatestListing(v, c)
      BY <2>2, <2>4, <2>5 DEF IsLatestListing
    <3> QED
      BY <3>1 DEF ViewFits, CallsFit
  <2>8. LoadedFits(w, e, p, u)
    <3> SUFFICES ASSUME NEW d \in Dirs, d \notin p \cup u, w.versions[d] = 0, ~(d = w.top /\ d # Root), IsLoaded(w, d)
                 PROVE  Listing(w, d) = e[d]
      BY DEF LoadedFits
    <3>1. IsLoaded(s, d) /\ Listing(w, d) = Listing(s, d)
      BY <2>5 DEF IsLoaded, Listing
    <3>2. CASE d = call.dir
      <4>1. Listing(s, d) = call.read
        BY <2>2, <2>5, <3>1, <3>2
      <4>2. call.read = e[d]
        BY <1>4, <3>2 DEF ViewFits, CallsFit
      <4> QED
        BY <3>1, <4>1, <4>2
    <3>3. CASE d # call.dir
      <4>1. v.versions[d] = 0 /\ IsLoaded(v, d) /\ Listing(s, d) = Listing(v, d) /\ v.top = w.top
        BY <2>2, <2>4, <2>5, <3>1, <3>3
      <4> QED
        BY <3>1, <4>1 DEF ViewFits, LoadedFits
    <3> QED
      BY <3>2, <3>3
  <2> QED
    BY <2>4, <2>6, <2>7, <2>8 DEF ViewFits, w, s
<1> QED
  BY <1>3, <1>4

\* A directory whose listing fails is excepted.
LEMMA FailureKeeps ==
    ASSUME NEW v, NEW e \in [Dirs -> Nat], NEW p, NEW u, ViewFits(v, e, p, u), NEW call \in v.calls
    PROVE  ViewFits(Ended(v, call), e, p, u \cup {call.dir})
<1> DEFINE w == Ended(v, call)
<1>1. v \in Views /\ ViewOK(v) /\ LatestIsThere(v) /\ v.calls \in SUBSET Listings /\ v.versions \in [Dirs -> Nat]
  BY DEF ViewFits, ViewOK, Views
<1>2. /\ ViewOK(w) /\ LatestIsThere(w)
      /\ \A d \in Dirs \ {call.dir} : w.versions[d] = v.versions[d]
      /\ w.top = v.top /\ w.listings = v.listings /\ w.calls = v.calls \ {call}
  BY <1>1, EndedKeeps, EndedFields
<1> HIDE DEF w
<1>3. RootIsComing(w, u \cup {call.dir})
  BY <1>1, <1>2, TreeAssumption DEF ViewFits, RootIsComing, Dirs, Root
<1>4. CallsFit(w, e, p, u \cup {call.dir})
  <2> SUFFICES ASSUME NEW c \in w.calls, IsLatestListing(w, c), c.dir # call.dir, c.dir \notin p \cup u
               PROVE  c.read \in {NotRead, e[c.dir]}
    BY DEF CallsFit
  <2>1. c \in v.calls /\ c.dir \in Dirs
    BY <1>1, <1>2 DEF Listings
  <2>2. IsLatestListing(v, c)
    BY <1>2, <2>1 DEF IsLatestListing
  <2> QED
    BY <2>1, <2>2 DEF ViewFits, CallsFit
<1>5. LoadedFits(w, e, p, u \cup {call.dir})
  BY <1>2 DEF ViewFits, LoadedFits, IsLoaded, Listing
<1> QED
  BY <1>2, <1>3, <1>4, <1>5 DEF ViewFits, w

\* The server reads a directory.
LEMMA ServedKeeps ==
    ASSUME NEW v, NEW e \in [Dirs -> Nat], NEW p, NEW u, ViewFits(v, e, p, u), RevealIsComing(v),
           NEW call \in v.calls, call.read = NotRead
    PROVE  LET w == [v EXCEPT !.calls = (v.calls \ {call}) \cup {[call EXCEPT !.read = e[call.dir]]}]
           IN  ViewFits(w, e, p, u) /\ RevealIsComing(w)
<1> DEFINE read == [call EXCEPT !.read = e[call.dir]]
           w == [v EXCEPT !.calls = (v.calls \ {call}) \cup {read}]
<1>1. v \in Views /\ v.calls \in SUBSET Listings /\ v.versions \in [Dirs -> Nat] /\ call \in Listings
  BY DEF ViewFits, ViewOK, Views
<1>2. read \in Listings /\ read.dir = call.dir /\ read.version = call.version /\ read.read = e[call.dir]
  BY <1>1 DEF Listings
<1> HIDE DEF read
<1>3. /\ w \in Views /\ w.top = v.top /\ w.listings = v.listings /\ w.sequence = v.sequence
      /\ w.versions = v.versions /\ w.calls = (v.calls \ {call}) \cup {read}
      /\ w.loadingDirectories = v.loadingDirectories /\ w.reveal = v.reveal
  BY <1>1, <1>2 DEF Views
<1> HIDE DEF w
<1>4. ViewOK(w)
  <2>1. \A c \in w.calls : c.version <= w.sequence
    BY <1>2, <1>3 DEF ViewFits, ViewOK
  <2>2. \A c, other \in w.calls : c.version = other.version => c = other
    BY <1>2, <1>3 DEF ViewFits, ViewOK
  <2>3. \A d \in w.loadingDirectories : \E c \in w.calls : c.dir = d
    BY <1>2, <1>3 DEF ViewFits, ViewOK
  <2>4. w.top + Len(w.listings) <= Depth + 1
    BY <1>3 DEF ViewFits, ViewOK
  <2> QED
    BY <1>3, <2>1, <2>2, <2>3, <2>4 DEF ViewOK
<1>5. LatestIsThere(w)
  <2> SUFFICES ASSUME NEW d \in Dirs, w.versions[d] # 0 PROVE \E c \in w.calls : c.dir = d /\ IsLatestListing(w, c)
    BY DEF LatestIsThere
  <2>1. PICK c \in v.calls : c.dir = d /\ IsLatestListing(v, c)
    BY <1>3 DEF ViewFits, LatestIsThere
  <2> QED
    BY <1>2, <1>3, <2>1 DEF IsLatestListing
<1>6. RootIsComing(w, u)
  BY <1>3 DEF ViewFits, RootIsComing
<1>7. CallsFit(w, e, p, u)
  BY <1>2, <1>3 DEF ViewFits, CallsFit, IsLatestListing
<1>8. LoadedFits(w, e, p, u)
  BY <1>3 DEF ViewFits, LoadedFits, IsLoaded, Listing
<1>9. RevealIsComing(w)
  BY <1>3 DEF RevealIsComing
<1> QED
  BY <1>4, <1>5, <1>6, <1>7, <1>8, <1>9 DEF ViewFits, w, read

\* What the sidebar changes does not concern what is loaded.
LEMMA SidebarKeeps ==
    ASSUME NEW v, NEW e, NEW p, NEW u, ViewFits(v, e, p, u),
           NEW expanded \in SUBSET (Dirs \ {Root}), NEW reveal \in Dirs
    PROVE  ViewFits([v EXCEPT !.expanded = expanded, !.reveal = reveal], e, p, u)
<1> DEFINE w == [v EXCEPT !.expanded = expanded, !.reveal = reveal]
<1>1. v \in Views
  BY DEF ViewFits, ViewOK
<1>2. /\ w \in Views /\ w.top = v.top /\ w.listings = v.listings /\ w.sequence = v.sequence
      /\ w.versions = v.versions /\ w.calls = v.calls
      /\ w.loadingDirectories = v.loadingDirectories
  BY <1>1 DEF Views
<1> HIDE DEF w
<1>3. ViewOK(w)
  BY <1>2 DEF ViewFits, ViewOK
<1>4. LatestIsThere(w)
  BY <1>2 DEF ViewFits, LatestIsThere, IsLatestListing
<1>5. RootIsComing(w, u)
  BY <1>2 DEF ViewFits, RootIsComing
<1>6. CallsFit(w, e, p, u)
  BY <1>2 DEF ViewFits, CallsFit, IsLatestListing
<1>7. LoadedFits(w, e, p, u)
  BY <1>2 DEF ViewFits, LoadedFits, IsLoaded, Listing
<1> QED
  BY <1>3, <1>4, <1>5, <1>6, <1>7 DEF ViewFits, w

\* Changes and losses, of directories that an event is on its way for or that are excepted.
LEMMA MoreKeeps ==
    ASSUME NEW v, NEW e, NEW p, NEW u, ViewFits(v, e, p, u),
           NEW f, NEW q, NEW w, p \cup u \subseteq q \cup w, u \subseteq w,
           \A d \in Dirs \ (q \cup w) : f[d] = e[d]
    PROVE  ViewFits(v, f, q, w)
<1>1. v \in Views /\ v.calls \in SUBSET Listings
  BY DEF ViewFits, ViewOK, Views
<1>2. RootIsComing(v, w)
  BY DEF ViewFits, RootIsComing
<1>3. CallsFit(v, f, q, w)
  BY <1>1 DEF ViewFits, CallsFit, Listings
<1>4. LoadedFits(v, f, q, w)
  BY DEF ViewFits, LoadedFits
<1> QED
  BY <1>2, <1>3, <1>4 DEF ViewFits

-----------------------------------------------------------------------------
(* The invariant of the tree *)

LEMMA TreeInvImplies == TreeInv => TreeIsLoaded
<1> SUFFICES ASSUME TreeInv PROVE TreeIsLoaded
  OBVIOUS
<1>0. view \in Views /\ ViewOK(view)
  BY DEF TreeInv, ViewFits, ViewOK
<1>1. /\ view \in Views /\ ViewOK(view) /\ view.calls \in SUBSET Listings
      /\ view.top \in Nat /\ Len(view.listings) \in Nat /\ view.listings \in Seq(Nat) /\ Depth \in Nat
  BY <1>0, TreeAssumption DEF Views, Dirs
<1>2. TreeTypeOK
  <2>1. Len(view.listings) <= Depth + 1
    BY <1>1 DEF ViewOK
  <2>2. \A i \in DOMAIN view.listings : view.listings[i] \in Nat
    BY <1>1
  <2>3. view.expanded \subseteq Dirs \ {Root} /\ view.reveal \in Dirs
    BY <1>1 DEF Views
  <2>4. \A call \in view.calls : call.version <= view.sequence
    BY <1>1 DEF ViewOK
  <2>5. \A dir \in view.loadingDirectories : \E call \in view.calls : call.dir = dir
    BY <1>1 DEF ViewOK
  <2> QED
    BY <2>1, <2>2, <2>3, <2>4, <2>5 DEF TreeTypeOK
<1>3. ListingsAreCurrent
  <2> SUFFICES ASSUME TreeQuiet, Root \notin unseen
               PROVE  /\ view.top = Root
                      /\ \A dir \in Dirs \ unseen : IsLoaded(view, dir) => Listing(view, dir) = entries[dir]
    BY DEF ListingsAreCurrent
  <2>1. ToSet(pushed) = {} /\ view.calls = {}
    BY DEF TreeQuiet, ToSet
  <2>2. \A dir \in Dirs : view.versions[dir] = 0
    BY <2>1 DEF TreeInv, ViewFits, LatestIsThere
  <2>3. view.top = Root
    BY <1>1, <2>2 DEF TreeInv, ViewFits, RootIsComing, Root, Dirs
  <2> QED
    BY <2>1, <2>2, <2>3 DEF TreeInv, ViewFits, LoadedFits
<1>4. RevealedIsLoaded
  <2> SUFFICES ASSUME TreeQuiet, view.top = Root, view.listings # <<>> PROVE IsLoaded(view, view.reveal)
    BY DEF RevealedIsLoaded
  <2>1. view.loadingDirectories = {}
    BY <1>1 DEF ViewOK, TreeQuiet
  <2>2. ~(view.top + Len(view.listings) <= view.reveal)
    BY <2>1 DEF TreeInv, RevealIsComing
  <2> QED
    BY <1>1, <2>2 DEF IsLoaded, Views, Dirs, Root
<1> QED
  BY <1>2, <1>3, <1>4 DEF TreeIsLoaded

LEMMA TreeStarts == TreeInit => TreeInv
<1> SUFFICES ASSUME TreeInit PROVE TreeInv
  OBVIOUS
<1>1. Root \in Dirs /\ Depth \in Nat /\ Dirs \subseteq Nat
  BY TreeAssumption DEF Root, Dirs
<1>2. Empty \in Views /\ Empty.top = Root /\ Empty.listings = <<>> /\ Empty.calls = {} /\ Empty.sequence = 0
      /\ Empty.versions = [dir \in Dirs |-> 0] /\ Empty.loadingDirectories = {}
  BY <1>1 DEF Empty, Views, NoCalls
<1> DEFINE call == [dir |-> Root, version |-> Empty.sequence + 1, read |-> NotRead]
           w == List(Empty, Root)
<1>3. /\ w \in Views /\ call \in Listings /\ w.top = Empty.top /\ w.listings = Empty.listings
      /\ w.sequence = Empty.sequence + 1 /\ w.versions = [Empty.versions EXCEPT ![Root] = Empty.sequence + 1]
      /\ w.calls = Empty.calls \cup {call} /\ w.loadingDirectories = Empty.loadingDirectories
  <2> HIDE DEF Root
  <2> QED BY <1>1, <1>2, ListFields
<1>4. call.dir = Root /\ call.version = 1 /\ call.read = NotRead
  BY <1>2
<1> HIDE DEF call, w
<1>5. w.top = Root /\ w.listings = <<>> /\ w.calls = {call} /\ w.loadingDirectories = {} /\ w.sequence = 1
      /\ w.versions = [[dir \in Dirs |-> 0] EXCEPT ![Root] = 1]
  BY <1>2, <1>3
<1>6. w.versions[Root] = 1 /\ \A dir \in Dirs \ {Root} : w.versions[dir] = 0
  BY <1>1, <1>5
<1>7. ViewOK(w)
  BY <1>1, <1>3, <1>4, <1>5 DEF ViewOK, Root
<1>8. LatestIsThere(w) /\ RootIsComing(w, {})
  BY <1>4, <1>5, <1>6 DEF LatestIsThere, IsLatestListing, RootIsComing
<1>9. CallsFit(w, entries, {}, {})
  BY <1>4, <1>5 DEF CallsFit
<1>10. LoadedFits(w, entries, {}, {}) /\ RevealIsComing(w)
  BY <1>1, <1>5 DEF LoadedFits, IsLoaded, RevealIsComing
<1>11. ViewFits(w, entries, {}, {})
  BY <1>7, <1>8, <1>9, <1>10 DEF ViewFits
<1>12. /\ entries \in [Dirs -> Nat] /\ pushed = <<>> /\ unseen = {} /\ view = w
  BY DEF TreeInit, w
<1>13. ToSet(pushed) = {} /\ pushed \in Seq(Dirs) /\ unseen \in SUBSET Dirs
  BY <1>12 DEF ToSet
<1>14. ViewFits(view, entries, ToSet(pushed), unseen)
  BY <1>11, <1>12, <1>13
<1> QED
  BY <1>10, <1>12, <1>13, <1>14 DEF TreeInv

LEMMA TreeStutters == TreeInv /\ UNCHANGED treeVars => TreeInv'
  BY DEF TreeInv, treeVars

\* What is shown next is the view with a listing for what is revealed.
LEMMA ShownKeeps ==
    ASSUME NEW v, Show(v), ViewFits(v, entries', ToSet(pushed'), unseen'),
           entries' \in [Dirs -> Nat], pushed' \in Seq(Dirs), unseen' \in SUBSET Dirs
    PROVE  TreeInv'
<1>1. view' = RevealNext(v)
  BY DEF Show
<1>2. ViewFits(view', entries', ToSet(pushed'), unseen') /\ RevealIsComing(view')
  BY <1>1, RevealKeeps
<1> QED
  BY <1>2 DEF TreeInv

LEMMA TreeStep == TreeInv /\ TreeNext => TreeInv'
<1> SUFFICES ASSUME TreeInv, TreeNext PROVE TreeInv'
  OBVIOUS
<1>1. /\ entries \in [Dirs -> Nat] /\ pushed \in Seq(Dirs) /\ unseen \in SUBSET Dirs
      /\ ViewFits(view, entries, ToSet(pushed), unseen) /\ RevealIsComing(view)
  BY DEF TreeInv
<1>2. view \in Views /\ view.calls \in SUBSET Listings /\ Root \in Dirs
  <2>1. view \in Views
    BY <1>1 DEF ViewFits, ViewOK
  <2> QED
    BY <2>1, TreeAssumption DEF Views, Root, Dirs
<1>3. ASSUME NEW dir \in Dirs, ChangeIn(dir) PROVE TreeInv'
  <2>1. /\ entries' \in [Dirs -> Nat] /\ \A d \in Dirs \ {dir} : entries'[d] = entries[d]
        /\ view' = view
    BY <1>1, <1>3 DEF ChangeIn
  <2>2. /\ pushed' \in Seq(Dirs) /\ unseen' \in SUBSET Dirs /\ unseen \subseteq unseen'
        /\ ToSet(pushed) \subseteq ToSet(pushed') /\ dir \in ToSet(pushed') \cup unseen'
    <3>1. CASE up
      <4>1. pushed' = Append(pushed, dir) /\ unseen' = unseen
        BY <1>3, <3>1 DEF ChangeIn
      <4>2. /\ pushed' \in Seq(Dirs) /\ Len(pushed') = Len(pushed) + 1 /\ pushed'[Len(pushed) + 1] = dir
            /\ \A i \in 1..Len(pushed) : pushed'[i] = pushed[i]
        BY <1>1, <4>1
      <4>3. DOMAIN pushed = 1..Len(pushed) /\ DOMAIN pushed' = 1..(Len(pushed) + 1) /\ Len(pushed) \in Nat
        BY <1>1, <4>2
      <4>4. ToSet(pushed) \subseteq ToSet(pushed')
        BY <4>2, <4>3 DEF ToSet
      <4>5. dir \in ToSet(pushed')
        BY <4>2, <4>3 DEF ToSet
      <4> QED
        BY <1>1, <4>1, <4>2, <4>4, <4>5
    <3>2. CASE ~up
      BY <1>1, <1>3, <3>2 DEF ChangeIn
    <3> QED
      BY <3>1, <3>2
  <2>3. ToSet(pushed) \cup unseen \subseteq ToSet(pushed') \cup unseen'
        /\ \A d \in Dirs \ (ToSet(pushed') \cup unseen') : entries'[d] = entries[d]
    BY <2>1, <2>2
  <2>4. ViewFits(view, entries', ToSet(pushed'), unseen')
    BY <1>1, <2>2, <2>3, MoreKeeps
  <2> QED
    BY <1>1, <2>1, <2>2, <2>4 DEF TreeInv
<1>4. ASSUME Outage PROVE TreeInv'
  <2>1. /\ entries' = entries /\ view' = view /\ pushed' = <<>> /\ unseen' = unseen \cup ToSet(pushed)
    BY <1>4 DEF Outage
  <2>2. ToSet(pushed) \subseteq Dirs /\ ToSet(<<>>) = {} /\ pushed' \in Seq(Dirs)
    BY <1>1, <2>1 DEF ToSet
  <2>3. ViewFits(view, entries, {}, unseen')
    BY <1>1, <2>1, MoreKeeps
  <2> QED
    BY <1>1, <2>1, <2>2, <2>3 DEF TreeInv
<1>5. ASSUME EndOfOutage PROVE TreeInv'
  <2>1. entries' = entries /\ pushed' = pushed /\ unseen' = unseen /\ Show(List(view, Root))
    BY <1>5 DEF EndOfOutage
  <2>2. ViewFits(List(view, Root), entries, ToSet(pushed), unseen)
    BY <1>1, <1>2, ListKeeps
  <2> QED
    BY <1>1, <2>1, <2>2, ShownKeeps
<1>6. ASSUME ReceiveChange PROVE TreeInv'
  <2>1. /\ entries' = entries /\ pushed # <<>> /\ pushed' = Tail(pushed) /\ unseen' = unseen
        /\ Show(List(view, Head(pushed)))
    BY <1>6 DEF ReceiveChange
  <2>2. Head(pushed) \in Dirs /\ Tail(pushed) \in Seq(Dirs)
    BY <1>1, <2>1
  <2>3. ToSet(pushed) \subseteq ToSet(Tail(pushed)) \cup {Head(pushed)}
    <3>1. Head(pushed) = pushed[1] /\ DOMAIN pushed = 1..Len(pushed) /\ Len(pushed) \in Nat
      BY <1>1, <2>1
    <3>2. ASSUME NEW i \in 1..Len(pushed), i # 1 PROVE pushed[i] \in ToSet(Tail(pushed))
      <4>1. i - 1 \in DOMAIN Tail(pushed) /\ Tail(pushed)[i - 1] = pushed[i]
        BY <1>1, <2>1, <3>2
      <4> QED
        BY <4>1 DEF ToSet
    <3> QED
      BY <3>1, <3>2 DEF ToSet
  <2>4. ViewFits(List(view, Head(pushed)), entries, ToSet(Tail(pushed)), unseen)
    BY <1>1, <2>2, <2>3, ListKeeps
  <2> QED
    BY <1>1, <2>1, <2>2, <2>4, ShownKeeps
<1>7. ASSUME NEW call \in view.calls, ServeListing(call) PROVE TreeInv'
  <2>1. /\ call.read = NotRead
        /\ view' = [view EXCEPT !.calls = (view.calls \ {call}) \cup {[call EXCEPT !.read = entries[call.dir]]}]
        /\ entries' = entries /\ pushed' = pushed /\ unseen' = unseen
    BY <1>7 DEF ServeListing
  <2>2. ViewFits(view', entries, ToSet(pushed), unseen) /\ RevealIsComing(view')
    BY <1>1, <2>1, ServedKeeps
  <2> QED
    BY <1>1, <2>1, <2>2 DEF TreeInv
<1>8. ASSUME NEW call \in view.calls, ListingAnswered(call) PROVE TreeInv'
  <2> DEFINE shows == IF IsLatestListing(view, call) THEN Apply(view, call.dir, call.read) ELSE view
  <2>1. /\ call.read # NotRead /\ Show(Ended(shows, call))
        /\ entries' = entries /\ pushed' = pushed /\ unseen' = unseen
    BY <1>8 DEF ListingAnswered
  <2>2. ViewFits(Ended(shows, call), entries, ToSet(pushed), unseen)
    BY <1>1, <2>1, AnswerKeeps
  <2> HIDE DEF shows
  <2> QED
    BY <1>1, <2>1, <2>2, ShownKeeps
<1>9. ASSUME NEW call \in view.calls, ListingFails(call) PROVE TreeInv'
  <2>1. /\ Show(Ended(view, call)) /\ unseen' = unseen \cup {call.dir}
        /\ entries' = entries /\ pushed' = pushed
    BY <1>9 DEF ListingFails
  <2>2. ViewFits(Ended(view, call), entries, ToSet(pushed), unseen') /\ call.dir \in Dirs
    BY <1>1, <1>2, <2>1, FailureKeeps DEF Listings
  <2> QED
    BY <1>1, <2>1, <2>2, ShownKeeps
<1>10. ASSUME NEW dir \in Dirs, ToggleDirectory(dir) PROVE TreeInv'
  <2> DEFINE opened == IF dir \in view.expanded THEN view.expanded \ {dir} ELSE view.expanded \cup {dir}
             toggled == [view EXCEPT !.expanded = opened, !.reveal = view.reveal]
  <2>1. toggled = [view EXCEPT !.expanded = IF dir \in @ THEN @ \ {dir} ELSE @ \cup {dir}]
    BY <1>2 DEF Views
  <2>2. dir # Root /\ entries' = entries /\ pushed' = pushed /\ unseen' = unseen
        /\ (Show(List(toggled, dir)) \/ Show(toggled))
    BY <1>10, <2>1 DEF ToggleDirectory
  <2>3. opened \in SUBSET (Dirs \ {Root}) /\ view.reveal \in Dirs
    BY <1>2, <2>2 DEF Views
  <2> HIDE DEF opened
  <2>4. ViewFits(toggled, entries, ToSet(pushed), unseen)
    BY <1>1, <2>3, SidebarKeeps
  <2> HIDE DEF toggled
  <2>5. ViewFits(List(toggled, dir), entries, ToSet(pushed), unseen)
    BY <1>1, <2>4, ListKeeps
  <2> QED
    BY <1>1, <2>2, <2>4, <2>5, ShownKeeps
<1>11. ASSUME NEW dir \in Dirs, RevealFileIn(dir) PROVE TreeInv'
  <2> DEFINE more == view.expanded \cup 1..dir
             revealed == [view EXCEPT !.expanded = more, !.reveal = dir]
  <2>1. revealed = [view EXCEPT !.reveal = dir, !.expanded = @ \cup 1..dir]
    BY <1>2 DEF Views
  <2>2. entries' = entries /\ pushed' = pushed /\ unseen' = unseen /\ Show(revealed)
    BY <1>11, <2>1 DEF RevealFileIn
  <2>3. more \in SUBSET (Dirs \ {Root})
    BY <1>2, TreeAssumption DEF Views, Dirs, Root
  <2> HIDE DEF more
  <2>4. ViewFits(revealed, entries, ToSet(pushed), unseen)
    BY <1>1, <2>3, SidebarKeeps
  <2> HIDE DEF revealed
  <2> QED
    BY <1>1, <2>2, <2>4, ShownKeeps
<1> QED
  BY <1>3, <1>4, <1>5, <1>6, <1>7, <1>8, <1>9, <1>10, <1>11 DEF TreeNext

\* What is not about the tree leaves it alone.
LEMMA TreeGoesOn ==
    ASSUME TreeInv, [MCNext]_<<reviewVars, focusVars, treeVars, paletteVars, concern>> PROVE TreeInv'
<1>1. CASE UNCHANGED <<reviewVars, focusVars, treeVars, paletteVars, concern>>
  BY <1>1, TreeStutters
<1>2. CASE MCNext
  <2>1. TreeNext \/ UNCHANGED treeVars
    BY <1>2 DEF MCNext
  <2> QED
    BY <2>1, TreeStep, TreeStutters
<1> QED
  BY <1>1, <1>2

\* However listings overtake each other, and whatever was lost: once nothing is on its way, the
\* tree is the workspace's, except where a change was lost or a listing failed, and the folders
\* above the file that is revealed are loaded (loadTree, loadDirectory, TreeSidebar).
THEOREM TreeStaysLoaded == MCSpec => []TreeIsLoaded
<1>1. MCInit => TreeInv
  BY TreeStarts DEF MCInit
<1>2. TreeInv /\ [MCNext]_<<reviewVars, focusVars, treeVars, paletteVars, concern>> => TreeInv'
  BY TreeGoesOn
<1> QED
  BY <1>1, <1>2, TreeInvImplies, PTL DEF MCSpec

-----------------------------------------------------------------------------
(***************************************************************************)
(* The list of changes and the differences.  Again the invariant is about    *)
(* values: the calls s under way, the versions vs of the differences, those   *)
(* that are shown as loading (ld), the differences df, the work w, and the    *)
(* files ex that are excepted or that something is still to happen for.       *)
(***************************************************************************)

Asks == [document : Documents \cup {NoDocument}, version : Nat, first : BOOLEAN, read : Nat \cup {Waiting},
         reason : Reasons, seen : [Documents -> Nat]]

\* Two calls differ in their file or version; of the calls for the list one may be the first, and
\* one another while the refresh is in flight (fl).
AsksFit(s, vs, fl) ==
    /\ s \in Seq(Asks)
    /\ \A i, j \in DOMAIN s : s[i].document = s[j].document /\ i # j =>
          IF s[i].document = NoDocument THEN s[i].first # s[j].first ELSE s[i].version # s[j].version
    /\ \A i \in DOMAIN s :
          IF s[i].document = NoDocument THEN s[i].first \/ fl ELSE s[i].version <= vs[s[i].document]

IsLatestAsk(vs, ask, d) == ask.document = d /\ ask.version = vs[d]

\* The latest call for a difference shows the file as it is, or will; without one the difference does.
Follows(cs, vs, df, w, d) ==
    /\ \A ask \in cs : IsLatestAsk(vs, ask, d) => ask.read \in {Waiting, w[d]}
    /\ (\E ask \in cs : IsLatestAsk(vs, ask, d)) \/ df[d] \in {NoDiff, w[d]}

DiffsFit(s, vs, ld, df, w, ex) ==
    /\ \A d \in ld : \E ask \in ToSet(s) : IsLatestAsk(vs, ask, d)
    /\ \A d \in Documents : d \in ex \/ Follows(ToSet(s), vs, df, w, d)

ReviewStateOK ==
    /\ work \in [Documents -> Nat] /\ news \in Seq(Documents) /\ passed \in SUBSET Documents
    /\ gitReview.seen \in [Documents -> Nat] /\ gitReview.reason \in Reasons \cup {"not asked"}
    /\ queued \in BOOLEAN /\ gitTimer \in BOOLEAN /\ inFlight \in BOOLEAN
    /\ diffs \in [Documents -> Nat \cup {NoDiff}] /\ diffRequestVersions \in [Documents -> Nat]
    /\ loadingDiffs \in SUBSET Documents /\ pendingDiffs \in SUBSET Documents
    /\ selected \in Documents \cup {NoDocument}
    /\ pendingDiffs # {} => diffTimer

ReviewInv ==
    /\ ReviewStateOK /\ QueuedIsScheduled
    /\ AsksFit(calls, diffRequestVersions, inFlight)
    /\ DiffsFit(calls, diffRequestVersions, loadingDiffs, diffs, work, passed \cup ToSet(news) \cup pendingDiffs)

-----------------------------------------------------------------------------
(* Sequences of calls *)

LEMMA ToSetIs == \A s : ToSet(s) = {s[i] : i \in DOMAIN s}
  BY DEF ToSet

LEMMA SetToSeqIs ==
    ASSUME NEW S, IsFiniteSet(S)
    PROVE  LET s == SetToSeq(S)
           IN  s \in Seq(S) /\ ToSet(s) = S /\ \A i, j \in DOMAIN s : s[i] = s[j] => i = j
<1>1. Cardinality(S) \in Nat /\ ExistsBijection(1..Cardinality(S), S)
  BY FS_CardinalityType
<1>2. PICK f \in [1..Cardinality(S) -> S] : IsInjective(f)
  BY <1>1 DEF ExistsBijection, Bijection, Injection
<1> DEFINE s == SetToSeq(S)
<1>3. s \in [1..Cardinality(S) -> S] /\ IsInjective(s)
  BY <1>2 DEF SetToSeq
<1> HIDE DEF s
<1>4. s \in Injection(1..Cardinality(S), S)
  BY <1>3 DEF Injection
<1>5. Cardinality(1..Cardinality(S)) = Cardinality(S)
  BY <1>1, FS_Interval
<1>6. s \in Surjection(1..Cardinality(S), S)
  BY <1>4, <1>5, FS_Injection
<1>7. ToSet(s) = S
  BY <1>3, <1>6 DEF Surjection, ToSet
<1>8. s \in Seq(S)
  BY <1>1, <1>3, SeqDef
<1>9. \A i, j \in DOMAIN s : s[i] = s[j] => i = j
  BY <1>3 DEF IsInjective
<1> QED
  BY <1>7, <1>8, <1>9 DEF s

\* What is left after one element was removed.
LEMMA RemoveAtIs ==
    ASSUME NEW T, NEW s \in Seq(T), NEW i \in DOMAIN s
    PROVE  LET t == RemoveAt(s, i)
           IN  /\ t \in Seq(T) /\ Len(t) = Len(s) - 1
               /\ \A j \in 1..(Len(s) - 1) : t[j] = s[IF j < i THEN j ELSE j + 1]
<1> DEFINE front == SubSeq(s, 1, i - 1)
           back == SubSeq(s, i + 1, Len(s))
<1>1. Len(s) \in Nat /\ i \in 1..Len(s) /\ i \in Nat
  OBVIOUS
<1>2. front \in Seq(T) /\ Len(front) = i - 1 /\ \A j \in 1..(i - 1) : front[j] = s[j]
  BY <1>1
<1>3. back \in Seq(T) /\ Len(back) = Len(s) - i /\ \A j \in 1..(Len(s) - i) : back[j] = s[i + j]
  <2>1. back \in Seq(T)
    BY <1>1
  <2>2. Len(back) = Len(s) - i
    BY <1>1
  <2>3. ASSUME NEW j \in 1..(Len(s) - i) PROVE back[j] = s[i + j]
    BY <1>1, <2>3
  <2> QED
    BY <2>1, <2>2, <2>3
<1> HIDE DEF front, back
<1> DEFINE t == front \o back
<1>4. /\ t \in Seq(T) /\ Len(t) = Len(front) + Len(back)
      /\ \A j \in 1..Len(front) : t[j] = front[j]
      /\ \A j \in (Len(front) + 1)..(Len(front) + Len(back)) : t[j] = back[j - Len(front)]
  <2>1. front \in Seq(T) /\ back \in Seq(T)
    BY <1>2, <1>3
  <2> QED
    BY <2>1
<1> HIDE DEF t
<1>5. t = RemoveAt(s, i)
  BY DEF t, front, back, RemoveAt
<1>6. Len(t) = Len(s) - 1
  BY <1>1, <1>2, <1>3, <1>4
<1>7. ASSUME NEW j \in 1..(Len(s) - 1) PROVE t[j] = s[IF j < i THEN j ELSE j + 1]
  <2>1. CASE j < i
    <3>1. j \in 1..(i - 1)
      BY <1>1, <2>1
    <3> QED
      BY <1>2, <1>4, <2>1, <3>1
  <2>2. CASE ~(j < i)
    <3>1. j \in (Len(front) + 1)..(Len(front) + Len(back)) /\ j - Len(front) = j - i + 1
      BY <1>1, <1>2, <1>3, <2>2
    <3>2. t[j] = back[j - i + 1]
      BY <1>4, <3>1
    <3>3. j - i + 1 \in 1..(Len(s) - i) /\ i + (j - i + 1) = j + 1
      BY <1>1, <2>2
    <3>4. back[j - i + 1] = s[j + 1]
      BY <1>3, <3>3
    <3> QED
      BY <2>2, <3>2, <3>4
  <2> QED
    BY <2>1, <2>2
<1> QED
  BY <1>4, <1>5, <1>6, <1>7

\* The calls that are left fit, and are all but the one that was removed.
LEMMA RemovedFit ==
    ASSUME NEW s, NEW vs, NEW fl, AsksFit(s, vs, fl), NEW i \in DOMAIN s
    PROVE  LET t == RemoveAt(s, i)
           IN  /\ AsksFit(t, vs, fl)
               /\ ToSet(t) \subseteq ToSet(s) /\ ToSet(s) \subseteq ToSet(t) \cup {s[i]}
               /\ \A ask \in ToSet(t) : ask.document = s[i].document =>
                     IF ask.document = NoDocument THEN ask.first # s[i].first ELSE ask.version # s[i].version
<1> DEFINE t == RemoveAt(s, i)
           old(j) == IF j < i THEN j ELSE j + 1
<1>1. s \in Seq(Asks) /\ DOMAIN s = 1..Len(s) /\ Len(s) \in Nat /\ i \in 1..Len(s)
  BY DEF AsksFit
<1>2. /\ t \in Seq(Asks) /\ Len(t) = Len(s) - 1
      /\ \A j \in 1..(Len(s) - 1) : t[j] = s[old(j)]
  BY <1>1, RemoveAtIs
<1> HIDE DEF t
<1>3. DOMAIN t = 1..(Len(s) - 1)
  BY <1>1, <1>2
<1>4. \A j \in 1..(Len(s) - 1) : old(j) \in 1..Len(s) /\ old(j) # i
  BY <1>1
<1>5. \A j, k \in 1..(Len(s) - 1) : old(j) = old(k) => j = k
  BY <1>1
<1>6. \A k \in 1..Len(s) : k # i => \E j \in 1..(Len(s) - 1) : old(j) = k
  <2> SUFFICES ASSUME NEW k \in 1..Len(s), k # i PROVE \E j \in 1..(Len(s) - 1) : old(j) = k
    OBVIOUS
  <2>1. CASE k < i
    <3>1. k \in 1..(Len(s) - 1) /\ old(k) = k
      BY <1>1, <2>1
    <3> QED
      BY <3>1
  <2>2. CASE k > i
    <3>1. k - 1 \in 1..(Len(s) - 1) /\ old(k - 1) = k
      BY <1>1, <2>2
    <3> QED
      BY <3>1
  <2> QED
    BY <1>1, <2>1, <2>2
<1> HIDE DEF old
<1>7. \A j \in DOMAIN t : t[j] = s[old(j)] /\ old(j) \in DOMAIN s /\ old(j) # i
  BY <1>1, <1>2, <1>3, <1>4
<1>8. ToSet(t) \subseteq ToSet(s)
  BY <1>7 DEF ToSet
<1>9. ToSet(s) \subseteq ToSet(t) \cup {s[i]}
  <2> SUFFICES ASSUME NEW k \in DOMAIN s, k # i PROVE s[k] \in ToSet(t)
    BY DEF ToSet
  <2>1. PICK j \in 1..(Len(s) - 1) : old(j) = k
    BY <1>1, <1>6
  <2> QED
    BY <1>3, <1>7, <2>1 DEF ToSet
<1>10. \A ask \in ToSet(t) : ask.document = s[i].document =>
          IF ask.document = NoDocument THEN ask.first # s[i].first ELSE ask.version # s[i].version
  <2> SUFFICES ASSUME NEW j \in DOMAIN t, t[j].document = s[i].document
               PROVE  IF t[j].document = NoDocument THEN t[j].first # s[i].first ELSE t[j].version # s[i].version
    BY ToSetIs
  <2>1. t[j] = s[old(j)] /\ old(j) \in DOMAIN s /\ old(j) # i
    BY <1>7
  <2> QED
    BY <2>1 DEF AsksFit
<1>11. AsksFit(t, vs, fl)
  <2>1. ASSUME NEW j \in DOMAIN t, NEW k \in DOMAIN t, t[j].document = t[k].document, j # k
        PROVE  IF t[j].document = NoDocument THEN t[j].first # t[k].first ELSE t[j].version # t[k].version
    <3>1. /\ t[j] = s[old(j)] /\ old(j) \in DOMAIN s /\ t[k] = s[old(k)] /\ old(k) \in DOMAIN s
          /\ old(j) # old(k)
      BY <1>3, <1>5, <1>7, <2>1
    <3> QED
      BY <2>1, <3>1 DEF AsksFit
  <2>2. ASSUME NEW j \in DOMAIN t
        PROVE  IF t[j].document = NoDocument THEN t[j].first \/ fl ELSE t[j].version <= vs[t[j].document]
    BY <1>7 DEF AsksFit
  <2> QED
    BY <1>2, <2>1, <2>2 DEF AsksFit
<1> QED
  BY <1>8, <1>9, <1>10, <1>11 DEF t

\* Calls for the differences of some files are added: the versions of these go up by one.
Bumped(vs, ds) == [d \in Documents |-> vs[d] + (IF d \in ds THEN 1 ELSE 0)]

NewAsks(added, vs, ds) ==
    /\ added \in Seq(Asks)
    /\ \A i \in DOMAIN added : added[i].document \in ds /\ added[i].version = vs[added[i].document] + 1
                               /\ added[i].read = Waiting
    /\ \A i, j \in DOMAIN added : added[i].document = added[j].document => i = j
    /\ \A d \in ds : \E i \in DOMAIN added : added[i].document = d

LEMMA ConcatIs ==
    ASSUME NEW T, NEW s \in Seq(T), NEW r \in Seq(T)
    PROVE  /\ s \o r \in Seq(T) /\ Len(s \o r) = Len(s) + Len(r) /\ Len(s) \in Nat /\ Len(r) \in Nat
           /\ \A i \in 1..Len(s) : (s \o r)[i] = s[i]
           /\ \A i \in 1..Len(r) : (s \o r)[Len(s) + i] = r[i]
           /\ \A i \in 1..(Len(s) + Len(r)) : i \in 1..Len(s) \/ (i > Len(s) /\ i - Len(s) \in 1..Len(r) /\ (s \o r)[i] = r[i - Len(s)])
           /\ ToSet(s \o r) = ToSet(s) \cup ToSet(r)
<1>1. s \o r \in Seq(T) /\ Len(s \o r) = Len(s) + Len(r) /\ Len(s) \in Nat /\ Len(r) \in Nat
  OBVIOUS
<1>2. \A i \in 1..Len(s) : (s \o r)[i] = s[i]
  BY <1>1
<1>3. \A i \in 1..Len(r) : (s \o r)[Len(s) + i] = r[i]
  BY <1>1
<1>4. ASSUME NEW i \in 1..(Len(s) + Len(r)), i \notin 1..Len(s)
      PROVE  i > Len(s) /\ i - Len(s) \in 1..Len(r) /\ (s \o r)[i] = r[i - Len(s)]
  BY <1>1, <1>4
<1>5. DOMAIN s = 1..Len(s) /\ DOMAIN r = 1..Len(r) /\ DOMAIN (s \o r) = 1..(Len(s) + Len(r))
  BY <1>1
<1>6. ToSet(s \o r) \subseteq ToSet(s) \cup ToSet(r)
  <2> SUFFICES ASSUME NEW i \in 1..(Len(s) + Len(r)) PROVE (s \o r)[i] \in ToSet(s) \cup ToSet(r)
    BY <1>5, ToSetIs
  <2>1. CASE i \in 1..Len(s)
    BY <1>2, <1>5, <2>1, ToSetIs
  <2>2. CASE i \notin 1..Len(s)
    BY <1>4, <1>5, <2>2, ToSetIs
  <2> QED
    BY <2>1, <2>2
<1>7. ToSet(s) \subseteq ToSet(s \o r)
  <2> SUFFICES ASSUME NEW i \in 1..Len(s) PROVE s[i] \in ToSet(s \o r)
    BY <1>5, ToSetIs
  <2>1. i \in 1..(Len(s) + Len(r))
    BY <1>1
  <2> QED
    BY <1>2, <1>5, <2>1, ToSetIs
<1>8. ToSet(r) \subseteq ToSet(s \o r)
  <2> SUFFICES ASSUME NEW i \in 1..Len(r) PROVE r[i] \in ToSet(s \o r)
    BY <1>5, ToSetIs
  <2>1. Len(s) + i \in 1..(Len(s) + Len(r))
    BY <1>1
  <2> QED
    BY <1>3, <1>5, <2>1, ToSetIs
<1> QED
  BY <1>1, <1>2, <1>3, <1>4, <1>6, <1>7, <1>8

LEMMA AddedFit ==
    ASSUME NEW s, NEW vs \in [Documents -> Nat], NEW fl, AsksFit(s, vs, fl),
           NEW ds \in SUBSET Documents, NEW added, NewAsks(added, vs, ds)
    PROVE  AsksFit(s \o added, Bumped(vs, ds), fl) /\ ToSet(s \o added) = ToSet(s) \cup ToSet(added)
<1> DEFINE t == s \o added
<1>1. s \in Seq(Asks) /\ added \in Seq(Asks)
  BY DEF AsksFit, NewAsks
<1>2. /\ t \in Seq(Asks) /\ Len(t) = Len(s) + Len(added) /\ Len(s) \in Nat /\ Len(added) \in Nat
      /\ \A i \in 1..Len(s) : t[i] = s[i]
      /\ \A i \in 1..(Len(s) + Len(added)) :
            i \in 1..Len(s) \/ (i > Len(s) /\ i - Len(s) \in 1..Len(added) /\ t[i] = added[i - Len(s)])
      /\ ToSet(t) = ToSet(s) \cup ToSet(added)
  BY <1>1, ConcatIs
<1> HIDE DEF t
<1>3. DOMAIN t = 1..(Len(s) + Len(added)) /\ DOMAIN s = 1..Len(s) /\ DOMAIN added = 1..Len(added)
  BY <1>1, <1>2
<1>4. \A d \in Documents : vs[d] \in Nat /\ Bumped(vs, ds)[d] \in Nat /\ vs[d] <= Bumped(vs, ds)[d]
                           /\ (d \in ds => Bumped(vs, ds)[d] = vs[d] + 1)
  BY DEF Bumped
<1>5. ASSUME NEW i \in DOMAIN s
      PROVE  s[i] \in Asks /\ (s[i].document # NoDocument => s[i].document \in Documents /\ s[i].version \in Nat
                                                             /\ s[i].version <= vs[s[i].document])
  <2>1. s[i] \in Asks
    BY <1>1, <1>5
  <2>2. s[i].document \in Documents \cup {NoDocument} /\ s[i].version \in Nat
    BY <2>1 DEF Asks
  <2> QED
    BY <1>5, <2>1, <2>2 DEF AsksFit
<1>6. ASSUME NEW i \in DOMAIN added
      PROVE  added[i].document \in ds /\ added[i].document # NoDocument
             /\ added[i].version = vs[added[i].document] + 1
  BY <1>6, ReviewAssumption DEF NewAsks
<1>7. ASSUME NEW i \in DOMAIN t, NEW j \in DOMAIN t, t[i].document = t[j].document, i # j
      PROVE  IF t[i].document = NoDocument THEN t[i].first # t[j].first ELSE t[i].version # t[j].version
  <2>1. CASE i \in 1..Len(s) /\ j \in 1..Len(s)
    <3>1. t[i] = s[i] /\ t[j] = s[j] /\ i \in DOMAIN s /\ j \in DOMAIN s
      BY <1>2, <1>3, <2>1
    <3> QED
      BY <1>7, <3>1 DEF AsksFit
  <2>2. CASE i \in 1..Len(s) /\ j \notin 1..Len(s)
    <3>1. t[i] = s[i] /\ i \in DOMAIN s /\ j - Len(s) \in DOMAIN added /\ t[j] = added[j - Len(s)]
      BY <1>2, <1>3, <2>2
    <3>2. t[j].document \in Documents /\ t[j].document # NoDocument /\ t[j].version = vs[t[j].document] + 1
      BY <1>6, <3>1
    <3>3. t[i].version \in Nat /\ t[i].version <= vs[t[j].document]
      BY <1>5, <1>7, <3>1, <3>2
    <3> QED
      BY <1>4, <1>7, <3>2, <3>3
  <2>3. CASE i \notin 1..Len(s) /\ j \in 1..Len(s)
    <3>1. t[j] = s[j] /\ j \in DOMAIN s /\ i - Len(s) \in DOMAIN added /\ t[i] = added[i - Len(s)]
      BY <1>2, <1>3, <2>3
    <3>2. t[i].document \in Documents /\ t[i].document # NoDocument /\ t[i].version = vs[t[i].document] + 1
      BY <1>6, <3>1
    <3>3. t[j].version \in Nat /\ t[j].version <= vs[t[i].document]
      BY <1>5, <1>7, <3>1, <3>2
    <3> QED
      BY <1>4, <1>7, <3>2, <3>3
  <2>4. CASE i \notin 1..Len(s) /\ j \notin 1..Len(s)
    <3>1. /\ i - Len(s) \in DOMAIN added /\ t[i] = added[i - Len(s)]
          /\ j - Len(s) \in DOMAIN added /\ t[j] = added[j - Len(s)]
      BY <1>2, <1>3, <2>4
    <3>2. i - Len(s) = j - Len(s)
      BY <1>7, <3>1 DEF NewAsks
    <3> QED
      BY <1>2, <1>3, <1>7, <3>2
  <2> QED
    BY <2>1, <2>2, <2>3, <2>4
<1>8. ASSUME NEW i \in DOMAIN t
      PROVE  IF t[i].document = NoDocument THEN t[i].first \/ fl ELSE t[i].version <= Bumped(vs, ds)[t[i].document]
  <2>1. CASE i \in 1..Len(s)
    <3>1. t[i] = s[i] /\ i \in DOMAIN s
      BY <1>2, <1>3, <2>1
    <3>2. CASE s[i].document = NoDocument
      BY <3>1, <3>2 DEF AsksFit
    <3>3. CASE s[i].document # NoDocument
      BY <1>4, <1>5, <3>1, <3>3
    <3> QED
      BY <3>2, <3>3
  <2>2. CASE i \notin 1..Len(s)
    <3>1. i - Len(s) \in DOMAIN added /\ t[i] = added[i - Len(s)]
      BY <1>2, <1>3, <2>2
    <3> QED
      BY <1>4, <1>6, <3>1
  <2> QED
    BY <2>1, <2>2
<1> QED
  BY <1>2, <1>7, <1>8 DEF AsksFit, t

-----------------------------------------------------------------------------
(* What is shown, as calls come and go *)

\* Files that are loaded again need no exception.
LEMMA LoadKeeps ==
    ASSUME NEW s, NEW vs \in [Documents -> Nat], NEW fl, AsksFit(s, vs, fl),
           NEW ds \in SUBSET Documents, NEW added, NewAsks(added, vs, ds),
           NEW ld \in SUBSET Documents, NEW df, NEW w, NEW ex, NEW rest, DiffsFit(s, vs, ld, df, w, ex),
           ex \subseteq rest \cup ds
    PROVE  /\ AsksFit(s \o added, Bumped(vs, ds), fl)
           /\ DiffsFit(s \o added, Bumped(vs, ds), ld \cup ds, df, w, rest)
<1> DEFINE t == s \o added
           new == Bumped(vs, ds)
<1>1. AsksFit(t, new, fl) /\ ToSet(t) = ToSet(s) \cup ToSet(added)
  BY AddedFit
<1> HIDE DEF t
<1>2. \A d \in Documents : vs[d] \in Nat /\ (d \in ds => new[d] = vs[d] + 1) /\ (d \notin ds => new[d] = vs[d])
  BY DEF Bumped
<1> HIDE DEF new
<1>3. \A ask \in ToSet(added) : ask.document \in ds /\ ask.version = new[ask.document] /\ ask.read = Waiting
  BY <1>2, ToSetIs DEF NewAsks
<1>4. \A d \in ds : \E ask \in ToSet(added) : IsLatestAsk(new, ask, d)
  <2> SUFFICES ASSUME NEW d \in ds PROVE \E ask \in ToSet(added) : IsLatestAsk(new, ask, d)
    OBVIOUS
  <2>1. PICK i \in DOMAIN added : added[i].document = d
    BY DEF NewAsks
  <2>2. added[i] \in ToSet(added)
    BY ToSetIs
  <2> QED
    BY <1>3, <2>1, <2>2 DEF IsLatestAsk
<1>5. \A ask \in ToSet(s) : ask.document \in ds => ask.version \in Nat /\ ask.version <= vs[ask.document]
  <2> SUFFICES ASSUME NEW i \in DOMAIN s, s[i].document \in ds
               PROVE  s[i].version \in Nat /\ s[i].version <= vs[s[i].document]
    BY ToSetIs
  <2>1. s[i] \in Asks
    BY DEF AsksFit
  <2>2. s[i].version \in Nat /\ s[i].document # NoDocument
    BY <2>1, ReviewAssumption DEF Asks
  <2> QED
    BY <2>2 DEF AsksFit
<1>6. \A d \in Documents \ ds : \A ask \in ToSet(t) :
          ask.document = d => ask \in ToSet(s) /\ (IsLatestAsk(new, ask, d) <=> IsLatestAsk(vs, ask, d))
  BY <1>1, <1>2, <1>3 DEF IsLatestAsk
<1>7. \A d \in ld \cup ds : \E ask \in ToSet(t) : IsLatestAsk(new, ask, d)
  <2> SUFFICES ASSUME NEW d \in ld, d \notin ds PROVE \E ask \in ToSet(t) : IsLatestAsk(new, ask, d)
    BY <1>1, <1>4
  <2>1. PICK ask \in ToSet(s) : IsLatestAsk(vs, ask, d)
    BY DEF DiffsFit
  <2> QED
    BY <1>1, <1>2, <2>1 DEF IsLatestAsk
<1>8. \A d \in Documents : d \in rest \/ Follows(ToSet(t), new, df, w, d)
  <2> SUFFICES ASSUME NEW d \in Documents, d \notin rest PROVE Follows(ToSet(t), new, df, w, d)
    OBVIOUS
  <2>1. CASE d \in ds
    <3>1. \E ask \in ToSet(t) : IsLatestAsk(new, ask, d)
      BY <1>1, <1>4, <2>1
    <3>2. ASSUME NEW ask \in ToSet(t), IsLatestAsk(new, ask, d) PROVE ask.read = Waiting
      <4>1. ask \notin ToSet(s)
        BY <1>2, <1>5, <2>1, <3>2 DEF IsLatestAsk
      <4> QED
        BY <1>1, <1>3, <4>1
    <3> QED
      BY <3>1, <3>2 DEF Follows
  <2>2. CASE d \notin ds
    <3>1. Follows(ToSet(s), vs, df, w, d)
      BY <2>2 DEF DiffsFit
    <3>2. \A ask \in ToSet(t) : IsLatestAsk(new, ask, d) => ask \in ToSet(s) /\ IsLatestAsk(vs, ask, d)
      BY <1>6, <2>2 DEF IsLatestAsk
    <3>3. \A ask \in ToSet(s) : IsLatestAsk(vs, ask, d) => ask \in ToSet(t) /\ IsLatestAsk(new, ask, d)
      BY <1>1, <1>2, <2>2 DEF IsLatestAsk
    <3> QED
      BY <3>1, <3>2, <3>3 DEF Follows
  <2> QED
    BY <2>1, <2>2
<1> QED
  BY <1>1, <1>7, <1>8 DEF DiffsFit, t, new

\* Only calls for the list come or go, and files change that are excepted.
LEMMA OthersKeep ==
    ASSUME NEW s, NEW t, NEW vs, NEW ld \in SUBSET Documents, NEW df, NEW w, NEW ex, DiffsFit(s, vs, ld, df, w, ex),
           \A ask \in ToSet(s) : ask.document # NoDocument => ask \in ToSet(t),
           \A ask \in ToSet(t) : ask.document # NoDocument => ask \in ToSet(s),
           NEW rest, ex \subseteq rest, NEW edited, \A d \in Documents \ rest : edited[d] = w[d]
    PROVE  DiffsFit(t, vs, ld, df, edited, rest)
<1>1. \A d \in Documents : \A ask : IsLatestAsk(vs, ask, d) => (ask \in ToSet(s) <=> ask \in ToSet(t))
  BY ReviewAssumption DEF IsLatestAsk
<1>2. \A d \in ld : \E ask \in ToSet(t) : IsLatestAsk(vs, ask, d)
  BY <1>1 DEF DiffsFit
<1>3. ASSUME NEW d \in Documents, d \notin rest PROVE Follows(ToSet(t), vs, df, edited, d)
  <2>1. Follows(ToSet(s), vs, df, w, d) /\ edited[d] = w[d]
    BY <1>3 DEF DiffsFit
  <2> QED
    BY <1>1, <2>1 DEF Follows
<1> QED
  BY <1>2, <1>3 DEF DiffsFit

\* A difference is read.
LEMMA ReadKeeps ==
    ASSUME NEW s, NEW vs, NEW fl, AsksFit(s, vs, fl), NEW i \in DOMAIN s, NEW ask \in Asks,
           ask.document = s[i].document, ask.version = s[i].version, ask.first = s[i].first,
           NEW w, ask.document # NoDocument => ask.read = w[ask.document],
           NEW ld \in SUBSET Documents, NEW df, NEW ex, DiffsFit(s, vs, ld, df, w, ex)
    PROVE  AsksFit([s EXCEPT ![i] = ask], vs, fl) /\ DiffsFit([s EXCEPT ![i] = ask], vs, ld, df, w, ex)
<1> DEFINE t == [s EXCEPT ![i] = ask]
<1>1. s \in Seq(Asks) /\ DOMAIN s = 1..Len(s)
  BY DEF AsksFit
<1>2. t \in Seq(Asks) /\ DOMAIN t = DOMAIN s /\ t[i] = ask /\ \A j \in DOMAIN s : j # i => t[j] = s[j]
  BY <1>1
<1> HIDE DEF t
<1>3. \A j \in DOMAIN s : t[j].document = s[j].document /\ t[j].version = s[j].version /\ t[j].first = s[j].first
  BY <1>2
<1>4. AsksFit(t, vs, fl)
  BY <1>2, <1>3 DEF AsksFit
<1>5. \A d \in Documents : \A j \in DOMAIN s : IsLatestAsk(vs, t[j], d) <=> IsLatestAsk(vs, s[j], d)
  BY <1>3 DEF IsLatestAsk
<1>6. \A d \in ld : \E other \in ToSet(t) : IsLatestAsk(vs, other, d)
  <2> SUFFICES ASSUME NEW d \in ld PROVE \E j \in DOMAIN t : IsLatestAsk(vs, t[j], d)
    BY ToSetIs
  <2>1. PICK j \in DOMAIN s : IsLatestAsk(vs, s[j], d)
    BY ToSetIs DEF DiffsFit
  <2> QED
    BY <1>2, <1>5, <2>1
<1>7. ASSUME NEW d \in Documents, d \notin ex PROVE Follows(ToSet(t), vs, df, w, d)
  <2>1. Follows(ToSet(s), vs, df, w, d)
    BY <1>7 DEF DiffsFit
  <2>2. \A other \in ToSet(t) : IsLatestAsk(vs, other, d) => other.read \in {Waiting, w[d]}
    <3> SUFFICES ASSUME NEW j \in DOMAIN s, IsLatestAsk(vs, t[j], d) PROVE t[j].read \in {Waiting, w[d]}
      BY <1>2, ToSetIs
    <3>1. IsLatestAsk(vs, s[j], d) /\ s[j] \in ToSet(s)
      BY <1>5, ToSetIs
    <3>2. CASE j = i
      BY <1>2, <3>2, ReviewAssumption DEF IsLatestAsk
    <3>3. CASE j # i
      BY <1>2, <2>1, <3>1, <3>3 DEF Follows
    <3> QED
      BY <3>2, <3>3
  <2>3. (\E other \in ToSet(s) : IsLatestAsk(vs, other, d)) => \E other \in ToSet(t) : IsLatestAsk(vs, other, d)
    BY <1>2, <1>5, ToSetIs
  <2> QED
    BY <2>1, <2>2, <2>3 DEF Follows
<1> QED
  BY <1>4, <1>6, <1>7 DEF DiffsFit, t

\* A call for a difference is over: the latest one is shown, or its file excepted; any other one
\* changes nothing.
LEMMA OverKeeps ==
    ASSUME NEW s, NEW vs, NEW fl, AsksFit(s, vs, fl), NEW i \in DOMAIN s, s[i].document # NoDocument,
           NEW w, NEW ld \in SUBSET Documents, NEW df, NEW ex, DiffsFit(s, vs, ld, df, w, ex),
           NEW df2, NEW ld2 \in SUBSET Documents, NEW ex2,
           \A d \in Documents : d # s[i].document => df2[d] = df[d] /\ (d \in ex => d \in ex2) /\ (d \in ld2 => d \in ld),
           IF IsLatestAsk(vs, s[i], s[i].document)
           THEN s[i].document \notin ld2 /\ (s[i].document \in ex2 \/ df2[s[i].document] \in {NoDiff, w[s[i].document]})
           ELSE df2[s[i].document] = df[s[i].document] /\ ld2 \subseteq ld /\ ex \subseteq ex2
    PROVE  DiffsFit(RemoveAt(s, i), vs, ld2, df2, w, ex2)
<1> DEFINE t == RemoveAt(s, i)
           mine == s[i].document
<1>1. /\ ToSet(t) \subseteq ToSet(s) /\ ToSet(s) \subseteq ToSet(t) \cup {s[i]}
      /\ \A ask \in ToSet(t) : ask.document = mine => ask.version # s[i].version
  <2>1. /\ ToSet(t) \subseteq ToSet(s) /\ ToSet(s) \subseteq ToSet(t) \cup {s[i]}
        /\ \A ask \in ToSet(t) : ask.document = s[i].document =>
              IF ask.document = NoDocument THEN ask.first # s[i].first ELSE ask.version # s[i].version
    BY RemovedFit
  <2> QED
    BY <2>1
<1> HIDE DEF t
<1>2. \A d \in Documents : d # mine => ~IsLatestAsk(vs, s[i], d)
  BY DEF IsLatestAsk
<1>3. IsLatestAsk(vs, s[i], mine) => \A ask \in ToSet(t) : ~IsLatestAsk(vs, ask, mine)
  BY <1>1 DEF IsLatestAsk
<1>4. ASSUME NEW d \in Documents, d # mine \/ ~IsLatestAsk(vs, s[i], mine)
      PROVE  \A ask \in ToSet(s) : IsLatestAsk(vs, ask, d) => ask \in ToSet(t)
  BY <1>1, <1>2, <1>4
<1>5. \A d \in ld2 : \E ask \in ToSet(t) : IsLatestAsk(vs, ask, d)
  <2> SUFFICES ASSUME NEW d \in ld2 PROVE \E ask \in ToSet(t) : IsLatestAsk(vs, ask, d)
    OBVIOUS
  <2>1. d \in ld /\ (d # mine \/ ~IsLatestAsk(vs, s[i], mine))
    OBVIOUS
  <2> QED
    BY <1>4, <2>1 DEF DiffsFit
<1>6. ASSUME NEW d \in Documents, d \notin ex2 PROVE Follows(ToSet(t), vs, df2, w, d)
  <2>1. CASE d = mine /\ IsLatestAsk(vs, s[i], mine)
    BY <1>3, <1>6, <2>1 DEF Follows
  <2>2. CASE d # mine \/ ~IsLatestAsk(vs, s[i], mine)
    <3>1. d \notin ex /\ df2[d] = df[d]
      BY <1>6, <2>2
    <3>2. Follows(ToSet(s), vs, df, w, d)
      BY <3>1 DEF DiffsFit
    <3> QED
      BY <1>1, <1>4, <2>2, <3>1, <3>2 DEF Follows
  <2> QED
    BY <2>1, <2>2
<1> QED
  BY <1>5, <1>6 DEF DiffsFit, t

-----------------------------------------------------------------------------
(* The invariant of the list and the differences *)

LEMMA ReviewInvImplies == ReviewInv => ReviewIsCurrent
<1> SUFFICES ASSUME ReviewInv PROVE ReviewIsCurrent
  OBVIOUS
<1>1. ReviewStateOK /\ QueuedIsScheduled /\ AsksFit(calls, diffRequestVersions, inFlight)
      /\ DiffsFit(calls, diffRequestVersions, loadingDiffs, diffs, work, passed \cup ToSet(news) \cup pendingDiffs)
  BY DEF ReviewInv
<1>2. calls \in Seq(Asks)
  BY <1>1 DEF AsksFit
<1>3. Cardinality({i \in DOMAIN calls : calls[i].document = NoDocument}) <= 2
  <2> DEFINE S == {i \in DOMAIN calls : calls[i].document = NoDocument}
             f == [i \in S |-> calls[i].first]
  <2>1. \A i \in DOMAIN calls : calls[i].first \in BOOLEAN
    <3> SUFFICES ASSUME NEW i \in DOMAIN calls PROVE calls[i].first \in BOOLEAN
      OBVIOUS
    <3>1. calls[i] \in Asks
      BY <1>2
    <3> QED
      BY <3>1 DEF Asks
  <2>2. f \in [S -> BOOLEAN]
    BY <2>1
  <2>3. \A i, j \in S : f[i] = f[j] => i = j
    BY <1>1 DEF AsksFit
  <2> HIDE DEF S, f
  <2>4. DOMAIN f = S
    BY <2>2
  <2>5. f \in Injection(S, BOOLEAN)
    BY <2>2, <2>3, <2>4 DEF Injection, IsInjective
  <2>6. IsFiniteSet(BOOLEAN) /\ Cardinality(BOOLEAN) = 2
    <3>1. BOOLEAN = {TRUE} \cup {FALSE}
      OBVIOUS
    <3>2. IsFiniteSet({TRUE}) /\ Cardinality({TRUE}) = 1
      BY FS_Singleton, Zenon
    <3>3. IsFiniteSet({TRUE} \cup {FALSE}) /\ Cardinality({TRUE} \cup {FALSE}) = 1 + 1
      BY <3>2, FS_AddElement
    <3>4. 1 + 1 = 2
      OBVIOUS
    <3> QED
      BY <3>1, <3>3, <3>4, Zenon
  <2>7. Cardinality(S) <= 2
    BY <2>5, <2>6, FS_Injection
  <2> QED
    BY <2>7 DEF S
<1>4. ReviewTypeOK
  <2>1. \A i, j \in DOMAIN calls :
            (i # j /\ calls[i].document = calls[j].document /\ calls[i].document # NoDocument)
            => calls[i].version # calls[j].version
    BY <1>1 DEF AsksFit
  <2> QED
    BY <1>1, <1>3, <2>1 DEF ReviewTypeOK, ReviewStateOK
<1>5. DiffsAreCurrent
  <2> SUFFICES ASSUME news = <<>>, ~diffTimer, \A i \in DOMAIN calls : calls[i].document = NoDocument
               PROVE  /\ \A d \in Documents \ passed : diffs[d] \in {NoDiff, work[d]}
                      /\ loadingDiffs = {}
    BY DEF DiffsAreCurrent
  <2>1. pendingDiffs = {} /\ ToSet(news) = {}
    <3>1. pendingDiffs = {}
      BY <1>1 DEF ReviewStateOK
    <3>2. ToSet(news) = {}
      BY ToSetIs
    <3> QED
      BY <3>1, <3>2
  <2>2. \A ask \in ToSet(calls) : ask.document = NoDocument
    BY ToSetIs
  <2>3. \A d \in Documents : \A ask \in ToSet(calls) : ~IsLatestAsk(diffRequestVersions, ask, d)
    BY <2>2, ReviewAssumption DEF IsLatestAsk
  <2>4. loadingDiffs \subseteq Documents
    BY <1>1 DEF ReviewStateOK
  <2>5. loadingDiffs = {}
    BY <1>1, <2>3, <2>4 DEF DiffsFit
  <2>6. \A d \in Documents \ passed : diffs[d] \in {NoDiff, work[d]}
    BY <1>1, <2>1, <2>3 DEF DiffsFit, Follows
  <2> QED
    BY <2>5, <2>6
<1> QED
  BY <1>1, <1>4, <1>5 DEF ReviewIsCurrent

LEMMA ListCallFits ==
    \A first \in BOOLEAN : ListCall(first) \in Asks /\ ListCall(first).document = NoDocument
                           /\ ListCall(first).first = first /\ ListCall(first).read = Waiting
<1>1. NoReview.seen \in [Documents -> Nat]
  BY DEF NoReview
<1> QED
  BY <1>1 DEF ListCall, Asks, Waiting, Reasons

LEMMA DiffCallFits ==
    ASSUME NEW d \in Documents, diffRequestVersions \in [Documents -> Nat]
    PROVE  /\ DiffCall(d) \in Asks /\ DiffCall(d).document = d /\ DiffCall(d).read = Waiting
           /\ DiffCall(d).version = diffRequestVersions[d] + 1
<1> DEFINE ask == ListCall(FALSE)
<1>1. ask \in Asks /\ ask.read = Waiting
  BY ListCallFits
<1>2. DiffCall(d) = [ask EXCEPT !.document = d, !.version = diffRequestVersions[d] + 1]
  BY DEF DiffCall
<1>3. diffRequestVersions[d] + 1 \in Nat
  OBVIOUS
<1> HIDE DEF ask
<1> QED
  BY <1>1, <1>2, <1>3 DEF Asks

LEMMA ReviewStarts == ReviewInit => ReviewInv
<1> SUFFICES ASSUME ReviewInit PROVE ReviewInv
  OBVIOUS
<1>1. calls = <<ListCall(TRUE)>> /\ ListCall(TRUE) \in Asks /\ ListCall(TRUE).document = NoDocument
      /\ ListCall(TRUE).first = TRUE
  BY ListCallFits DEF ReviewInit
<1>2. calls \in Seq(Asks) /\ DOMAIN calls = {1} /\ calls[1] = ListCall(TRUE)
  <2> DEFINE ask == ListCall(TRUE)
  <2>1. calls = <<ask>> /\ ask \in Asks
    BY <1>1
  <2> HIDE DEF ask
  <2>2. calls \in Seq(Asks) /\ DOMAIN calls = {1} /\ calls[1] = ask
    BY <2>1
  <2> QED
    BY <2>2 DEF ask
<1>3. AsksFit(calls, diffRequestVersions, inFlight)
  BY <1>1, <1>2 DEF AsksFit
<1>4. ReviewStateOK
  <2>1. NoReview.seen \in [Documents -> Nat] /\ NoReview.reason = "not asked"
    BY DEF NoReview
  <2>2. /\ work = [d \in Documents |-> 0] /\ news = <<>> /\ gitReview = NoReview
        /\ queued = FALSE /\ gitTimer = FALSE /\ inFlight = FALSE
        /\ diffs = [d \in Documents |-> NoDiff] /\ loadingDiffs = {}
        /\ diffRequestVersions = [d \in Documents |-> 0] /\ pendingDiffs = {} /\ selected = NoDocument
        /\ passed = {}
    BY DEF ReviewInit
  <2>3. work \in [Documents -> Nat] /\ news \in Seq(Documents) /\ diffRequestVersions \in [Documents -> Nat]
    BY <2>2
  <2>4. diffs \in [Documents -> Nat \cup {NoDiff}]
    BY <2>2
  <2>5. queued \in BOOLEAN /\ gitTimer \in BOOLEAN /\ inFlight \in BOOLEAN
    BY <2>2
  <2>6. gitReview.seen \in [Documents -> Nat] /\ gitReview.reason \in Reasons \cup {"not asked"}
    BY <2>1, <2>2
  <2> QED
    BY <2>2, <2>3, <2>4, <2>5, <2>6 DEF ReviewStateOK
<1>5. QueuedIsScheduled
  BY DEF ReviewInit, QueuedIsScheduled
<1>6. \A d \in Documents : \A ask \in ToSet(calls) : ~IsLatestAsk(diffRequestVersions, ask, d)
  BY <1>1, <1>2, ToSetIs, ReviewAssumption DEF IsLatestAsk
<1>7. DiffsFit(calls, diffRequestVersions, loadingDiffs, diffs, work, passed \cup ToSet(news) \cup pendingDiffs)
  <2>1. loadingDiffs = {} /\ \A d \in Documents : diffs[d] = NoDiff
    BY DEF ReviewInit
  <2> QED
    BY <1>6, <2>1 DEF DiffsFit, Follows
<1> QED
  BY <1>3, <1>4, <1>5, <1>7 DEF ReviewInv

LEMMA ReviewStutters == ReviewInv /\ UNCHANGED reviewVars => ReviewInv'
<1> SUFFICES ASSUME ReviewInv, UNCHANGED reviewVars PROVE ReviewInv'
  OBVIOUS
<1>1. /\ work' = work /\ news' = news /\ gitReview' = gitReview /\ queued' = queued /\ gitTimer' = gitTimer
      /\ inFlight' = inFlight /\ diffs' = diffs /\ loadingDiffs' = loadingDiffs
      /\ diffRequestVersions' = diffRequestVersions /\ pendingDiffs' = pendingDiffs /\ diffTimer' = diffTimer
      /\ selected' = selected /\ calls' = calls /\ passed' = passed
  BY DEF reviewVars, tree, refresh, differences
<1> QED
  BY <1>1 DEF ReviewInv, ReviewStateOK, QueuedIsScheduled

\* The calls of LoadHeadDiffs and LoadHeadDiff.
LEMMA LoadsAreNew ==
    ASSUME diffRequestVersions \in [Documents -> Nat], NEW ds \in SUBSET Documents, NEW others \in Seq(Asks)
    PROVE  /\ LoadHeadDiffs(ds, others) =>
                 \E added : /\ NewAsks(added, diffRequestVersions, ds) /\ calls' = others \o added
                            /\ diffRequestVersions' = Bumped(diffRequestVersions, ds)
                            /\ loadingDiffs' = loadingDiffs \cup ds
           /\ \A d \in Documents : LoadHeadDiff(d, others) =>
                 \E added : /\ NewAsks(added, diffRequestVersions, {d}) /\ calls' = others \o added
                            /\ diffRequestVersions' = Bumped(diffRequestVersions, {d})
                            /\ loadingDiffs' = loadingDiffs \cup {d}
<1>1. ASSUME LoadHeadDiffs(ds, others)
      PROVE  \E added : /\ NewAsks(added, diffRequestVersions, ds) /\ calls' = others \o added
                        /\ diffRequestVersions' = Bumped(diffRequestVersions, ds)
                        /\ loadingDiffs' = loadingDiffs \cup ds
  <2> DEFINE Ask(d) == DiffCall(d)
             S == {DiffCall(d) : d \in ds}
             added == SetToSeq(S)
  <2>1. IsFiniteSet(S)
    <3> DEFINE f == [d \in ds |-> DiffCall(d)]
    <3>1. IsFiniteSet(ds)
      BY ReviewAssumption, FS_Subset
    <3>2. f \in Surjection(ds, S)
      BY DEF Surjection
    <3> HIDE DEF f, S
    <3> QED
      BY <3>1, <3>2, FS_Surjection
  <2>2. added \in Seq(S) /\ ToSet(added) = S /\ \A i, j \in DOMAIN added : added[i] = added[j] => i = j
    <3> HIDE DEF S
    <3> QED
      BY <2>1, SetToSeqIs
  <2> HIDE DEF added
  <2>3. \A d \in ds : /\ DiffCall(d) \in Asks /\ DiffCall(d).document = d /\ DiffCall(d).read = Waiting
                      /\ DiffCall(d).version = diffRequestVersions[d] + 1
    BY DiffCallFits
  <2>4. \A i \in DOMAIN added : \E d \in ds : added[i] = DiffCall(d)
    BY <2>2
  <2>5. added \in Seq(Asks)
    <3>1. S \subseteq Asks
      BY <2>3
    <3> HIDE DEF S
    <3> QED
      BY <2>2, <3>1
  <2>6. \A i \in DOMAIN added : added[i] = DiffCall(added[i].document) /\ added[i].document \in ds
    BY <2>3, <2>4
  <2>7. \A d \in ds : \E i \in DOMAIN added : added[i].document = d
    <3> SUFFICES ASSUME NEW d \in ds PROVE \E i \in DOMAIN added : added[i].document = d
      OBVIOUS
    <3>1. DiffCall(d) \in ToSet(added)
      BY <2>2
    <3> QED
      BY <2>3, <3>1, ToSetIs
  <2>8. \A i, j \in DOMAIN added : added[i].document = added[j].document => i = j
    BY <2>2, <2>6
  <2>9. \A i \in DOMAIN added : added[i].version = diffRequestVersions[added[i].document] + 1 /\ added[i].read = Waiting
    BY <2>3, <2>6
  <2>10. NewAsks(added, diffRequestVersions, ds)
    BY <2>5, <2>6, <2>7, <2>8, <2>9 DEF NewAsks
  <2> QED
    BY <1>1, <2>10 DEF LoadHeadDiffs, Bumped, added
<1>2. ASSUME NEW d \in Documents, LoadHeadDiff(d, others)
      PROVE  \E added : /\ NewAsks(added, diffRequestVersions, {d}) /\ calls' = others \o added
                        /\ diffRequestVersions' = Bumped(diffRequestVersions, {d})
                        /\ loadingDiffs' = loadingDiffs \cup {d}
  <2> DEFINE ask == DiffCall(d)
  <2>1. ask \in Asks /\ ask.document = d /\ ask.read = Waiting /\ ask.version = diffRequestVersions[d] + 1
    BY DiffCallFits
  <2>2. calls' = Append(others, ask) /\ loadingDiffs' = loadingDiffs \cup {d}
        /\ diffRequestVersions' = [diffRequestVersions EXCEPT ![d] = @ + 1]
    BY <1>2 DEF LoadHeadDiff
  <2> HIDE DEF ask
  <2>3. <<ask>> \in Seq(Asks) /\ DOMAIN <<ask>> = {1} /\ <<ask>>[1] = ask
    BY <2>1
  <2>4. NewAsks(<<ask>>, diffRequestVersions, {d})
    BY <2>1, <2>3 DEF NewAsks
  <2>5. calls' = others \o <<ask>>
    BY <2>1, <2>2, AppendIsConcat
  <2>6. diffRequestVersions' = Bumped(diffRequestVersions, {d})
    <3> DEFINE vs == diffRequestVersions
               new == Bumped(vs, {d})
    <3>1. vs \in [Documents -> Nat]
      OBVIOUS
    <3>2. new = [x \in Documents |-> vs[x] + (IF x \in {d} THEN 1 ELSE 0)]
      BY DEF Bumped
    <3> HIDE DEF vs, new
    <3>3. \A x \in Documents : new[x] = [vs EXCEPT ![d] = @ + 1][x]
      BY <3>1, <3>2
    <3>4. new = [vs EXCEPT ![d] = @ + 1]
      BY <3>1, <3>2, <3>3
    <3> QED
      BY <2>2, <3>4 DEF vs, new
  <2> QED
    BY <2>2, <2>4, <2>5, <2>6
<1> QED
  BY <1>1, <1>2

\* One more refresh of the list, when none is in flight.
LEMMA ListAdded ==
    ASSUME NEW s, NEW vs, AsksFit(s, vs, FALSE)
    PROVE  LET t == Append(s, ListCall(FALSE))
           IN  /\ AsksFit(t, vs, TRUE) /\ ToSet(t) = ToSet(s) \cup {ListCall(FALSE)}
<1> DEFINE ask == ListCall(FALSE)
           t == Append(s, ask)
<1>1. ask \in Asks /\ ask.document = NoDocument /\ ask.first = FALSE
  BY ListCallFits
<1>2. s \in Seq(Asks) /\ DOMAIN s = 1..Len(s) /\ Len(s) \in Nat
  BY DEF AsksFit
<1> HIDE DEF ask
<1>3. /\ t \in Seq(Asks) /\ DOMAIN t = 1..(Len(s) + 1) /\ t[Len(s) + 1] = ask
      /\ \A i \in 1..Len(s) : t[i] = s[i]
  BY <1>1, <1>2
<1>4. \A i \in 1..(Len(s) + 1) : i \in 1..Len(s) \/ i = Len(s) + 1
  BY <1>2
<1> HIDE DEF t
<1>5. \A i \in DOMAIN s : s[i].document = NoDocument => s[i].first
  BY DEF AsksFit
<1>6. \A i, j \in DOMAIN t : t[i].document = t[j].document /\ i # j =>
          IF t[i].document = NoDocument THEN t[i].first # t[j].first ELSE t[i].version # t[j].version
  <2> SUFFICES ASSUME NEW i \in DOMAIN t, NEW j \in DOMAIN t, t[i].document = t[j].document, i # j
               PROVE  IF t[i].document = NoDocument THEN t[i].first # t[j].first ELSE t[i].version # t[j].version
    OBVIOUS
  <2>1. CASE i \in 1..Len(s) /\ j \in 1..Len(s)
    BY <1>2, <1>3, <2>1 DEF AsksFit
  <2>2. CASE i = Len(s) + 1 /\ j \in 1..Len(s)
    <3>1. t[i] = ask /\ t[j] = s[j] /\ j \in DOMAIN s
      BY <1>2, <1>3, <2>2
    <3>2. t[i].document = NoDocument /\ t[i].first = FALSE /\ t[j].first
      BY <1>1, <1>5, <3>1
    <3> QED
      BY <3>2
  <2>3. CASE i \in 1..Len(s) /\ j = Len(s) + 1
    <3>1. t[j] = ask /\ t[i] = s[i] /\ i \in DOMAIN s
      BY <1>2, <1>3, <2>3
    <3>2. t[i].document = NoDocument /\ t[j].first = FALSE /\ t[i].first
      BY <1>1, <1>5, <3>1
    <3> QED
      BY <3>2
  <2> QED
    BY <1>3, <1>4, <2>1, <2>2, <2>3
<1>7. \A i \in DOMAIN t : IF t[i].document = NoDocument THEN t[i].first \/ TRUE ELSE t[i].version <= vs[t[i].document]
  <2> SUFFICES ASSUME NEW i \in DOMAIN t, t[i].document # NoDocument PROVE t[i].version <= vs[t[i].document]
    OBVIOUS
  <2>1. i \in DOMAIN s /\ t[i] = s[i]
    BY <1>1, <1>2, <1>3, <1>4
  <2> QED
    BY <2>1 DEF AsksFit
<1>8. AsksFit(t, vs, TRUE)
  BY <1>3, <1>6, <1>7 DEF AsksFit
<1>9. ToSet(t) = ToSet(s) \cup {ask}
  <2>1. Len(s) + 1 \in DOMAIN t /\ \A i \in DOMAIN s : i \in DOMAIN t /\ t[i] = s[i]
    BY <1>2, <1>3
  <2>2. \A i \in DOMAIN t : t[i] = ask \/ (i \in DOMAIN s /\ t[i] = s[i])
    BY <1>2, <1>3, <1>4
  <2> QED
    BY <1>3, <2>1, <2>2, ToSetIs
<1> QED
  BY <1>8, <1>9 DEF t, ask

\* A refresh of the list is over.
LEMMA RefreshOver ==
    ASSUME ReviewInv, NEW i \in DOMAIN calls, calls[i].document = NoDocument, EndRefresh(calls[i])
    PROVE  /\ AsksFit(RemoveAt(calls, i), diffRequestVersions, inFlight')
           /\ queued' \in BOOLEAN /\ gitTimer' \in BOOLEAN /\ inFlight' \in BOOLEAN
           /\ QueuedIsScheduled'
           /\ DiffsFit(RemoveAt(calls, i), diffRequestVersions, loadingDiffs, diffs, work,
                       passed \cup ToSet(news) \cup pendingDiffs)
<1> DEFINE t == RemoveAt(calls, i)
<1>1. /\ AsksFit(calls, diffRequestVersions, inFlight) /\ ReviewStateOK /\ QueuedIsScheduled
      /\ DiffsFit(calls, diffRequestVersions, loadingDiffs, diffs, work, passed \cup ToSet(news) \cup pendingDiffs)
  BY DEF ReviewInv
<1>2. /\ AsksFit(t, diffRequestVersions, inFlight)
      /\ ToSet(t) \subseteq ToSet(calls) /\ ToSet(calls) \subseteq ToSet(t) \cup {calls[i]}
      /\ \A ask \in ToSet(t) : ask.document = calls[i].document =>
            IF ask.document = NoDocument THEN ask.first # calls[i].first ELSE ask.version # calls[i].version
  BY <1>1, RemovedFit
<1> HIDE DEF t
<1>3. queued \in BOOLEAN /\ gitTimer \in BOOLEAN /\ inFlight \in BOOLEAN
  BY <1>1 DEF ReviewStateOK
<1>4. DiffsFit(t, diffRequestVersions, loadingDiffs, diffs, work, passed \cup ToSet(news) \cup pendingDiffs)
  <2>1. loadingDiffs \in SUBSET Documents
    BY <1>1 DEF ReviewStateOK
  <2>2. /\ \A ask \in ToSet(calls) : ask.document # NoDocument => ask \in ToSet(t)
        /\ \A ask \in ToSet(t) : ask.document # NoDocument => ask \in ToSet(calls)
    BY <1>2
  <2> QED
    BY <1>1, <2>1, <2>2, OthersKeep
<1>5. CASE calls[i].first
  <2>1. queued' = queued /\ gitTimer' = gitTimer /\ inFlight' = inFlight
    BY <1>5 DEF EndRefresh
  <2> QED
    BY <1>1, <1>2, <1>3, <1>4, <2>1 DEF t, QueuedIsScheduled
<1>6. CASE ~calls[i].first
  <2>1. inFlight' = FALSE /\ queued' = queued /\ gitTimer' = (gitTimer \/ queued)
    BY <1>6 DEF EndRefresh
  <2>2. calls[i].first = FALSE
    <3>1. calls[i] \in Asks
      BY <1>1 DEF AsksFit
    <3>2. calls[i].first \in BOOLEAN
      BY <3>1 DEF Asks
    <3> QED
      BY <1>6, <3>2
  <2>3. \A j \in DOMAIN t : t[j].document = NoDocument => t[j].first
    <3> SUFFICES ASSUME NEW j \in DOMAIN t, t[j].document = NoDocument PROVE t[j].first
      OBVIOUS
    <3>1. t[j] \in Asks /\ t[j] \in ToSet(t)
      BY <1>2, ToSetIs DEF AsksFit
    <3>2. t[j].first \in BOOLEAN
      BY <3>1 DEF Asks
    <3>3. t[j].first # FALSE
      BY <1>2, <2>2, <3>1
    <3> QED
      BY <3>2, <3>3
  <2>4. AsksFit(t, diffRequestVersions, FALSE)
    BY <1>2, <2>3 DEF AsksFit
  <2>5. QueuedIsScheduled'
    BY <2>1 DEF QueuedIsScheduled
  <2>6. AsksFit(t, diffRequestVersions, inFlight')
    BY <2>1, <2>4
  <2>7. queued' \in BOOLEAN /\ gitTimer' \in BOOLEAN /\ inFlight' \in BOOLEAN
    BY <1>3, <2>1
  <2> QED
    BY <1>4, <2>5, <2>6, <2>7 DEF t
<1> QED
  BY <1>5, <1>6

\* The differences of some files are asked for, with the other calls as they were or one of them over.
LEMMA LoadStep ==
    ASSUME ReviewInv, NEW others, NEW ds \in SUBSET Documents,
           LoadHeadDiffs(ds, others) \/ \E d \in Documents : ds = {d} /\ LoadHeadDiff(d, others),
           NEW fl, AsksFit(others, diffRequestVersions, fl),
           NEW ex, DiffsFit(others, diffRequestVersions, loadingDiffs, diffs, work, ex),
           NEW rest, ex \subseteq rest \cup ds
    PROVE  /\ AsksFit(calls', diffRequestVersions', fl)
           /\ DiffsFit(calls', diffRequestVersions', loadingDiffs', diffs, work, rest)
           /\ diffRequestVersions' \in [Documents -> Nat] /\ loadingDiffs' \in SUBSET Documents
<1>1. diffRequestVersions \in [Documents -> Nat] /\ loadingDiffs \in SUBSET Documents
  BY DEF ReviewInv, ReviewStateOK
<1>2. others \in Seq(Asks)
  BY DEF AsksFit
<1>3. \E added : /\ NewAsks(added, diffRequestVersions, ds) /\ calls' = others \o added
                 /\ diffRequestVersions' = Bumped(diffRequestVersions, ds)
                 /\ loadingDiffs' = loadingDiffs \cup ds
  <2>1. CASE LoadHeadDiffs(ds, others)
    BY <1>1, <1>2, <2>1, LoadsAreNew
  <2>2. CASE \E d \in Documents : ds = {d} /\ LoadHeadDiff(d, others)
    <3>1. PICK d \in Documents : ds = {d} /\ LoadHeadDiff(d, others)
      BY <2>2
    <3>2. \E added : /\ NewAsks(added, diffRequestVersions, {d}) /\ calls' = others \o added
                     /\ diffRequestVersions' = Bumped(diffRequestVersions, {d})
                     /\ loadingDiffs' = loadingDiffs \cup {d}
      BY <1>1, <1>2, <3>1, LoadsAreNew
    <3> QED
      BY <3>1, <3>2
  <2> QED
    BY <2>1, <2>2
<1>4. PICK added : /\ NewAsks(added, diffRequestVersions, ds) /\ calls' = others \o added
                   /\ diffRequestVersions' = Bumped(diffRequestVersions, ds)
                   /\ loadingDiffs' = loadingDiffs \cup ds
  BY <1>3
<1>5. /\ AsksFit(others \o added, Bumped(diffRequestVersions, ds), fl)
      /\ DiffsFit(others \o added, Bumped(diffRequestVersions, ds), loadingDiffs \cup ds, diffs, work, rest)
  BY <1>1, <1>4, LoadKeeps
<1>6. Bumped(diffRequestVersions, ds) \in [Documents -> Nat]
  BY <1>1 DEF Bumped
<1> QED
  BY <1>1, <1>4, <1>5, <1>6

-----------------------------------------------------------------------------
(* The steps of the page *)

\* What every step needs of the invariant.
LEMMA ReviewFacts ==
    ASSUME ReviewInv
    PROVE  /\ ReviewStateOK /\ QueuedIsScheduled /\ AsksFit(calls, diffRequestVersions, inFlight)
           /\ DiffsFit(calls, diffRequestVersions, loadingDiffs, diffs, work, passed \cup ToSet(news) \cup pendingDiffs)
           /\ work \in [Documents -> Nat] /\ news \in Seq(Documents) /\ passed \in SUBSET Documents
           /\ gitReview.seen \in [Documents -> Nat] /\ gitReview.reason \in Reasons \cup {"not asked"}
           /\ queued \in BOOLEAN /\ gitTimer \in BOOLEAN /\ inFlight \in BOOLEAN
           /\ diffs \in [Documents -> Nat \cup {NoDiff}] /\ diffRequestVersions \in [Documents -> Nat]
           /\ loadingDiffs \in SUBSET Documents /\ pendingDiffs \in SUBSET Documents
           /\ selected \in Documents \cup {NoDocument}
           /\ (pendingDiffs # {} => diffTimer)
  BY DEF ReviewInv, ReviewStateOK

\* Steps that neither ask nor answer.
LEMMA NothingAsked ==
    ASSUME ReviewInv, UNCHANGED <<gitReview, diffs, loadingDiffs, diffRequestVersions, calls>>,
           QueuedIsScheduled', queued' \in BOOLEAN, gitTimer' \in BOOLEAN, inFlight' = inFlight,
           work' \in [Documents -> Nat], news' \in Seq(Documents), passed' \in SUBSET Documents,
           pendingDiffs' \in SUBSET Documents, selected' \in Documents \cup {NoDocument},
           pendingDiffs' # {} => diffTimer',
           passed \cup ToSet(news) \cup pendingDiffs \subseteq passed' \cup ToSet(news') \cup pendingDiffs',
           \A d \in Documents \ (passed' \cup ToSet(news') \cup pendingDiffs') : work'[d] = work[d]
    PROVE  ReviewInv'
<1>1. ReviewStateOK'
  BY ReviewFacts DEF ReviewStateOK
<1>2. DiffsFit(calls, diffRequestVersions, loadingDiffs, diffs, work', passed' \cup ToSet(news') \cup pendingDiffs')
  <2> DEFINE ex == passed \cup ToSet(news) \cup pendingDiffs
             rest == passed' \cup ToSet(news') \cup pendingDiffs'
  <2>1. DiffsFit(calls, diffRequestVersions, loadingDiffs, diffs, work, ex) /\ loadingDiffs \in SUBSET Documents
    BY ReviewFacts
  <2>2. ex \subseteq rest /\ \A d \in Documents \ rest : work'[d] = work[d]
    OBVIOUS
  <2> HIDE DEF ex, rest
  <2>3. DiffsFit(calls, diffRequestVersions, loadingDiffs, diffs, work', rest)
    BY <2>1, <2>2, OthersKeep
  <2> QED
    BY <2>3 DEF rest
<1>3. AsksFit(calls', diffRequestVersions', inFlight')
  BY ReviewFacts
<1> QED
  BY <1>1, <1>2, <1>3 DEF ReviewInv

LEMMA AppendedNews ==
    ASSUME news \in Seq(Documents), NEW d \in Documents
    PROVE  /\ Append(news, d) \in Seq(Documents)
           /\ ToSet(news) \subseteq ToSet(Append(news, d)) /\ d \in ToSet(Append(news, d))
<1> DEFINE more == Append(news, d)
<1>1. /\ more \in Seq(Documents) /\ Len(news) \in Nat /\ DOMAIN news = 1..Len(news)
      /\ DOMAIN more = 1..(Len(news) + 1) /\ more[Len(news) + 1] = d
      /\ \A i \in 1..Len(news) : more[i] = news[i]
  OBVIOUS
<1> HIDE DEF more
<1>2. Len(news) + 1 \in DOMAIN more /\ \A i \in DOMAIN news : i \in DOMAIN more
  BY <1>1
<1>3. d \in ToSet(more) /\ ToSet(news) \subseteq ToSet(more)
  BY <1>1, <1>2, ToSetIs
<1> QED
  BY <1>1, <1>3 DEF more

LEMMA WorkEditStep == ASSUME ReviewInv, NEW d \in Documents, Edit(d) PROVE ReviewInv'
<1>1. /\ UNCHANGED <<gitReview, diffs, loadingDiffs, diffRequestVersions, calls, queued, gitTimer, inFlight,
                     pendingDiffs, diffTimer, selected>>
      /\ work' = [work EXCEPT ![d] = @ + 1]
      /\ IF streaming THEN news' = Append(news, d) /\ passed' = passed
         ELSE passed' = passed \cup {d} /\ news' = news
  BY DEF Edit, refresh, differences
<1>2. work' \in [Documents -> Nat] /\ \A x \in Documents \ {d} : work'[x] = work[x]
  <2>1. work \in [Documents -> Nat] /\ work' = [work EXCEPT ![d] = @ + 1]
    BY <1>1, ReviewFacts
  <2> QED
    BY <2>1
<1>3. /\ news' \in Seq(Documents) /\ passed' \in SUBSET Documents
      /\ passed \cup ToSet(news) \subseteq passed' \cup ToSet(news') /\ d \in passed' \cup ToSet(news')
  BY <1>1, ReviewFacts, AppendedNews
<1>4. QueuedIsScheduled'
  BY <1>1, ReviewFacts DEF QueuedIsScheduled
<1> QED
  BY <1>1, <1>2, <1>3, <1>4, ReviewFacts, NothingAsked

LEMMA StreamBreaksStep == ASSUME ReviewInv, StreamBreaks PROVE ReviewInv'
<1>1. /\ UNCHANGED <<gitReview, diffs, loadingDiffs, diffRequestVersions, calls, queued, gitTimer, inFlight,
                     pendingDiffs, diffTimer, selected, work>>
      /\ passed' = passed \cup ToSet(news) /\ news' = <<>>
  BY DEF StreamBreaks, refresh, differences
<1>2. ToSet(news) \subseteq Documents
  <2>1. news \in Seq(Documents)
    BY ReviewFacts
  <2>2. \A i \in DOMAIN news : news[i] \in Documents
    BY <2>1
  <2> QED
    BY <2>2, ToSetIs
<1>3. QueuedIsScheduled'
  BY <1>1, ReviewFacts DEF QueuedIsScheduled
<1>4. news' \in Seq(Documents) /\ passed' \in SUBSET Documents
  <2>1. passed \in SUBSET Documents
    BY ReviewFacts
  <2> QED
    BY <1>1, <1>2, <2>1
<1> QED
  BY <1>1, <1>3, <1>4, ReviewFacts, NothingAsked

LEMMA StreamReturnsStep == ASSUME ReviewInv, StreamReturns PROVE ReviewInv'
<1>1. /\ UNCHANGED <<gitReview, diffs, loadingDiffs, diffRequestVersions, calls, inFlight, selected, work, news, passed>>
      /\ queued' = TRUE /\ gitTimer' = TRUE
      /\ IF diffEnabled /\ selected # NoDocument THEN pendingDiffs' = pendingDiffs \cup {selected} /\ diffTimer' = TRUE
         ELSE pendingDiffs' = pendingDiffs /\ diffTimer' = diffTimer
  BY DEF StreamReturns, ScheduleGitReviewRefresh, ScheduleDiffRefresh
<1>2. pendingDiffs' \in SUBSET Documents /\ pendingDiffs \subseteq pendingDiffs' /\ (pendingDiffs' # {} => diffTimer')
  BY <1>1, ReviewFacts
<1>3. QueuedIsScheduled'
  BY <1>1 DEF QueuedIsScheduled
<1> QED
  BY <1>1, <1>2, <1>3, ReviewFacts, NothingAsked

LEMMA ReceiveNewsStep == ASSUME ReviewInv, ReceiveNews PROVE ReviewInv'
<1> DEFINE d == Head(news)
<1>1. /\ UNCHANGED <<gitReview, diffs, loadingDiffs, diffRequestVersions, calls, inFlight, selected, work>>
      /\ queued' = TRUE /\ gitTimer' = TRUE /\ news # <<>> /\ news' = Tail(news)
      /\ IF diffEnabled THEN pendingDiffs' = pendingDiffs \cup {d} /\ diffTimer' = TRUE /\ passed' = passed
         ELSE passed' = passed \cup {d} /\ pendingDiffs' = pendingDiffs /\ diffTimer' = diffTimer
  BY DEF ReceiveNews, ScheduleGitReviewRefresh, ScheduleDiffRefresh
<1>2. news \in Seq(Documents) /\ d \in Documents /\ Tail(news) \in Seq(Documents)
  <2>1. news \in Seq(Documents) /\ news # <<>>
    BY <1>1, ReviewFacts
  <2> QED
    BY <2>1
<1>3. ToSet(news) \subseteq ToSet(Tail(news)) \cup {d}
  <2>1. d = news[1] /\ DOMAIN news = 1..Len(news) /\ Len(news) \in Nat
    BY <1>1, <1>2
  <2>2. ASSUME NEW i \in 1..Len(news), i # 1 PROVE news[i] \in ToSet(Tail(news))
    <3>1. i - 1 \in DOMAIN Tail(news) /\ Tail(news)[i - 1] = news[i]
      BY <1>1, <1>2, <2>2
    <3> QED
      BY <3>1, ToSetIs
  <2> QED
    BY <2>1, <2>2, ToSetIs
<1> HIDE DEF d
<1>4. /\ pendingDiffs' \in SUBSET Documents /\ passed' \in SUBSET Documents /\ (pendingDiffs' # {} => diffTimer')
      /\ passed \cup ToSet(news) \cup pendingDiffs \subseteq passed' \cup ToSet(news') \cup pendingDiffs'
  BY <1>1, <1>2, <1>3, ReviewFacts
<1>5. QueuedIsScheduled'
  BY <1>1 DEF QueuedIsScheduled
<1> QED
  BY <1>1, <1>2, <1>4, <1>5, ReviewFacts, NothingAsked

LEMMA PollStep == ASSUME ReviewInv, Poll PROVE ReviewInv'
<1>1. /\ UNCHANGED <<gitReview, diffs, loadingDiffs, diffRequestVersions, calls, inFlight, selected, work, news, passed,
                     pendingDiffs, diffTimer>>
      /\ queued' = TRUE /\ gitTimer' = TRUE
  BY DEF Poll, ScheduleGitReviewRefresh, tree, differences
<1>2. QueuedIsScheduled'
  BY <1>1 DEF QueuedIsScheduled
<1> QED
  BY <1>1, <1>2, ReviewFacts, NothingAsked

LEMMA HideStep == ASSUME ReviewInv, Hide PROVE ReviewInv'
<1>1. /\ UNCHANGED <<gitReview, diffs, loadingDiffs, diffRequestVersions, calls, inFlight, selected, work, news, passed,
                     pendingDiffs, diffTimer, queued, gitTimer>>
  BY DEF Hide, tree, differences, refresh
<1>2. QueuedIsScheduled'
  BY <1>1, ReviewFacts DEF QueuedIsScheduled
<1> QED
  BY <1>1, <1>2, ReviewFacts, NothingAsked

LEMMA RunQueuedStep == ASSUME ReviewInv, RunQueuedGitReviewRefresh PROVE ReviewInv'
<1>1. /\ UNCHANGED <<gitReview, diffs, loadingDiffs, diffRequestVersions, selected, work, news, passed,
                     pendingDiffs, diffTimer>>
      /\ gitTimer' = FALSE
  BY DEF RunQueuedGitReviewRefresh, tree, differences
<1>2. CASE inFlight \/ ~queued
  <2>1. queued' = queued /\ inFlight' = inFlight /\ calls' = calls
    BY <1>2 DEF RunQueuedGitReviewRefresh
  <2>2. QueuedIsScheduled'
    BY <1>2, <2>1 DEF QueuedIsScheduled
  <2> QED
    BY <1>1, <2>1, <2>2, ReviewFacts, NothingAsked
<1>3. CASE ~inFlight /\ queued
  <2>1. queued' = FALSE /\ inFlight' = TRUE /\ calls' = Append(calls, ListCall(FALSE)) /\ inFlight = FALSE
    BY <1>3, ReviewFacts DEF RunQueuedGitReviewRefresh
  <2>2. AsksFit(calls', diffRequestVersions, TRUE) /\ ToSet(calls') = ToSet(calls) \cup {ListCall(FALSE)}
    <3>1. AsksFit(calls, diffRequestVersions, FALSE)
      BY <2>1, ReviewFacts
    <3> QED
      BY <2>1, <3>1, ListAdded
  <2>3. ListCall(FALSE).document = NoDocument
    BY ListCallFits
  <2>4. DiffsFit(calls', diffRequestVersions, loadingDiffs, diffs, work, passed \cup ToSet(news) \cup pendingDiffs)
    BY <2>2, <2>3, ReviewFacts, OthersKeep
  <2>5. QueuedIsScheduled'
    BY <2>1 DEF QueuedIsScheduled
  <2>6. ReviewStateOK'
    BY <1>1, <2>1, ReviewFacts DEF ReviewStateOK
  <2>7. AsksFit(calls', diffRequestVersions', inFlight')
    BY <1>1, <2>1, <2>2
  <2> QED
    BY <1>1, <2>4, <2>5, <2>6, <2>7 DEF ReviewInv
<1> QED
  BY <1>2, <1>3, ReviewFacts

LEMMA RunDiffRefreshStep == ASSUME ReviewInv, RunDiffRefresh PROVE ReviewInv'
<1>1. /\ UNCHANGED <<gitReview, diffs, selected, work, news, passed, queued, gitTimer, inFlight>>
      /\ pendingDiffs' = {} /\ LoadHeadDiffs(pendingDiffs, calls)
  BY DEF RunDiffRefresh, tree, refresh
<1>2. passed \cup ToSet(news) \cup pendingDiffs \subseteq (passed \cup ToSet(news)) \cup pendingDiffs
  OBVIOUS
<1>3. /\ AsksFit(calls', diffRequestVersions', inFlight)
      /\ DiffsFit(calls', diffRequestVersions', loadingDiffs', diffs, work, passed \cup ToSet(news))
      /\ diffRequestVersions' \in [Documents -> Nat] /\ loadingDiffs' \in SUBSET Documents
  <2>1. /\ pendingDiffs \in SUBSET Documents /\ AsksFit(calls, diffRequestVersions, inFlight)
        /\ DiffsFit(calls, diffRequestVersions, loadingDiffs, diffs, work, passed \cup ToSet(news) \cup pendingDiffs)
    BY ReviewFacts
  <2> QED
    BY <1>1, <1>2, <2>1, LoadStep
<1>4. ReviewStateOK'
  BY <1>1, <1>3, ReviewFacts DEF ReviewStateOK
<1>5. QueuedIsScheduled'
  BY <1>1, ReviewFacts DEF QueuedIsScheduled
<1>6. passed' \cup ToSet(news') \cup pendingDiffs' = passed \cup ToSet(news)
  BY <1>1
<1>7. DiffsFit(calls', diffRequestVersions', loadingDiffs', diffs', work', passed' \cup ToSet(news') \cup pendingDiffs')
  BY <1>1, <1>3, <1>6
<1>8. AsksFit(calls', diffRequestVersions', inFlight')
  BY <1>1, <1>3
<1> QED
  BY <1>4, <1>5, <1>7, <1>8 DEF ReviewInv

\* The difference of one file is asked for, or none.
LEMMA OneLoaded ==
    ASSUME ReviewInv,
           UNCHANGED <<gitReview, diffs, work, news, passed, queued, gitTimer, inFlight, pendingDiffs, diffTimer>>,
           selected' \in Documents \cup {NoDocument},
           \/ \E d \in Documents : LoadHeadDiff(d, calls)
           \/ UNCHANGED <<diffRequestVersions, loadingDiffs, calls>>
    PROVE  ReviewInv'
<1>1. QueuedIsScheduled'
  BY ReviewFacts DEF QueuedIsScheduled
<1>2. CASE UNCHANGED <<diffRequestVersions, loadingDiffs, calls>>
  BY <1>1, <1>2, ReviewFacts, NothingAsked
<1>3. CASE \E d \in Documents : LoadHeadDiff(d, calls)
  <2>1. PICK d \in Documents : LoadHeadDiff(d, calls)
    BY <1>3
  <2> DEFINE ex == passed \cup ToSet(news) \cup pendingDiffs
  <2>2. /\ AsksFit(calls, diffRequestVersions, inFlight)
        /\ DiffsFit(calls, diffRequestVersions, loadingDiffs, diffs, work, ex)
    BY ReviewFacts
  <2>3. {d} \in SUBSET Documents /\ ex \subseteq ex \cup {d} /\ \E x \in Documents : {d} = {x} /\ LoadHeadDiff(x, calls)
    BY <2>1
  <2> HIDE DEF ex
  <2>4. /\ AsksFit(calls', diffRequestVersions', inFlight)
        /\ DiffsFit(calls', diffRequestVersions', loadingDiffs', diffs, work, ex)
        /\ diffRequestVersions' \in [Documents -> Nat] /\ loadingDiffs' \in SUBSET Documents
    BY <2>2, <2>3, LoadStep
  <2>5. ReviewStateOK'
    BY <2>4, ReviewFacts DEF ReviewStateOK
  <2>6. passed' \cup ToSet(news') \cup pendingDiffs' = ex
    BY DEF ex
  <2>7. DiffsFit(calls', diffRequestVersions', loadingDiffs', diffs', work', passed' \cup ToSet(news') \cup pendingDiffs')
    BY <2>4, <2>6
  <2>8. AsksFit(calls', diffRequestVersions', inFlight')
    BY <2>4
  <2> QED
    BY <1>1, <2>5, <2>7, <2>8 DEF ReviewInv
<1> QED
  BY <1>2, <1>3

LEMMA ShowDocumentStep == ASSUME ReviewInv, NEW d \in Documents, ShowDocument(d) PROVE ReviewInv'
<1>1. /\ UNCHANGED <<gitReview, diffs, work, news, passed, queued, gitTimer, inFlight, pendingDiffs, diffTimer>>
      /\ selected' = d
      /\ LoadHeadDiff(d, calls) \/ UNCHANGED <<diffRequestVersions, loadingDiffs, calls>>
  BY DEF ShowDocument, tree, refresh
<1> QED
  BY <1>1, OneLoaded

LEMMA ToggleHeadDiffStep == ASSUME ReviewInv, ToggleHeadDiff PROVE ReviewInv'
<1>1. /\ UNCHANGED <<gitReview, diffs, work, news, passed, queued, gitTimer, inFlight, pendingDiffs, diffTimer>>
      /\ selected' = selected
      /\ (selected # NoDocument /\ LoadHeadDiff(selected, calls)) \/ UNCHANGED <<diffRequestVersions, loadingDiffs, calls>>
  BY DEF ToggleHeadDiff, tree, refresh
<1>2. selected \in Documents \cup {NoDocument}
  BY ReviewFacts
<1> QED
  BY <1>1, <1>2, OneLoaded

LEMMA ServeStep == ASSUME ReviewInv, NEW i \in DOMAIN calls, Serve(i) PROVE ReviewInv'
<1> DEFINE ex == passed \cup ToSet(news) \cup pendingDiffs
<1>1. /\ UNCHANGED <<gitReview, diffs, loadingDiffs, diffRequestVersions, work, news, passed, queued, gitTimer, inFlight,
                     pendingDiffs, diffTimer, selected>>
      /\ \E read, reason : /\ calls' = [calls EXCEPT ![i].read = read, ![i].reason = reason, ![i].seen = work]
                           /\ reason \in Reasons
                           /\ read = IF calls[i].document = NoDocument THEN 0 ELSE work[calls[i].document]
  <2>1. UNCHANGED <<gitReview, diffs, loadingDiffs, diffRequestVersions, work, news, passed, queued, gitTimer, inFlight,
                    pendingDiffs, diffTimer, selected>>
    BY DEF Serve, tree, refresh, differences
  <2>2. CASE calls[i].document # NoDocument
            /\ calls' = [calls EXCEPT ![i].read = work[calls[i].document], ![i].reason = "ok", ![i].seen = work]
    BY <2>1, <2>2 DEF Reasons
  <2>3. CASE calls[i].document = NoDocument /\ \E reason \in Reasons :
               calls' = [calls EXCEPT ![i].read = 0, ![i].reason = reason, ![i].seen = work]
    <3>1. PICK reason \in Reasons : calls' = [calls EXCEPT ![i].read = 0, ![i].reason = reason, ![i].seen = work]
      BY <2>3
    <3>2. 0 = IF calls[i].document = NoDocument THEN 0 ELSE work[calls[i].document]
      BY <2>3
    <3> DEFINE Answer(n, why) == /\ calls' = [calls EXCEPT ![i].read = n, ![i].reason = why, ![i].seen = work]
                                 /\ why \in Reasons
                                 /\ n = IF calls[i].document = NoDocument THEN 0 ELSE work[calls[i].document]
    <3>3. Answer(0, reason)
      BY <3>1, <3>2
    <3> HIDE DEF Answer
    <3>4. \E n, why : Answer(n, why)
      BY <3>3, Zenon
    <3> QED
      BY <2>1, <3>4, Zenon DEF Answer
  <2>4. "ok" \in Reasons
    BY DEF Reasons
  <2>5. \/ calls[i].document # NoDocument
           /\ calls' = [calls EXCEPT ![i].read = work[calls[i].document], ![i].reason = "ok", ![i].seen = work]
        \/ calls[i].document = NoDocument /\ \E reason \in Reasons :
               calls' = [calls EXCEPT ![i].read = 0, ![i].reason = reason, ![i].seen = work]
    BY <2>4 DEF Serve
  <2> QED
    BY <2>2, <2>3, <2>5
<1>2. PICK read, reason : /\ calls' = [calls EXCEPT ![i].read = read, ![i].reason = reason, ![i].seen = work]
                          /\ reason \in Reasons
                          /\ read = IF calls[i].document = NoDocument THEN 0 ELSE work[calls[i].document]
  BY <1>1
<1> DEFINE ask == [calls[i] EXCEPT !.read = read, !.reason = reason, !.seen = work]
<1>3. calls \in Seq(Asks) /\ calls[i] \in Asks /\ work \in [Documents -> Nat]
  <2>1. AsksFit(calls, diffRequestVersions, inFlight)
    BY ReviewFacts
  <2>2. calls \in Seq(Asks)
    BY <2>1 DEF AsksFit
  <2>3. work \in [Documents -> Nat]
    BY ReviewFacts
  <2> QED
    BY <2>2, <2>3
<1>4. calls' = [calls EXCEPT ![i] = ask]
  BY <1>2, <1>3
<1>5. read \in Nat \cup {Waiting}
  BY <1>2, <1>3 DEF Asks
<1>6. ask \in Asks /\ ask.document = calls[i].document /\ ask.version = calls[i].version /\ ask.first = calls[i].first
      /\ ask.read = read
  BY <1>2, <1>3, <1>5 DEF Asks
<1> HIDE DEF ask
<1>7. ask.document # NoDocument => ask.read = work[ask.document]
  BY <1>2, <1>6
<1>8. AsksFit(calls', diffRequestVersions, inFlight) /\ DiffsFit(calls', diffRequestVersions, loadingDiffs, diffs, work, ex)
  <2>1. /\ AsksFit(calls, diffRequestVersions, inFlight) /\ loadingDiffs \in SUBSET Documents
        /\ DiffsFit(calls, diffRequestVersions, loadingDiffs, diffs, work, ex)
    BY ReviewFacts
  <2> HIDE DEF ex
  <2> QED
    BY <1>4, <1>6, <1>7, <2>1, ReadKeeps
<1>9. ReviewStateOK'
  BY <1>1, ReviewFacts DEF ReviewStateOK
<1>10. QueuedIsScheduled'
  BY <1>1, ReviewFacts DEF QueuedIsScheduled
<1>11. passed' \cup ToSet(news') \cup pendingDiffs' = ex
  BY <1>1 DEF ex
<1>12. /\ AsksFit(calls', diffRequestVersions', inFlight')
       /\ DiffsFit(calls', diffRequestVersions', loadingDiffs', diffs', work', passed' \cup ToSet(news') \cup pendingDiffs')
  BY <1>1, <1>8, <1>11
<1> QED
  BY <1>9, <1>10, <1>12 DEF ReviewInv

LEMMA ListAnsweredStep == ASSUME ReviewInv, NEW i \in DOMAIN calls, ListAnswered(i) PROVE ReviewInv'
<1> DEFINE ex == passed \cup ToSet(news) \cup pendingDiffs
           others == RemoveAt(calls, i)
<1>1. /\ calls[i].document = NoDocument /\ EndRefresh(calls[i])
      /\ gitReview' = [seen |-> calls[i].seen, reason |-> calls[i].reason]
      /\ UNCHANGED <<diffs, work, news, passed, pendingDiffs, diffTimer, selected>>
      /\ \/ calls' = others /\ UNCHANGED <<loadingDiffs, diffRequestVersions>>
         \/ \E ds \in SUBSET Documents : LoadHeadDiffs(ds, others)
  <2>1. \A first \in SUBSET {d \in Documents : calls[i].seen[d] > 0} :
            {d \in first : diffs[d] = NoDiff /\ d \notin loadingDiffs} \in SUBSET Documents
    OBVIOUS
  <2> QED
    BY <2>1 DEF ListAnswered, tree
<1>2. calls[i] \in Asks
  <2>1. AsksFit(calls, diffRequestVersions, inFlight)
    BY ReviewFacts
  <2> QED
    BY <2>1 DEF AsksFit
<1>3. gitReview'.seen \in [Documents -> Nat] /\ gitReview'.reason \in Reasons \cup {"not asked"}
  BY <1>1, <1>2 DEF Asks
<1>4. /\ AsksFit(others, diffRequestVersions, inFlight')
      /\ queued' \in BOOLEAN /\ gitTimer' \in BOOLEAN /\ inFlight' \in BOOLEAN
      /\ QueuedIsScheduled'
      /\ DiffsFit(others, diffRequestVersions, loadingDiffs, diffs, work, ex)
  BY <1>1, RefreshOver
<1> HIDE DEF others, ex
<1>5. /\ AsksFit(calls', diffRequestVersions', inFlight')
      /\ DiffsFit(calls', diffRequestVersions', loadingDiffs', diffs, work, ex)
      /\ diffRequestVersions' \in [Documents -> Nat] /\ loadingDiffs' \in SUBSET Documents
  <2>1. CASE calls' = others /\ UNCHANGED <<loadingDiffs, diffRequestVersions>>
    <3>1. diffRequestVersions \in [Documents -> Nat] /\ loadingDiffs \in SUBSET Documents
      BY ReviewFacts
    <3> QED
      BY <1>4, <2>1, <3>1
  <2>2. CASE \E ds \in SUBSET Documents : LoadHeadDiffs(ds, others)
    <3>1. PICK ds \in SUBSET Documents : LoadHeadDiffs(ds, others)
      BY <2>2
    <3>2. ex \subseteq ex \cup ds
      OBVIOUS
    <3> QED
      BY <1>4, <3>1, <3>2, LoadStep
  <2> QED
    BY <1>1, <2>1, <2>2
<1>6. ReviewStateOK'
  BY <1>1, <1>3, <1>4, <1>5, ReviewFacts DEF ReviewStateOK
<1>7. passed' \cup ToSet(news') \cup pendingDiffs' = ex
  BY <1>1 DEF ex
<1>8. DiffsFit(calls', diffRequestVersions', loadingDiffs', diffs', work', passed' \cup ToSet(news') \cup pendingDiffs')
  BY <1>1, <1>5, <1>7
<1> QED
  BY <1>4, <1>5, <1>6, <1>8 DEF ReviewInv

LEMMA DiffAnsweredStep == ASSUME ReviewInv, NEW i \in DOMAIN calls, DiffAnswered(i) PROVE ReviewInv'
<1> DEFINE d == calls[i].document
           ex == passed \cup ToSet(news) \cup pendingDiffs
           rest == passed' \cup ToSet(news) \cup pendingDiffs
<1>1. /\ d # NoDocument /\ calls[i].read # Waiting /\ calls' = RemoveAt(calls, i)
      /\ UNCHANGED <<gitReview, diffRequestVersions, work, news, queued, gitTimer, inFlight, pendingDiffs, diffTimer,
                     selected>>
      /\ IF IsLatest(calls[i])
         THEN /\ diffs' = [diffs EXCEPT ![d] = calls[i].read] /\ loadingDiffs' = loadingDiffs \ {d}
              /\ passed' = IF calls[i].read = work[d] THEN passed \ {d} ELSE passed
         ELSE UNCHANGED <<diffs, loadingDiffs, passed>>
  BY DEF DiffAnswered, tree, refresh
<1>2. calls[i] \in Asks /\ calls[i] \in ToSet(calls)
  <2>1. AsksFit(calls, diffRequestVersions, inFlight)
    BY ReviewFacts
  <2> QED
    BY <2>1, ToSetIs DEF AsksFit
<1>3. d \in Documents /\ calls[i].read \in Nat
  BY <1>1, <1>2 DEF Asks
<1>4. IsLatest(calls[i]) <=> IsLatestAsk(diffRequestVersions, calls[i], d)
  BY DEF IsLatest, IsLatestAsk
<1>5. /\ diffs \in [Documents -> Nat \cup {NoDiff}] /\ loadingDiffs \in SUBSET Documents /\ passed \in SUBSET Documents
      /\ AsksFit(calls, diffRequestVersions, inFlight)
      /\ DiffsFit(calls, diffRequestVersions, loadingDiffs, diffs, work, ex)
  BY ReviewFacts
<1>6. /\ diffs' \in [Documents -> Nat \cup {NoDiff}] /\ loadingDiffs' \in SUBSET Documents /\ passed' \in SUBSET Documents
      /\ \A x \in Documents : x # d => diffs'[x] = diffs[x] /\ (x \in ex => x \in rest) /\ (x \in loadingDiffs' => x \in loadingDiffs)
  BY <1>1, <1>3, <1>5
<1>7. IF IsLatestAsk(diffRequestVersions, calls[i], d)
      THEN d \notin loadingDiffs' /\ (d \in rest \/ diffs'[d] \in {NoDiff, work[d]})
      ELSE diffs'[d] = diffs[d] /\ loadingDiffs' \subseteq loadingDiffs /\ ex \subseteq rest
  <2>1. CASE ~IsLatestAsk(diffRequestVersions, calls[i], d)
    BY <1>1, <1>4, <2>1
  <2>2. CASE IsLatestAsk(diffRequestVersions, calls[i], d) /\ calls[i].read = work[d]
    BY <1>1, <1>3, <1>4, <1>5, <2>2
  <2>3. CASE IsLatestAsk(diffRequestVersions, calls[i], d) /\ calls[i].read # work[d]
    <3>1. d \in ex
      BY <1>1, <1>2, <1>3, <1>5, <2>3 DEF DiffsFit, Follows
    <3>2. passed' = passed /\ loadingDiffs' = loadingDiffs \ {d}
      BY <1>1, <1>4, <2>3
    <3> QED
      BY <2>3, <3>1, <3>2
  <2> QED
    BY <2>1, <2>2, <2>3
<1>8. ReviewStateOK'
  BY <1>1, <1>6, ReviewFacts DEF ReviewStateOK
<1>9. passed' \cup ToSet(news') \cup pendingDiffs' = rest
  BY <1>1
<1> HIDE DEF ex, rest, d
<1>10. DiffsFit(RemoveAt(calls, i), diffRequestVersions, loadingDiffs', diffs', work, rest)
  BY <1>1, <1>5, <1>6, <1>7, OverKeeps DEF d
<1>11. AsksFit(RemoveAt(calls, i), diffRequestVersions, inFlight)
  BY <1>5, RemovedFit
<1>12. /\ AsksFit(calls', diffRequestVersions', inFlight')
       /\ DiffsFit(calls', diffRequestVersions', loadingDiffs', diffs', work', passed' \cup ToSet(news') \cup pendingDiffs')
  BY <1>1, <1>9, <1>10, <1>11
<1>13. QueuedIsScheduled'
  BY <1>1, ReviewFacts DEF QueuedIsScheduled
<1> QED
  BY <1>8, <1>12, <1>13 DEF ReviewInv

LEMMA CallLostStep == ASSUME ReviewInv, NEW i \in DOMAIN calls, CallLost(i) PROVE ReviewInv'
<1> DEFINE d == calls[i].document
           ex == passed \cup ToSet(news) \cup pendingDiffs
<1>1. /\ calls' = RemoveAt(calls, i)
      /\ UNCHANGED <<gitReview, diffs, diffRequestVersions, work, news, pendingDiffs, diffTimer, selected>>
      /\ IF d = NoDocument THEN EndRefresh(calls[i]) /\ UNCHANGED <<loadingDiffs, passed>>
         ELSE /\ passed' = passed \cup {d}
              /\ loadingDiffs' = IF IsLatest(calls[i]) THEN loadingDiffs \ {d} ELSE loadingDiffs
              /\ UNCHANGED <<queued, gitTimer, inFlight>>
  BY DEF CallLost, tree
<1>2. CASE d = NoDocument
  <2>1. /\ AsksFit(RemoveAt(calls, i), diffRequestVersions, inFlight')
        /\ queued' \in BOOLEAN /\ gitTimer' \in BOOLEAN /\ inFlight' \in BOOLEAN
        /\ QueuedIsScheduled'
        /\ DiffsFit(RemoveAt(calls, i), diffRequestVersions, loadingDiffs, diffs, work, ex)
    BY <1>1, <1>2, RefreshOver
  <2>2. loadingDiffs' = loadingDiffs /\ passed' = passed
    BY <1>1, <1>2
  <2>3. ReviewStateOK'
    BY <1>1, <2>1, <2>2, ReviewFacts DEF ReviewStateOK
  <2>4. passed' \cup ToSet(news') \cup pendingDiffs' = ex
    BY <1>1, <2>2
  <2> HIDE DEF ex
  <2>5. /\ AsksFit(calls', diffRequestVersions', inFlight')
        /\ DiffsFit(calls', diffRequestVersions', loadingDiffs', diffs', work', passed' \cup ToSet(news') \cup pendingDiffs')
    BY <1>1, <2>1, <2>2, <2>4
  <2> QED
    BY <2>1, <2>3, <2>5 DEF ReviewInv
<1>3. CASE d # NoDocument
  <2> DEFINE rest == passed' \cup ToSet(news) \cup pendingDiffs
  <2>1. /\ passed' = passed \cup {d} /\ UNCHANGED <<queued, gitTimer, inFlight>>
        /\ loadingDiffs' = IF IsLatest(calls[i]) THEN loadingDiffs \ {d} ELSE loadingDiffs
    BY <1>1, <1>3
  <2>2. /\ loadingDiffs \in SUBSET Documents /\ passed \in SUBSET Documents
        /\ AsksFit(calls, diffRequestVersions, inFlight)
        /\ DiffsFit(calls, diffRequestVersions, loadingDiffs, diffs, work, ex)
    BY ReviewFacts
  <2>3. d \in Documents
    <3>1. calls[i] \in Asks
      BY <2>2 DEF AsksFit
    <3> QED
      BY <1>3, <3>1 DEF Asks
  <2>4. IsLatest(calls[i]) <=> IsLatestAsk(diffRequestVersions, calls[i], d)
    BY DEF IsLatest, IsLatestAsk
  <2>5. loadingDiffs' \in SUBSET Documents /\ passed' \in SUBSET Documents /\ ex \subseteq rest /\ d \in rest
        /\ loadingDiffs' \subseteq loadingDiffs /\ (IsLatestAsk(diffRequestVersions, calls[i], d) => d \notin loadingDiffs')
    BY <2>1, <2>2, <2>3, <2>4
  <2>6. ReviewStateOK'
    BY <1>1, <2>1, <2>5, ReviewFacts DEF ReviewStateOK
  <2>7. passed' \cup ToSet(news') \cup pendingDiffs' = rest
    BY <1>1
  <2> HIDE DEF ex, rest, d
  <2>8. DiffsFit(RemoveAt(calls, i), diffRequestVersions, loadingDiffs', diffs, work, rest)
    <3>1. calls[i].document # NoDocument
      BY <1>3 DEF d
    <3>2. \A x \in Documents : x # calls[i].document =>
              diffs[x] = diffs[x] /\ (x \in ex => x \in rest) /\ (x \in loadingDiffs' => x \in loadingDiffs)
      BY <2>5
    <3>3. IF IsLatestAsk(diffRequestVersions, calls[i], calls[i].document)
          THEN calls[i].document \notin loadingDiffs'
               /\ (calls[i].document \in rest \/ diffs[calls[i].document] \in {NoDiff, work[calls[i].document]})
          ELSE diffs[calls[i].document] = diffs[calls[i].document] /\ loadingDiffs' \subseteq loadingDiffs /\ ex \subseteq rest
      BY <2>5 DEF d
    <3> QED
      BY <2>2, <2>5, <3>1, <3>2, <3>3, OverKeeps
  <2>9. AsksFit(RemoveAt(calls, i), diffRequestVersions, inFlight)
    BY <2>2, RemovedFit
  <2>10. /\ AsksFit(calls', diffRequestVersions', inFlight')
         /\ DiffsFit(calls', diffRequestVersions', loadingDiffs', diffs', work', passed' \cup ToSet(news') \cup pendingDiffs')
    BY <1>1, <2>1, <2>7, <2>8, <2>9
  <2>11. QueuedIsScheduled'
    BY <2>1, ReviewFacts DEF QueuedIsScheduled
  <2> QED
    BY <2>6, <2>10, <2>11 DEF ReviewInv
<1> QED
  BY <1>2, <1>3

LEMMA ReviewStep == ReviewInv /\ ReviewNext => ReviewInv'
<1> SUFFICES ASSUME ReviewInv, ReviewNext PROVE ReviewInv'
  OBVIOUS
<1>1. ASSUME NEW d \in Documents, Edit(d) \/ ShowDocument(d) PROVE ReviewInv'
  BY <1>1, WorkEditStep, ShowDocumentStep
<1>2. ASSUME StreamBreaks \/ StreamReturns \/ ReceiveNews PROVE ReviewInv'
  BY <1>2, StreamBreaksStep, StreamReturnsStep, ReceiveNewsStep
<1>3. ASSUME RunQueuedGitReviewRefresh \/ Poll \/ Hide \/ RunDiffRefresh \/ ToggleHeadDiff PROVE ReviewInv'
  BY <1>3, RunQueuedStep, PollStep, HideStep, RunDiffRefreshStep, ToggleHeadDiffStep
<1>4. ASSUME NEW i \in DOMAIN calls, Serve(i) \/ ListAnswered(i) \/ DiffAnswered(i) \/ CallLost(i) PROVE ReviewInv'
  BY <1>4, ServeStep, ListAnsweredStep, DiffAnsweredStep, CallLostStep
<1> QED
  BY <1>1, <1>2, <1>3, <1>4 DEF ReviewNext, Served, Answered

\* What is not about the changes leaves them alone.
LEMMA ReviewGoesOn ==
    ASSUME ReviewInv, [MCNext]_<<reviewVars, focusVars, treeVars, paletteVars, concern>> PROVE ReviewInv'
<1>1. CASE UNCHANGED <<reviewVars, focusVars, treeVars, paletteVars, concern>>
  BY <1>1, ReviewStutters
<1>2. CASE MCNext
  <2>1. ReviewNext \/ UNCHANGED reviewVars
    BY <1>2 DEF MCNext
  <2> QED
    BY <2>1, ReviewStep, ReviewStutters
<1> QED
  BY <1>1, <1>2

\* A refresh of the list that was asked for is always scheduled or waits for the one in flight; and
\* once nothing is on its way, a difference that is shown is that of the file as it is, except of
\* files whose change was not heard or not followed (git-review-refresh.ts, WorkbenchContainer.tsx).
THEOREM ReviewStaysCurrent == MCSpec => []ReviewIsCurrent
<1>1. MCInit => ReviewInv
  BY ReviewStarts DEF MCInit
<1>2. ReviewInv /\ [MCNext]_<<reviewVars, focusVars, treeVars, paletteVars, concern>> => ReviewInv'
  BY ReviewGoesOn
<1> QED
  BY <1>1, <1>2, ReviewInvImplies, PTL DEF MCSpec

-----------------------------------------------------------------------------
(***************************************************************************)
(* Where the reader is (WorkbenchFocus).                                     *)
(***************************************************************************)

Sought == Queries \cup {NoQuery}
Places == [query : Sought, index : 0..(Hits - 1)]
Palettes == [open : BOOLEAN, mode : Kinds \cup {"action"}, query : Sought]
Ways == [why : {"hit", "target", "resume", "save"}, what : Notes \cup {NoNote}, hit : Places, version : Nat,
         stage : {"file", "diff"}]

PlaceOK ==
    /\ palette \in Palettes /\ help \in BOOLEAN /\ ~(palette.open /\ help)
    /\ narrow \in BOOLEAN /\ compactInspector \in BOOLEAN /\ (compactInspector => narrow)
    /\ textSearch \in Places /\ focusedHit \in Places
    /\ activeComment \in Notes \cup {NoNote} /\ resumed \in Notes \cup {NoNote}

SearchOK ==
    /\ waiting \in [Kinds -> Sought] /\ results \in [Kinds -> Sought] /\ loading \in [Kinds -> BOOLEAN]
    /\ searches \subseteq [kind : Kinds, query : Sought]

\* A search that is waiting or under way is the one that is wanted, and is one of both.
SearchesFit ==
    /\ SearchIsForTheQuery
    /\ \A k \in Kinds : waiting[k] \in {NoQuery, Wanted(palette, k)}
    /\ \A s \in searches : s.query = Wanted(palette, s.kind) /\ waiting[s.kind] = NoQuery

\* Of the inputs that are to be taken up again, the newest one is what was asked for last.
WaysFit(q, newest, last) ==
    /\ q \in Seq(Ways) /\ newest \in Nat
    /\ \A i \in DOMAIN q : q[i].version <= newest
    /\ \A i \in DOMAIN q : q[i].why = "resume" /\ q[i].version = newest => q[i].what = last

FocusInv == PlaceOK /\ SearchOK /\ SearchesFit /\ WaysFit(steps, resumeVersion, wish)

LEMMA FocusInvImplies == FocusInv => FocusTypeOK /\ SearchIsForTheQuery
<1> SUFFICES ASSUME FocusInv PROVE FocusTypeOK /\ SearchIsForTheQuery
  OBVIOUS
<1>1. PlaceOK /\ SearchesFit /\ \A i \in DOMAIN steps : steps[i].version <= resumeVersion
  BY DEF FocusInv, WaysFit
<1>2. palette.open \in BOOLEAN /\ palette.mode \in Kinds \cup {"action"}
  BY <1>1 DEF PlaceOK, Palettes
<1>3. textSearch \in [query : Queries \cup {NoQuery}, index : 0..(Hits - 1)]
  BY <1>1 DEF PlaceOK, Places, Sought
<1> QED
  BY <1>1, <1>2, <1>3 DEF FocusTypeOK, PlaceOK, SearchesFit

LEMMA FocusStarts == FocusInit => FocusInv
<1> SUFFICES ASSUME FocusInit PROVE FocusInv
  OBVIOUS
<1>1. NoHit \in Places /\ Closed \in Palettes
  BY FocusAssumption DEF NoHit, Closed, Places, Palettes, Sought, Kinds
<1>2. PlaceOK /\ SearchOK
  BY <1>1 DEF FocusInit, PlaceOK, SearchOK, Sought, Closed
<1>3. SearchesFit
  BY DEF FocusInit, SearchesFit, SearchIsForTheQuery, Wanted, Closed
<1>4. steps \in Seq(Ways) /\ DOMAIN steps = {} /\ resumeVersion = 0
  BY DEF FocusInit
<1>5. WaysFit(steps, resumeVersion, wish)
  BY <1>4 DEF WaysFit
<1> QED
  BY <1>2, <1>3, <1>5 DEF FocusInv

\* One step more, which is none for an input that is taken up again, or the one asked for now.
LEMMA WaysAppend ==
    ASSUME NEW q, NEW n, NEW w, WaysFit(q, n, w), NEW way \in Ways, NEW m \in Nat, NEW v,
           way.version = m, n <= m, m = n => v = w,
           way.why = "resume" => way.what = v
    PROVE  WaysFit(Append(q, way), m, v)
<1> DEFINE t == Append(q, way)
<1>1. /\ t \in Seq(Ways) /\ DOMAIN q = 1..Len(q) /\ DOMAIN t = 1..(Len(q) + 1) /\ Len(q) \in Nat
      /\ (\A j \in 1..Len(q) : t[j] = q[j]) /\ t[Len(q) + 1] = way
  BY DEF WaysFit
<1> HIDE DEF t
<1>2. \A j \in 1..(Len(q) + 1) : j \in 1..Len(q) \/ j = Len(q) + 1
  BY <1>1
<1>3. \A j \in 1..Len(q) : q[j].version <= n /\ q[j].version \in Nat /\ n \in Nat
  <2>1. \A j \in 1..Len(q) : q[j] \in Ways
    BY <1>1 DEF WaysFit
  <2> QED
    BY <1>1, <2>1 DEF WaysFit, Ways
<1>4. \A j \in 1..Len(q) : q[j].version <= m /\ (q[j].version = m => m = n)
  BY <1>3
<1>5. \A j \in DOMAIN t : t[j].version <= m
  BY <1>1, <1>2, <1>4
<1>6. \A j \in DOMAIN t : t[j].why = "resume" /\ t[j].version = m => t[j].what = v
  BY <1>1, <1>2, <1>4 DEF WaysFit
<1> QED
  BY <1>1, <1>5, <1>6 DEF WaysFit, t

\* A new version, which no step has yet.
LEMMA WaysVoid ==
    ASSUME NEW q, NEW n, NEW w, WaysFit(q, n, w), NEW v
    PROVE  WaysFit(q, n + 1, v)
<1>1. \A i \in DOMAIN q : q[i].version \in Nat /\ q[i].version <= n /\ n \in Nat
  <2>1. \A i \in DOMAIN q : q[i] \in Ways
    BY DEF WaysFit
  <2> QED
    BY <2>1 DEF WaysFit, Ways
<1>2. n + 1 \in Nat /\ \A i \in DOMAIN q : q[i].version <= n + 1 /\ q[i].version # n + 1
  BY <1>1 DEF WaysFit
<1> QED
  BY <1>2 DEF WaysFit

LEMMA WaysRemove ==
    ASSUME NEW q, NEW n, NEW w, WaysFit(q, n, w), NEW i \in DOMAIN q
    PROVE  WaysFit(RemoveAt(q, i), n, w)
<1> DEFINE t == RemoveAt(q, i)
           old(j) == IF j < i THEN j ELSE j + 1
<1>1. q \in Seq(Ways) /\ DOMAIN q = 1..Len(q) /\ Len(q) \in Nat /\ i \in 1..Len(q)
  BY DEF WaysFit
<1>2. /\ t \in Seq(Ways) /\ Len(t) = Len(q) - 1
      /\ \A j \in 1..(Len(q) - 1) : t[j] = q[old(j)]
  BY <1>1, RemoveAtIs
<1> HIDE DEF t
<1>3. DOMAIN t = 1..(Len(q) - 1)
  BY <1>1, <1>2
<1>4. \A j \in 1..(Len(q) - 1) : old(j) \in DOMAIN q
  BY <1>1
<1> HIDE DEF old
<1> QED
  BY <1>2, <1>3, <1>4 DEF WaysFit, t

\* Changes of the palette begin its searches anew.
LEMMA TurnFits ==
    ASSUME SearchOK, SearchesFit, NEW p \in Palettes, Turn(p) PROVE SearchOK' /\ SearchesFit' /\ palette' = p
<1>1. palette' = p
  BY DEF Turn
<1>2. CASE p = palette
  <2>1. waiting' = waiting /\ searches' = searches /\ results' = results /\ loading' = loading /\ palette' = palette
    BY <1>2 DEF Turn, search
  <2> QED
    BY <2>1, <1>1 DEF SearchOK, SearchesFit, SearchIsForTheQuery, Wanted
<1>3. CASE p # palette
  <2>1. /\ searches' = {} /\ waiting' = [k \in Kinds |-> Wanted(p, k)]
        /\ loading' = [k \in Kinds |-> Wanted(p, k) # NoQuery] /\ results' = [k \in Kinds |-> NoQuery]
    BY <1>3 DEF Turn, AbortSearches
  <2>2. \A k \in Kinds : Wanted(p, k) \in Sought
    BY DEF Wanted, Palettes, Sought
  <2>3. SearchOK'
    BY <2>1, <2>2 DEF SearchOK, Sought
  <2>4. SearchesFit'
    BY <2>1, <1>1 DEF SearchesFit, SearchIsForTheQuery, Wanted
  <2> QED
    BY <1>1, <2>3, <2>4
<1> QED
  BY <1>1, <1>2, <1>3

LEMMA SearchStays ==
    ASSUME SearchOK, SearchesFit, UNCHANGED search, UNCHANGED palette PROVE SearchOK' /\ SearchesFit'
  BY DEF SearchOK, SearchesFit, SearchIsForTheQuery, Wanted, search

\* A palette in its place: what is written of it is a palette.
LEMMA PalettesClose ==
    PlaceOK => [palette EXCEPT !.open = FALSE] \in Palettes /\ ~[palette EXCEPT !.open = FALSE].open
  BY DEF PlaceOK, Palettes

LEMMA OpenPaletteStep == ASSUME FocusInv, NEW mode \in Kinds \cup {"action"}, OpenPalette(mode) PROVE FocusInv'
<1>1. [open |-> TRUE, mode |-> mode, query |-> NoQuery] \in Palettes
  BY DEF Palettes, Sought
<1>2. SearchOK' /\ SearchesFit' /\ palette' \in Palettes
  BY <1>1, TurnFits DEF FocusInv, OpenPalette
<1>3. PlaceOK' /\ WaysFit(steps, resumeVersion, wish)'
  BY <1>2 DEF FocusInv, PlaceOK, OpenPalette, place
<1> QED
  BY <1>2, <1>3 DEF FocusInv

LEMMA TypeQueryStep == ASSUME FocusInv, NEW q \in Queries, TypeQuery(q) PROVE FocusInv'
<1>1. [palette EXCEPT !.query = q] \in Palettes /\ [palette EXCEPT !.query = q].open = palette.open
  BY DEF FocusInv, PlaceOK, Palettes, Sought
<1>2. SearchOK' /\ SearchesFit' /\ palette' \in Palettes /\ palette'.open = palette.open
  BY <1>1, TurnFits DEF FocusInv, TypeQuery
<1>3. PlaceOK' /\ WaysFit(steps, resumeVersion, wish)'
  BY <1>2 DEF FocusInv, PlaceOK, TypeQuery, place
<1> QED
  BY <1>2, <1>3 DEF FocusInv

\* What leaves the palette, the way and the place alone, but for what it searches for.
LEMMA OnlySearching ==
    ASSUME FocusInv, UNCHANGED <<overlays, place, steps, wish>>, SearchOK', SearchesFit' PROVE FocusInv'
<1>1. PlaceOK' /\ WaysFit(steps, resumeVersion, wish)'
  BY DEF FocusInv, PlaceOK, overlays, place
<1> QED
  BY <1>1 DEF FocusInv

LEMMA SearchTimerStep == ASSUME FocusInv, NEW k \in Kinds, SearchTimer(k) PROVE FocusInv'
<1> DEFINE s == [kind |-> k, query |-> waiting[k]]
<1>1. /\ waiting' = [waiting EXCEPT ![k] = NoQuery] /\ searches' = searches \cup {s}
      /\ results' = results /\ loading' = loading /\ waiting[k] # NoQuery
      /\ palette' = palette
  BY DEF SearchTimer, overlays
<1>2. SearchOK /\ SearchesFit
  BY DEF FocusInv
<1>3. waiting[k] = Wanted(palette, k)
  BY <1>1, <1>2 DEF SearchesFit
<1>4. SearchOK'
  BY <1>1, <1>2 DEF SearchOK, Sought
<1>5. \A j \in Kinds : waiting'[j] = IF j = k THEN NoQuery ELSE waiting[j]
  BY <1>1, <1>2 DEF SearchOK
<1>6. \A j \in Kinds : Wanted(palette, j)' = Wanted(palette, j)
  BY <1>1 DEF Wanted
<1>7. \A j \in Kinds : waiting'[j] \in {NoQuery, Wanted(palette', j)}
  BY <1>2, <1>5, <1>6, <1>1 DEF SearchesFit
<1>8. \A r \in searches' : r.query = Wanted(palette', r.kind) /\ waiting'[r.kind] = NoQuery
  <2> SUFFICES ASSUME NEW r \in searches' PROVE r.query = Wanted(palette', r.kind) /\ waiting'[r.kind] = NoQuery
    OBVIOUS
  <2>1. CASE r = s
    BY <2>1, <1>1, <1>3, <1>5
  <2>2. CASE r \in searches
    <3>1. r.kind \in Kinds
      BY <2>2, <1>2 DEF SearchOK
    <3> QED
      BY <2>2, <3>1, <1>1, <1>2, <1>5 DEF SearchesFit
  <2> QED
    BY <1>1, <2>1, <2>2
<1>9. ASSUME NEW j \in Kinds
      PROVE  /\ results'[j] \in {NoQuery, Wanted(palette', j)}
             /\ loading'[j] <=> waiting'[j] # NoQuery \/ \E r \in searches' : r = [kind |-> j, query |-> Wanted(palette', j)]
  <2>1. results[j] \in {NoQuery, Wanted(palette, j)} /\ (loading[j] <=> waiting[j] # NoQuery \/ \E r \in searches : r = [kind |-> j, query |-> Wanted(palette, j)])
    BY <1>2 DEF SearchesFit, SearchIsForTheQuery
  <2>2. CASE j = k
    BY <1>1, <1>3, <2>1, <2>2
  <2>3. CASE j # k
    <3>1. [kind |-> j, query |-> Wanted(palette, j)] # s
      BY <2>3
    <3> QED
      BY <1>1, <1>5, <2>1, <2>3, <3>1
  <2> QED
    BY <2>2, <2>3
<1>10. SearchesFit'
  BY <1>7, <1>8, <1>9 DEF SearchesFit, SearchIsForTheQuery
<1> QED
  BY <1>4, <1>10, OnlySearching DEF SearchTimer

LEMMA SearchAnsweredStep == ASSUME FocusInv, NEW s \in searches, SearchAnswered(s) PROVE FocusInv'
<1>1. /\ searches' = searches \ {s} /\ loading' = [loading EXCEPT ![s.kind] = FALSE]
      /\ results' = [results EXCEPT ![s.kind] = s.query] \/ results' = results
      /\ waiting' = waiting /\ palette' = palette
  BY DEF SearchAnswered, overlays
<1>2. SearchOK /\ SearchesFit /\ s \in [kind : Kinds, query : Sought] /\ s.kind \in Kinds
  BY DEF FocusInv, SearchOK
<1>3. SearchOK'
  BY <1>1, <1>2 DEF SearchOK
<1>4. s.query = Wanted(palette, s.kind) /\ waiting[s.kind] = NoQuery
  BY <1>2 DEF SearchesFit
<1>5. s = [kind |-> s.kind, query |-> Wanted(palette, s.kind)]
  BY <1>2, <1>4
<1>6. ASSUME NEW j \in Kinds
      PROVE  /\ results'[j] \in {NoQuery, Wanted(palette', j)}
             /\ loading'[j] <=> waiting'[j] # NoQuery \/ \E r \in searches' : r = [kind |-> j, query |-> Wanted(palette', j)]
  <2>1. results[j] \in {NoQuery, Wanted(palette, j)} /\ (loading[j] <=> waiting[j] # NoQuery \/ \E r \in searches : r = [kind |-> j, query |-> Wanted(palette, j)])
    BY <1>2 DEF SearchesFit, SearchIsForTheQuery
  <2>2. results'[j] \in {NoQuery, Wanted(palette', j)}
    BY <1>1, <1>2, <1>4, <2>1 DEF SearchOK
  <2>3. CASE j = s.kind
    <3>1. loading'[j] = FALSE
      BY <1>1, <1>2, <2>3 DEF SearchOK
    <3>2. [kind |-> j, query |-> Wanted(palette', j)] \notin searches'
      BY <1>1, <1>5, <2>3
    <3> QED
      BY <1>1, <1>4, <2>2, <2>3, <3>1, <3>2
  <2>4. CASE j # s.kind
    <3>1. loading'[j] = loading[j] /\ [kind |-> j, query |-> Wanted(palette, j)] # s
      BY <1>1, <1>2, <2>4 DEF SearchOK
    <3> QED
      BY <1>1, <2>1, <2>2, <3>1
  <2> QED
    BY <2>3, <2>4
<1>7. SearchesFit'
  BY <1>1, <1>2, <1>6 DEF SearchesFit, SearchIsForTheQuery
<1> QED
  BY <1>3, <1>7, OnlySearching DEF SearchAnswered

LEMMA OverlayStep ==
    ASSUME FocusInv, ToggleHelp \/ ToggleInspector \/ ResizeWindow \/ DismissOverlays \/ CloseOverlay PROVE FocusInv'
<1> DEFINE shut == [palette EXCEPT !.open = FALSE]
<1>1. shut \in Palettes /\ shut.open = FALSE
  BY PalettesClose DEF FocusInv
<1>2. PlaceOK /\ SearchOK /\ SearchesFit
  BY DEF FocusInv
<1> HIDE DEF shut
<1>3. Turn(shut) => SearchOK' /\ SearchesFit' /\ palette' = shut
  BY <1>1, <1>2, TurnFits
<1>4. WaysFit(steps, resumeVersion, wish)'
  <2>1. steps' = steps /\ resumeVersion' = resumeVersion /\ wish' = wish
    BY DEF ToggleHelp, ToggleInspector, ResizeWindow, DismissOverlays, CloseOverlay, place
  <2> QED
    BY <2>1 DEF FocusInv
<1>5. CASE ToggleHelp
  <2>1. PlaceOK'
    BY <1>1, <1>2, <1>3, <1>5 DEF ToggleHelp, PlaceOK, place, shut
  <2> QED
    BY <1>3, <1>4, <1>5, <2>1 DEF ToggleHelp, FocusInv, shut
<1>6. CASE ToggleInspector
  <2>1. PlaceOK'
    BY <1>2, <1>6 DEF ToggleInspector, PlaceOK, place
  <2> QED
    BY <1>2, <1>4, <1>6, <2>1, SearchStays DEF ToggleInspector, FocusInv
<1>7. CASE ResizeWindow
  <2>1. PlaceOK'
    BY <1>2, <1>7 DEF ResizeWindow, PlaceOK, place
  <2> QED
    BY <1>2, <1>4, <1>7, <2>1, SearchStays DEF ResizeWindow, FocusInv
<1>8. CASE DismissOverlays
  <2>1. /\ textSearch' = textSearch /\ focusedHit' = focusedHit /\ resumed' = resumed /\ narrow' = narrow
        /\ activeComment' \in {activeComment, NoNote}
    BY <1>8 DEF DismissOverlays
  <2>2. CASE compactInspector /\ ~palette.open /\ ~help
    <3>1. compactInspector' = FALSE /\ palette' = palette /\ help' = help /\ UNCHANGED search
      BY <1>8, <2>2 DEF DismissOverlays
    <3>2. PlaceOK'
      BY <1>2, <2>1, <3>1 DEF PlaceOK
    <3> QED
      BY <1>2, <1>4, <3>1, <3>2, SearchStays DEF FocusInv
  <2>3. CASE ~(compactInspector /\ ~palette.open /\ ~help)
    <3>1. compactInspector' = compactInspector /\ help' = FALSE /\ Turn(shut)
      BY <1>8, <2>3 DEF DismissOverlays, shut
    <3>2. PlaceOK'
      BY <1>1, <1>2, <1>3, <2>1, <3>1 DEF PlaceOK
    <3> QED
      BY <1>3, <1>4, <3>1, <3>2 DEF FocusInv
  <2> QED
    BY <2>2, <2>3
<1>9. CASE CloseOverlay
  <2>1. help' = FALSE /\ UNCHANGED <<narrow, compactInspector, place>>
    BY <1>9 DEF CloseOverlay
  <2>2. CASE help
    <3>1. palette' = palette /\ UNCHANGED search
      BY <1>9, <2>2 DEF CloseOverlay
    <3>2. PlaceOK'
      BY <1>2, <2>1, <3>1 DEF PlaceOK, place
    <3> QED
      BY <1>2, <1>4, <3>1, <3>2, SearchStays DEF FocusInv
  <2>3. CASE ~help
    <3>1. Turn(shut)
      BY <1>9, <2>3 DEF CloseOverlay, shut
    <3>2. PlaceOK'
      BY <1>1, <1>2, <1>3, <2>1, <3>1 DEF PlaceOK, place
    <3> QED
      BY <1>3, <1>4, <3>1, <3>2 DEF FocusInv
  <2> QED
    BY <2>2, <2>3
<1> QED
  BY <1>5, <1>6, <1>7, <1>8, <1>9

\* What a step towards a place is made of.
LEMMA StepIsWay ==
    ASSUME resumeVersion \in Nat, NEW why \in {"hit", "target", "resume", "save"}, NEW what \in Notes \cup {NoNote},
           NEW hit \in Places
    PROVE  /\ Step(why, what, hit) \in Ways /\ Step(why, what, hit).version = resumeVersion
           /\ Step(why, what, hit).why = why /\ Step(why, what, hit).what = what
  BY DEF Step, Ways

LEMMA NoHitIsPlace == NoHit \in Places
  BY FocusAssumption DEF NoHit, Places, Sought

LEMMA OpenFromPaletteStep == ASSUME FocusInv, NEW index \in 0..(Hits - 1), OpenFromPalette(index) PROVE FocusInv'
<1> DEFINE shut == [palette EXCEPT !.open = FALSE, !.query = NoQuery]
           hit == [query |-> results["text"], index |-> index]
<1>1. PlaceOK /\ SearchOK /\ SearchesFit /\ WaysFit(steps, resumeVersion, wish)
  BY DEF FocusInv
<1>2. shut \in Palettes /\ shut.open = FALSE
  BY <1>1 DEF PlaceOK, Palettes, Sought
<1>3. hit \in Places
  BY <1>1 DEF SearchOK, Places, Kinds
<1>4. Turn(shut)
  BY DEF OpenFromPalette, shut
<1>5. steps' = Append(steps, Step("hit", NoNote, hit)) /\ activeComment' = NoNote
  BY DEF OpenFromPalette, LoadThen, hit
<1>6. UNCHANGED <<help, narrow, compactInspector, textSearch, focusedHit, resumed, resumeVersion, wish>>
  BY DEF OpenFromPalette
<1> HIDE DEF shut, hit
<1>7. SearchOK' /\ SearchesFit' /\ palette' = shut
  BY <1>1, <1>2, <1>4, TurnFits
<1>8. PlaceOK'
  BY <1>1, <1>2, <1>5, <1>6, <1>7 DEF PlaceOK
<1>9. resumeVersion \in Nat
  BY <1>1 DEF WaysFit
<1>10. WaysFit(steps, resumeVersion, wish)'
  <2>1. /\ Step("hit", NoNote, hit) \in Ways /\ Step("hit", NoNote, hit).version = resumeVersion
        /\ Step("hit", NoNote, hit).why = "hit"
    BY <1>3, <1>9, StepIsWay
  <2>2. WaysFit(Append(steps, Step("hit", NoNote, hit)), resumeVersion, wish)
    BY <1>1, <1>9, <2>1, WaysAppend
  <2> QED
    BY <1>5, <1>6, <2>2
<1> QED
  BY <1>7, <1>8, <1>10 DEF FocusInv

LEMMA MoveTextSearchResultStep == ASSUME FocusInv, NEW delta \in {-1, 1}, MoveTextSearchResult(delta) PROVE FocusInv'
<1> DEFINE next == MoveTextSearchSession(textSearch, delta)
<1>1. PlaceOK /\ SearchOK /\ SearchesFit /\ WaysFit(steps, resumeVersion, wish)
  BY DEF FocusInv
<1>2. textSearch \in Places /\ Hits \in Nat \ {0}
  BY <1>1, FocusAssumption DEF PlaceOK
<1>3. textSearch.index \in 0..(Hits - 1) /\ textSearch.query \in Sought
  BY <1>2 DEF Places
<1>4. (textSearch.index + delta + Hits) % Hits \in 0..(Hits - 1)
  <2>1. \A n \in Int : n % Hits \in 0..(Hits - 1)
    BY <1>2
  <2>2. textSearch.index + delta + Hits \in Int
    BY <1>2, <1>3
  <2> QED
    BY <2>1, <2>2
<1>5. next \in Places
  BY <1>2, <1>4 DEF MoveTextSearchSession, Places
<1>6. /\ steps' = Append(steps, Step("hit", NoNote, next)) /\ activeComment' = NoNote /\ textSearch' = next
      /\ UNCHANGED <<overlays, search, focusedHit, resumed, resumeVersion, wish>>
  BY DEF MoveTextSearchResult, LoadThen, next
<1> HIDE DEF next
<1>7. PlaceOK'
  BY <1>1, <1>5, <1>6 DEF PlaceOK, overlays
<1>8. resumeVersion \in Nat
  BY <1>1 DEF WaysFit
<1>9. WaysFit(steps, resumeVersion, wish)'
  BY <1>1, <1>5, <1>6, <1>8, StepIsWay, WaysAppend
<1>10. SearchOK' /\ SearchesFit'
  BY <1>1, <1>6, SearchStays DEF overlays
<1> QED
  BY <1>7, <1>9, <1>10 DEF FocusInv

LEMMA OpenReviewTargetStep == ASSUME FocusInv, NEW note \in Notes, OpenReviewTarget(note) PROVE FocusInv'
<1> DEFINE shut == [palette EXCEPT !.open = FALSE]
<1>1. PlaceOK /\ SearchOK /\ SearchesFit /\ WaysFit(steps, resumeVersion, wish)
  BY DEF FocusInv
<1>2. shut \in Palettes /\ shut.open = FALSE
  BY <1>1, PalettesClose
<1>3. /\ Turn(shut) /\ help' = FALSE /\ steps' = Append(steps, Step("target", note, NoHit)) /\ activeComment' = NoNote
      /\ UNCHANGED <<narrow, compactInspector, textSearch, focusedHit, resumed, resumeVersion, wish>>
  BY DEF OpenReviewTarget, LoadThen, shut
<1> HIDE DEF shut
<1>4. SearchOK' /\ SearchesFit' /\ palette' = shut
  BY <1>1, <1>2, <1>3, TurnFits
<1>5. PlaceOK'
  BY <1>1, <1>2, <1>3, <1>4 DEF PlaceOK
<1>6. resumeVersion \in Nat
  BY <1>1 DEF WaysFit
<1>7. WaysFit(steps, resumeVersion, wish)'
  BY <1>1, <1>3, <1>6, NoHitIsPlace, StepIsWay, WaysAppend
<1> QED
  BY <1>4, <1>5, <1>7 DEF FocusInv

LEMMA ResumeCommentInputStep == ASSUME FocusInv, NEW note \in Notes, ResumeCommentInput(note) PROVE FocusInv'
<1> DEFINE way == [Step("resume", note, NoHit) EXCEPT !.version = resumeVersion + 1]
<1>1. PlaceOK /\ SearchOK /\ SearchesFit /\ WaysFit(steps, resumeVersion, wish) /\ resumeVersion \in Nat
  BY DEF FocusInv, WaysFit
<1>2. way \in Ways /\ way.version = resumeVersion + 1 /\ way.what = note
  BY <1>1, NoHitIsPlace DEF Step, Ways
<1>3. /\ resumeVersion' = resumeVersion + 1 /\ wish' = note
      /\ steps' = Append(steps, way) /\ activeComment' = NoNote
      /\ UNCHANGED <<overlays, search, textSearch, focusedHit, resumed>>
  BY DEF ResumeCommentInput, LoadThen, way
<1> HIDE DEF way
<1>4. PlaceOK'
  BY <1>1, <1>3 DEF PlaceOK, overlays
<1>5. SearchOK' /\ SearchesFit'
  BY <1>1, <1>3, SearchStays DEF overlays
<1>6. WaysFit(steps, resumeVersion + 1, note)
  BY <1>1, WaysVoid
<1>7. WaysFit(Append(steps, way), resumeVersion + 1, note)
  BY <1>1, <1>2, <1>6, WaysAppend
<1> QED
  BY <1>3, <1>4, <1>5, <1>7 DEF FocusInv

LEMMA InlineCommentStep ==
    ASSUME FocusInv, (\E note \in Notes : OpenInlineComment(note)) \/ CloseInlineComment \/ CreateComment PROVE FocusInv'
<1>1. PlaceOK /\ SearchOK /\ SearchesFit /\ WaysFit(steps, resumeVersion, wish) /\ resumeVersion \in Nat
  BY DEF FocusInv, WaysFit
<1>2. /\ UNCHANGED <<overlays, search, textSearch, focusedHit>> /\ activeComment' \in Notes \cup {activeComment, NoNote}
      /\ resumed' \in {resumed, NoNote}
  BY DEF OpenInlineComment, CloseInlineComment, CreateComment
<1>3. PlaceOK'
  BY <1>1, <1>2 DEF PlaceOK, overlays
<1>4. SearchOK' /\ SearchesFit'
  BY <1>1, <1>2, SearchStays DEF overlays
<1>5. WaysFit(steps, resumeVersion + 1, NoNote)
  BY <1>1, WaysVoid
<1>6. WaysFit(Append(steps, Step("save", NoNote, NoHit)), resumeVersion + 1, NoNote)
  <2>1. /\ Step("save", NoNote, NoHit) \in Ways /\ Step("save", NoNote, NoHit).version = resumeVersion
        /\ Step("save", NoNote, NoHit).why = "save"
    BY <1>1, NoHitIsPlace, StepIsWay
  <2>2. WaysFit(Append(steps, Step("save", NoNote, NoHit)), resumeVersion, wish)
    BY <1>1, <2>1, WaysAppend
  <2> QED
    BY <2>2, WaysVoid
<1>7. WaysFit(steps, resumeVersion, wish)'
  <2>1. CASE \E note \in Notes : OpenInlineComment(note)
    BY <1>1, <2>1 DEF OpenInlineComment
  <2>2. CASE CloseInlineComment
    BY <1>5, <2>2 DEF CloseInlineComment
  <2>3. CASE CreateComment
    BY <1>6, <2>3 DEF CreateComment
  <2> QED
    BY <2>1, <2>2, <2>3
<1> QED
  BY <1>3, <1>4, <1>7 DEF FocusInv

\* What an arrival does to the place.
LEMMA ArriveStep ==
    ASSUME FocusInv, NEW i \in DOMAIN steps, Arrive(i)
    PROVE  FocusInv' /\ (resumed' \notin {resumed, NoNote} => wish = resumed')
<1> DEFINE way == steps[i]
           more == /\ way.why \in {"target", "resume"} /\ way.stage = "file" /\ way.what \in OnDiff
                   /\ (way.why = "resume" => IsNewest(way))
           onDiff == [steps EXCEPT ![i].stage = "diff"]
<1>1. PlaceOK /\ SearchOK /\ SearchesFit /\ WaysFit(steps, resumeVersion, wish) /\ steps \in Seq(Ways)
  BY DEF FocusInv, WaysFit
<1>2. way \in Ways
  BY <1>1
<1>3. steps' = IF more THEN onDiff ELSE RemoveAt(steps, i)
  BY DEF Arrive, way, more, onDiff
<1>4. /\ UNCHANGED <<overlays, search, resumeVersion, wish>>
      /\ focusedHit' \in {focusedHit, way.hit} /\ textSearch' \in {textSearch, way.hit}
      /\ activeComment' \in {activeComment, NoNote, way.what}
      /\ resumed' = resumed \/ (way.why = "resume" /\ IsNewest(way) /\ resumed' = way.what)
  BY DEF Arrive, way, more
<1> HIDE DEF more
<1>5. way.hit \in Places /\ way.what \in Notes \cup {NoNote}
  BY <1>2 DEF Ways
<1>6. way.why = "resume" /\ IsNewest(way) => way.what = wish
  BY <1>1 DEF WaysFit, IsNewest
<1>7. WaysFit(onDiff, resumeVersion, wish)
  <2>1. [way EXCEPT !.stage = "diff"] \in Ways
    BY <1>2 DEF Ways
  <2>2. onDiff = [steps EXCEPT ![i] = [way EXCEPT !.stage = "diff"]]
    BY DEF onDiff, way
  <2>3. /\ onDiff \in Seq(Ways) /\ DOMAIN onDiff = DOMAIN steps
        /\ \A j \in DOMAIN steps : onDiff[j] = IF j = i THEN [way EXCEPT !.stage = "diff"] ELSE steps[j]
    BY <1>1, <2>1, <2>2
  <2>4. LET w == [way EXCEPT !.stage = "diff"]
        IN  w.version = way.version /\ w.why = way.why /\ w.what = way.what
    BY <1>2 DEF Ways
  <2>5. \A j \in DOMAIN steps : /\ onDiff[j].version = steps[j].version /\ onDiff[j].why = steps[j].why
                                /\ onDiff[j].what = steps[j].what
    BY <2>3, <2>4 DEF way
  <2> HIDE DEF onDiff
  <2> QED
    BY <1>1, <2>3, <2>5 DEF WaysFit
<1>8. WaysFit(RemoveAt(steps, i), resumeVersion, wish)
  BY <1>1, WaysRemove
<1> HIDE DEF onDiff, way
<1>9. WaysFit(steps, resumeVersion, wish)'
  BY <1>3, <1>4, <1>7, <1>8
<1>10. PlaceOK'
  BY <1>1, <1>4, <1>5 DEF PlaceOK, overlays
<1>11. SearchOK' /\ SearchesFit'
  BY <1>1, <1>4, SearchStays DEF overlays
<1> QED
  BY <1>4, <1>6, <1>9, <1>10, <1>11 DEF FocusInv

LEMMA FailStep == ASSUME FocusInv, NEW i \in DOMAIN steps, Fail(i) PROVE FocusInv'
<1>1. /\ PlaceOK /\ SearchOK /\ SearchesFit /\ WaysFit(steps, resumeVersion, wish)
      /\ UNCHANGED <<overlays, search, place, wish>> /\ steps' = RemoveAt(steps, i)
  BY DEF FocusInv, Fail
<1>2. WaysFit(steps, resumeVersion, wish)'
  BY <1>1, WaysRemove DEF place
<1>3. PlaceOK'
  BY <1>1 DEF PlaceOK, overlays, place
<1>4. SearchOK' /\ SearchesFit'
  BY <1>1, SearchStays DEF overlays
<1> QED
  BY <1>2, <1>3, <1>4 DEF FocusInv

LEMMA FocusStep == ASSUME FocusInv, FocusNext PROVE FocusInv' /\ (resumed' \notin {resumed, NoNote} => wish = resumed')
<1>1. CASE \E i \in DOMAIN steps : Arrive(i)
  BY <1>1, ArriveStep
<1>2. ASSUME NEW i \in DOMAIN steps, Fail(i) PROVE FocusInv' /\ resumed' = resumed
  BY <1>2, FailStep DEF Fail, place
<1>3. ASSUME NEW mode \in Kinds \cup {"action"}, OpenPalette(mode) PROVE FocusInv' /\ resumed' = resumed
  BY <1>3, OpenPaletteStep DEF OpenPalette, place
<1>4. ASSUME NEW q \in Queries, TypeQuery(q) PROVE FocusInv' /\ resumed' = resumed
  BY <1>4, TypeQueryStep DEF TypeQuery, place
<1>5. ASSUME NEW k \in Kinds, SearchTimer(k) PROVE FocusInv' /\ resumed' = resumed
  BY <1>5, SearchTimerStep DEF SearchTimer, place
<1>6. ASSUME NEW s \in searches, SearchAnswered(s) PROVE FocusInv' /\ resumed' = resumed
  BY <1>6, SearchAnsweredStep DEF SearchAnswered, place
<1>7. CASE ToggleHelp \/ ToggleInspector \/ ResizeWindow \/ DismissOverlays \/ CloseOverlay
  <2>1. resumed' = resumed
    BY <1>7 DEF ToggleHelp, ToggleInspector, ResizeWindow, DismissOverlays, CloseOverlay, place
  <2> QED
    BY <1>7, <2>1, OverlayStep
<1>8. ASSUME NEW index \in 0..(Hits - 1), OpenFromPalette(index) PROVE FocusInv' /\ resumed' = resumed
  BY <1>8, OpenFromPaletteStep DEF OpenFromPalette
<1>9. ASSUME NEW delta \in {-1, 1}, MoveTextSearchResult(delta) PROVE FocusInv' /\ resumed' = resumed
  BY <1>9, MoveTextSearchResultStep DEF MoveTextSearchResult
<1>10. ASSUME NEW note \in Notes, OpenReviewTarget(note) PROVE FocusInv' /\ resumed' = resumed
  BY <1>10, OpenReviewTargetStep DEF OpenReviewTarget
<1>11. ASSUME NEW note \in Notes, ResumeCommentInput(note) PROVE FocusInv' /\ resumed' = resumed
  BY <1>11, ResumeCommentInputStep DEF ResumeCommentInput
<1>12. CASE (\E note \in Notes : OpenInlineComment(note)) \/ CloseInlineComment \/ CreateComment
  <2>1. resumed' \in {resumed, NoNote}
    BY <1>12 DEF OpenInlineComment, CloseInlineComment, CreateComment
  <2> QED
    BY <1>12, <2>1, InlineCommentStep
<1> QED
  BY <1>1, <1>2, <1>3, <1>4, <1>5, <1>6, <1>7, <1>8, <1>9, <1>10, <1>11, <1>12 DEF FocusNext

\* What is not about the reader's place leaves it alone.
LEMMA FocusGoesOn ==
    ASSUME FocusInv, [MCNext]_<<reviewVars, focusVars, treeVars, paletteVars, concern>>
    PROVE  FocusInv' /\ [resumed' \notin {resumed, NoNote} => wish = resumed']_focusVars
<1>1. CASE UNCHANGED focusVars
  <2>1. UNCHANGED <<overlays, search, place, steps, wish>>
    BY <1>1 DEF focusVars
  <2>2. SearchOK' /\ SearchesFit'
    BY <2>1, SearchStays DEF FocusInv, overlays
  <2> QED
    BY <1>1, <2>1, <2>2, OnlySearching
<1>2. CASE FocusNext
  BY <1>2, FocusStep
<1> QED
  BY <1>1, <1>2 DEF MCNext

\* An input is taken up again only if that was the last thing asked for: no file that arrives late
\* reopens one after another was resumed, one was saved, or the comment was closed
\* (resumeCommentInput of WorkbenchContainer).
THEOREM LateFilesDoNotResume == MCSpec => ResumeYields
<1>1. MCInit => FocusInv
  BY FocusStarts DEF MCInit
<1>2. FocusInv /\ [MCNext]_<<reviewVars, focusVars, treeVars, paletteVars, concern>>
      => FocusInv' /\ [resumed' \notin {resumed, NoNote} => wish = resumed']_focusVars
  BY FocusGoesOn
<1> QED
  BY <1>1, <1>2, PTL DEF MCSpec, ResumeYields

-----------------------------------------------------------------------------
(* The dialogs: what their operators say *)

\* A set with 0 that has with each number the next one has them all.
LEMMA SetInduction ==
    ASSUME NEW A, 0 \in A, \A n \in Nat : n \in A => n + 1 \in A
    PROVE  Nat \subseteq A
<1> DEFINE R == OpToRel(<, Nat)
           T == Nat \ A
<1>1. IsWellFoundedOn(R, Nat)
  BY NatLessThanWellFounded DEF OpToRel
<1>2. R = {ss \in Nat \X Nat : ss[1] < ss[2]}
  BY DEF OpToRel
<1> SUFFICES ASSUME T # {} PROVE FALSE
  OBVIOUS
<1> HIDE DEF R, T
<1>3. T \subseteq Nat
  BY DEF T
<1>4. PICK n \in T : \A m \in T : ~ (<<m, n>> \in R)
  BY <1>1, <1>3, WFMin
<1>5. n \in Nat /\ n # 0 /\ n - 1 \in Nat
  BY <1>3 DEF T
<1>6. n - 1 \in A
  <2>1. <<n - 1, n>> \in R
    BY <1>5, <1>2
  <2> QED
    BY <1>4, <2>1, <1>5 DEF T
<1> QED
  BY <1>4, <1>5, <1>6 DEF T

\* What is first and what is last of some places in a sequence.
LEMMA Extremes ==
    ASSUME NEW len \in Nat, NEW S \in SUBSET (1..len), S # {}
    PROVE  /\ Max(S) \in S /\ \A i \in S : i <= Max(S)
           /\ Min(S) \in S /\ \A i \in S : Min(S) <= i
<1> DEFINE Bounded(n) == \A Q \in SUBSET (1..n) :
                             Q # {} => (\E m \in Q : \A i \in Q : m >= i) /\ (\E m \in Q : \A i \in Q : m =< i)
           A == {n \in Nat : Bounded(n)}
<1>1. 0 \in A
  <2>1. 1..0 = {}
    OBVIOUS
  <2>2. Bounded(0)
    BY <2>1
  <2> QED
    BY <2>2
<1>2. \A n \in Nat : n \in A => n + 1 \in A
  <2> SUFFICES ASSUME NEW n \in Nat, Bounded(n) PROVE Bounded(n + 1)
    <3> HIDE DEF Bounded
    <3> QED
      OBVIOUS
  <2> SUFFICES ASSUME NEW Q \in SUBSET (1..(n + 1)), Q # {}
               PROVE  (\E m \in Q : \A i \in Q : m >= i) /\ (\E m \in Q : \A i \in Q : m =< i)
    OBVIOUS
  <2>1. \A i \in Q : i \in Int /\ i <= n + 1
    OBVIOUS
  <2>2. Q \ {n + 1} \in SUBSET (1..n)
    OBVIOUS
  <2>3. CASE Q \ {n + 1} = {}
    <3>1. Q = {n + 1}
      BY <2>3
    <3> QED
      BY <3>1
  <2>4. CASE Q \ {n + 1} # {}
    <3>1. PICK low \in Q \ {n + 1} : \A i \in Q \ {n + 1} : low =< i
      BY <2>2, <2>4
    <3>2. PICK high \in Q \ {n + 1} : \A i \in Q \ {n + 1} : high >= i
      BY <2>2, <2>4
    <3>3. \A i \in Q : low =< i
      BY <2>1, <3>1
    <3>4. CASE n + 1 \in Q
      BY <2>1, <3>1, <3>3, <3>4
    <3>5. CASE n + 1 \notin Q
      <4>1. Q \ {n + 1} = Q
        BY <3>5
      <4> QED
        BY <3>1, <3>2, <4>1
    <3> QED
      BY <3>4, <3>5
  <2> QED
    BY <2>3, <2>4
<1>3. Bounded(len)
  <2> HIDE DEF A
  <2>1. Nat \subseteq A
    BY <1>1, <1>2, SetInduction
  <2> QED
    BY <2>1 DEF A
<1>4. PICK low \in S : \A i \in S : low =< i
  BY <1>3
<1>5. PICK high \in S : \A i \in S : high >= i
  BY <1>3
<1>6. Max(S) \in S /\ \A i \in S : Max(S) >= i
  BY <1>5 DEF Max
<1>7. Min(S) \in S /\ \A i \in S : Min(S) =< i
  BY <1>4 DEF Min
<1>8. \A i \in S : i \in Int
  OBVIOUS
<1> QED
  BY <1>6, <1>7, <1>8

\* What is kept of some items is a sequence of them, and not a longer one.
KeptOf(q, n, items) == q \in Seq(ToSet(items)) /\ Len(q) <= n

LEMMA AmongType ==
    ASSUME NEW items, items \in Seq(ToSet(items)), NEW kept
    PROVE  Among(items, kept) \in Seq(ToSet(items)) /\ Len(Among(items, kept)) <= Len(items)
<1> DEFINE Item(g, n) ==
               IF n = 0 THEN <<>> ELSE IF items[n] \in kept THEN Append(g[n - 1], items[n]) ELSE g[n - 1]
           upTo == CHOOSE g : g = [n \in 0..Len(items) |-> Item(g, n)]
           A == {n \in Nat : \E g : g = [m \in 0..n |-> Item(g, m)]}
           B == {n \in Nat : n <= Len(items) => KeptOf(upTo[n], n, items)}
<1>0. Len(items) \in Nat /\ DOMAIN items = 1..Len(items)
  OBVIOUS
<1>1. Among(items, kept) = upTo[Len(items)]
  BY DEF Among
<1>2. 0 \in A
  <2>1. [m \in 0..0 |-> <<>>] = [m \in 0..0 |-> Item([i \in 0..0 |-> <<>>], m)]
    OBVIOUS
  <2> QED
    BY <2>1
<1>3. \A n \in Nat : n \in A => n + 1 \in A
  <2> SUFFICES ASSUME NEW n \in Nat, n \in A PROVE n + 1 \in A
    OBVIOUS
  <2>1. PICK g : g = [m \in 0..n |-> Item(g, m)]
    OBVIOUS
  <2> DEFINE h == [m \in 0..(n + 1) |-> IF m = n + 1 THEN Item(g, m) ELSE g[m]]
  <2>2. \A m \in 0..(n + 1) : h[m] = Item(h, m)
    <3> SUFFICES ASSUME NEW m \in 0..(n + 1) PROVE h[m] = Item(h, m)
      OBVIOUS
    <3>1. m = 0 \/ (m - 1 \in 0..n /\ h[m - 1] = g[m - 1])
      OBVIOUS
    <3>2. Item(h, m) = Item(g, m)
      BY <3>1
    <3>3. m = n + 1 \/ g[m] = Item(g, m)
      <4>1. \A i \in 0..n : g[i] = [k \in 0..n |-> Item(g, k)][i]
        BY <2>1
      <4>2. \A i \in 0..n : g[i] = Item(g, i)
        BY <4>1
      <4> QED
        BY <4>2
    <3> QED
      BY <3>2, <3>3
  <2>3. h = [m \in 0..(n + 1) |-> Item(h, m)]
    BY <2>2
  <2> HIDE DEF h
  <2>4. \E k : k = [m \in 0..(n + 1) |-> Item(k, m)]
    BY <2>3
  <2>5. n + 1 \in Nat
    OBVIOUS
  <2> HIDE DEF Item
  <2> QED
    BY <2>4, <2>5
<1>4. Len(items) \in A
  <2> HIDE DEF A
  <2>1. Nat \subseteq A
    BY <1>2, <1>3, SetInduction
  <2> QED
    BY <1>0, <2>1
<1>5. upTo = [n \in 0..Len(items) |-> Item(upTo, n)]
  BY <1>4
<1> HIDE DEF upTo
<1>6. 0 \in B
  <2>1. upTo[0] = <<>>
    BY <1>0, <1>5
  <2>2. KeptOf(<<>>, 0, items)
    BY DEF KeptOf
  <2> QED
    BY <2>1, <2>2
<1>7. \A n \in Nat : n \in B => n + 1 \in B
  <2> SUFFICES ASSUME NEW n \in Nat, n \in B, n + 1 <= Len(items) PROVE KeptOf(upTo[n + 1], n + 1, items)
    OBVIOUS
  <2>1. n + 1 \in 0..Len(items) /\ n + 1 # 0 /\ (n + 1) - 1 = n /\ items[n + 1] \in ToSet(items)
    BY <1>0 DEF ToSet
  <2>2. upTo[n] \in Seq(ToSet(items)) /\ Len(upTo[n]) <= n
    BY <1>0 DEF KeptOf
  <2>3. upTo[n + 1] = Item(upTo, n + 1)
    BY <1>5, <2>1
  <2>4. upTo[n + 1] = IF items[n + 1] \in kept THEN Append(upTo[n], items[n + 1]) ELSE upTo[n]
    BY <2>1, <2>3
  <2>5. Append(upTo[n], items[n + 1]) \in Seq(ToSet(items)) /\ Len(Append(upTo[n], items[n + 1])) = Len(upTo[n]) + 1
    BY <2>1, <2>2
  <2> QED
    BY <2>2, <2>4, <2>5 DEF KeptOf
<1>8. Len(items) \in B
  <2> HIDE DEF B
  <2>1. Nat \subseteq B
    BY <1>6, <1>7, SetInduction
  <2> QED
    BY <1>0, <2>1
<1> QED
  BY <1>0, <1>1, <1>8 DEF KeptOf

\* One arrow key marks the next result, or goes around.
NextOf(at, count, delta) ==
    IF at + delta = count THEN 0 ELSE IF at + delta = -1 THEN count - 1 ELSE at + delta

LEMMA Moved ==
    ASSUME NEW count \in Nat \ {0}, NEW index \in Int, NEW delta \in {-1, 1},
           NEW at, at = ClampPaletteSelection(index, count)
    PROVE  /\ at \in 0..(count - 1) /\ (index \in 0..(count - 1) => at = index)
           /\ MovePaletteSelection(index, count, delta) = NextOf(at, count, delta)
<1>1. at \in 0..(count - 1) /\ (index \in 0..(count - 1) => at = index)
  BY DEF ClampPaletteSelection
<1>2. MovePaletteSelection(index, count, delta) = (at + delta + count) % count
  BY DEF MovePaletteSelection
<1>3. \A k \in 0..(count - 1) : k % count = k /\ (k + count) % count = k
  OBVIOUS
<1>4. CASE at + delta = count
  <2>1. at + delta + count = (0 + count) + count
    BY <1>1, <1>4
  <2>2. (0 + count + count) % count = 0
    OBVIOUS
  <2> QED
    BY <1>1, <1>2, <1>4, <2>1, <2>2 DEF NextOf
<1>5. CASE at + delta = -1
  <2>1. at + delta + count = count - 1 /\ count - 1 \in 0..(count - 1)
    BY <1>1, <1>5
  <2> QED
    BY <1>1, <1>2, <1>3, <1>5, <2>1 DEF NextOf
<1>6. CASE at + delta \notin {-1, count}
  <2>1. at + delta \in 0..(count - 1)
    BY <1>1, <1>6
  <2> QED
    BY <1>1, <1>2, <1>3, <1>6, <2>1 DEF NextOf
<1> QED
  BY <1>4, <1>5, <1>6

\* Where some arrow keys lead from a result at.
Turned(at, n, count, delta) ==
    IF at + delta * n \in 0..(count - 1) THEN at + delta * n ELSE at + delta * n - delta * count

LEMMA ArrowsGoRound ==
    ASSUME NEW count \in Nat \ {0}, NEW mark \in Int, NEW delta \in {-1, 1},
           NEW at, at = ClampPaletteSelection(mark, count)
    PROVE  \A n \in 1..count : After(mark, count, delta)[n] = Turned(at, n, count, delta)
<1> DEFINE Item(g, n) == IF n = 0 THEN mark ELSE MovePaletteSelection(g[n - 1], count, delta)
           after == CHOOSE g : g = [n \in 0..count |-> Item(g, n)]
           A == {n \in Nat : \E g : g = [m \in 0..n |-> Item(g, m)]}
           B == {n \in Nat : n + 1 <= count => after[n + 1] = Turned(at, n + 1, count, delta)}
<1>1. After(mark, count, delta) = after
  BY DEF After
<1>2. 0 \in A
  <2>1. [m \in 0..0 |-> mark] = [m \in 0..0 |-> Item([i \in 0..0 |-> mark], m)]
    OBVIOUS
  <2> QED
    BY <2>1
<1>3. \A n \in Nat : n \in A => n + 1 \in A
  <2> SUFFICES ASSUME NEW n \in Nat, n \in A PROVE n + 1 \in A
    OBVIOUS
  <2>1. PICK g : g = [m \in 0..n |-> Item(g, m)]
    OBVIOUS
  <2> DEFINE h == [m \in 0..(n + 1) |-> IF m = n + 1 THEN Item(g, m) ELSE g[m]]
  <2>2. \A m \in 0..(n + 1) : h[m] = Item(h, m)
    <3> SUFFICES ASSUME NEW m \in 0..(n + 1) PROVE h[m] = Item(h, m)
      OBVIOUS
    <3>1. m = 0 \/ (m - 1 \in 0..n /\ h[m - 1] = g[m - 1])
      OBVIOUS
    <3>2. Item(h, m) = Item(g, m)
      BY <3>1
    <3>3. m = n + 1 \/ g[m] = Item(g, m)
      <4>1. \A i \in 0..n : g[i] = [k \in 0..n |-> Item(g, k)][i]
        BY <2>1
      <4>2. \A i \in 0..n : g[i] = Item(g, i)
        BY <4>1
      <4> QED
        BY <4>2
    <3> QED
      BY <3>2, <3>3
  <2>3. h = [m \in 0..(n + 1) |-> Item(h, m)]
    BY <2>2
  <2> HIDE DEF h
  <2>4. \E k : k = [m \in 0..(n + 1) |-> Item(k, m)]
    BY <2>3
  <2>5. n + 1 \in Nat
    OBVIOUS
  <2> HIDE DEF Item
  <2> QED
    BY <2>4, <2>5
<1>4. count \in A
  <2> HIDE DEF A
  <2>1. Nat \subseteq A
    BY <1>2, <1>3, SetInduction
  <2> QED
    BY <2>1
<1>5. after = [n \in 0..count |-> Item(after, n)]
  BY <1>4
<1> HIDE DEF after
<1>6. at \in 0..(count - 1)
  BY Moved
<1>7. \A n \in Nat : n + 1 <= count => after[n + 1] = MovePaletteSelection(after[n], count, delta)
  BY <1>5
<1>8. 0 \in B
  <2>1. after[0] = mark
    BY <1>5
  <2>2. after[1] = MovePaletteSelection(mark, count, delta)
    BY <1>7, <2>1
  <2>3. MovePaletteSelection(mark, count, delta) = NextOf(at, count, delta)
    BY Moved
  <2> QED
    BY <1>6, <2>2, <2>3 DEF Turned, NextOf
<1>9. \A n \in Nat : n \in B => n + 1 \in B
  <2> SUFFICES ASSUME NEW n \in Nat, n \in B, n + 2 <= count
               PROVE  after[n + 2] = Turned(at, n + 2, count, delta)
    OBVIOUS
  <2>1. PICK x : x = Turned(at, n + 1, count, delta)
    OBVIOUS
  <2>2. x \in 0..(count - 1) /\ x \in Int
    BY <1>6, <2>1 DEF Turned
  <2>3. after[n + 1] = x
    BY <2>1
  <2>4. after[n + 2] = MovePaletteSelection(x, count, delta)
    BY <1>7, <2>3
  <2>5. x = ClampPaletteSelection(x, count)
    BY <2>2 DEF ClampPaletteSelection
  <2>6. MovePaletteSelection(x, count, delta) = NextOf(x, count, delta)
    BY <2>2, <2>5, Moved
  <2> QED
    BY <1>6, <2>1, <2>2, <2>4, <2>6 DEF Turned, NextOf
<1>10. Nat \subseteq B
  <2> HIDE DEF B
  <2> QED
    BY <1>8, <1>9, SetInduction
<1>11. ASSUME NEW n \in 1..count PROVE after[n] = Turned(at, n, count, delta)
  <2>1. n - 1 \in B /\ (n - 1) + 1 = n /\ n <= count
    BY <1>10
  <2> QED
    BY <2>1
<1> QED
  BY <1>1, <1>11

\* As many arrow keys as there are results mark each of them.
LEMMA ArrowsReach ==
    ASSUME NEW count \in Nat, NEW mark \in Int, NEW delta \in {-1, 1}
    PROVE  {After(mark, count, delta)[n] : n \in 1..count} = 0 .. count - 1
<1>1. CASE count = 0
  BY <1>1
<1>2. CASE count # 0
  <2>1. PICK at : at = ClampPaletteSelection(mark, count)
    OBVIOUS
  <2>2. at \in 0..(count - 1)
    BY <1>2, <2>1, Moved
  <2>3. \A n \in 1..count : After(mark, count, delta)[n] = Turned(at, n, count, delta)
    BY <1>2, <2>1, ArrowsGoRound
  <2>4. \A n \in 1..count : Turned(at, n, count, delta) \in 0..(count - 1)
    BY <2>2 DEF Turned
  <2>5. ASSUME NEW i \in 0..(count - 1) PROVE \E n \in 1..count : Turned(at, n, count, delta) = i
    <3>1. CASE delta * (i - at) > 0
      <4>1. delta * (i - at) \in 1..count /\ Turned(at, delta * (i - at), count, delta) = i
        BY <2>2, <3>1 DEF Turned
      <4> QED
        BY <4>1
    <3>2. CASE delta * (i - at) <= 0
      <4>1. /\ delta * (i - at) + count \in 1..count
            /\ Turned(at, delta * (i - at) + count, count, delta) = i
        BY <2>2, <3>2 DEF Turned
      <4> QED
        BY <4>1
    <3> QED
      BY <2>2, <3>1, <3>2
  <2> QED
    BY <2>3, <2>4, <2>5
<1> QED
  BY <1>1, <1>2

-----------------------------------------------------------------------------
(* The dialogs: what is in them *)

Found == ToSet(Finds) \cup ToSet(Deeds)
Screens == [dialog : Dialogs \cup {"none"}, mode : ToSet(Modes), offered : Seq(Found), refused : SUBSET ToSet(Deeds)]

ScreenOK(s) ==
    /\ s \in Screens
    /\ ToSet(s.offered) \subseteq ToSet(IF s.mode = "action" THEN Deeds ELSE Finds)
    /\ Len(s.offered) <= Len(Finds) + Len(Deeds)

Spots == {Body} \cup {Control(c) : c \in Controls}
Buttons == {ModeButton(mode) : mode \in ToSet(Modes)}
Results == {Element("result", item) : item \in Found}

LEMMA ModesAre == ToSet(Modes) = {"file", "text", "action"} /\ DOMAIN Modes = 1..3 /\ Len(Modes) = 3
  BY DEF Modes, ToSet

\* The palette has the modes, the query and the results, in this order.
InOrder(order) ==
    /\ order \in Seq(Buttons \cup {QueryInput} \cup Results) /\ Len(order) >= 4
    /\ order[1] = ModeButton("file") /\ order[2] = ModeButton("text") /\ order[3] = ModeButton("action")
    /\ order[4] = QueryInput
    /\ \A i \in 5..Len(order) : order[i] \in Results

LEMMA InsideOfPalette ==
    ASSUME NEW s, ScreenOK(s), s.dialog = "palette"
    PROVE  InOrder(Inside(s))
<1> DEFINE T == Buttons \cup {QueryInput} \cup Results
<1>1. s.offered \in Seq(Found) /\ s.offered \in Seq(ToSet(s.offered)) /\ ToSet(s.offered) \subseteq Found
  BY DEF ScreenOK, Screens, ToSet
<1>2. PICK found : found = Enabled(s)
  OBVIOUS
<1>3. found \in Seq(Found)
  <2>1. found \in Seq(ToSet(s.offered))
    BY <1>1, <1>2, AmongType DEF Enabled
  <2> QED
    BY <1>1, <2>1
<1>4. PICK bar : bar = [i \in DOMAIN Modes |-> ModeButton(Modes[i])]
  OBVIOUS
<1>5. PICK list : list = [i \in DOMAIN found |-> Element("result", found[i])]
  OBVIOUS
<1>6. Inside(s) = bar \o <<QueryInput>> \o list
  BY <1>2, <1>4, <1>5 DEF Inside
<1>7. bar \in Seq(T) /\ Len(bar) = 3 /\ bar[1] = ModeButton("file") /\ bar[2] = ModeButton("text") /\ bar[3] = ModeButton("action")
  <2>1. bar \in [1..3 -> T]
    BY <1>4, ModesAre DEF Buttons, ToSet
  <2> QED
    BY <1>4, <2>1, ModesAre DEF Modes
<1>8. list \in Seq(T) /\ \A i \in 1..Len(list) : list[i] \in Results
  <2>1. DOMAIN found = 1..Len(found) /\ Len(found) \in Nat /\ \A i \in 1..Len(found) : found[i] \in Found
    BY <1>3
  <2>2. list \in [1..Len(found) -> Results]
    BY <1>5, <2>1 DEF Results
  <2> QED
    BY <2>1, <2>2
<1>9. <<QueryInput>> \in Seq(T) /\ Len(<<QueryInput>>) = 1
  OBVIOUS
<1> HIDE DEF T
<1>10. PICK front : front = bar \o <<QueryInput>>
  OBVIOUS
<1>11. /\ front \in Seq(T) /\ Len(front) = 4 /\ front[4] = QueryInput
       /\ front[1] = ModeButton("file") /\ front[2] = ModeButton("text") /\ front[3] = ModeButton("action")
  <2>1. /\ front \in Seq(T) /\ Len(front) = Len(bar) + Len(<<QueryInput>>)
        /\ \A i \in 1 .. Len(bar) + Len(<<QueryInput>>) :
               front[i] = IF i <= Len(bar) THEN bar[i] ELSE <<QueryInput>>[i - Len(bar)]
    BY <1>7, <1>9, <1>10, ConcatProperties
  <2>2. 1 \in 1..4 /\ 2 \in 1..4 /\ 3 \in 1..4 /\ 4 \in 1..4 /\ <<QueryInput>>[4 - 3] = QueryInput
    OBVIOUS
  <2> QED
    BY <1>7, <1>9, <2>1, <2>2
<1>12. PICK order : order = front \o list
  OBVIOUS
<1>13. /\ order \in Seq(T) /\ Len(order) = 4 + Len(list) /\ Len(list) \in Nat
       /\ \A i \in 1..4 : order[i] = front[i]
       /\ \A i \in 5..Len(order) : order[i] = list[i - 4] /\ i - 4 \in 1..Len(list)
  <2>1. /\ order \in Seq(T) /\ Len(order) = Len(front) + Len(list)
        /\ \A i \in 1 .. Len(front) + Len(list) :
               order[i] = IF i <= Len(front) THEN front[i] ELSE list[i - Len(front)]
    BY <1>8, <1>11, <1>12, ConcatProperties
  <2>2. Len(list) \in Nat
    BY <1>8
  <2> QED
    BY <1>11, <2>1, <2>2
<1>14. InOrder(order)
  BY <1>8, <1>11, <1>13 DEF InOrder, T
<1> QED
  BY <1>6, <1>10, <1>12, <1>14

InsideOK(s) ==
    /\ s.dialog = "none" => ToSet(Inside(s)) = {}
    /\ s.dialog = "help" => ToSet(Inside(s)) = {CloseButton}
    /\ s.dialog = "palette" => /\ Buttons \cup {QueryInput} \subseteq ToSet(Inside(s))
                               /\ ToSet(Inside(s)) \subseteq Buttons \cup {QueryInput} \cup Results

LEMMA InsideIs == ASSUME NEW s, ScreenOK(s) PROVE InsideOK(s)
<1>1. CASE s.dialog = "none"
  BY <1>1 DEF InsideOK, Inside, ToSet
<1>2. CASE s.dialog = "help"
  <2>1. Inside(s) = <<CloseButton>>
    BY <1>2 DEF Inside
  <2>2. ToSet(<<CloseButton>>) = {CloseButton}
    BY DEF ToSet
  <2> QED
    BY <1>2, <2>1, <2>2 DEF InsideOK
<1>3. CASE s.dialog = "palette"
  <2>1. PICK order : order = Inside(s)
    OBVIOUS
  <2>2. InOrder(order)
    BY <1>3, <2>1, InsideOfPalette
  <2>3. DOMAIN order = 1..Len(order) /\ Len(order) \in Nat /\ Len(order) >= 4
    BY <2>2 DEF InOrder
  <2>4. Buttons = {order[1], order[2], order[3]}
    BY <2>2, ModesAre DEF InOrder, Buttons
  <2>5. \A i \in 1..4 : order[i] \in ToSet(order)
    BY <2>3 DEF ToSet
  <2>6. ToSet(order) \subseteq Buttons \cup {QueryInput} \cup Results
    BY <2>2, <2>3 DEF InOrder, ToSet
  <2>7. QueryInput = order[4]
    BY <2>2 DEF InOrder
  <2> QED
    BY <1>3, <2>1, <2>4, <2>5, <2>6, <2>7 DEF InsideOK
<1> QED
  BY <1>1, <1>2, <1>3 DEF ScreenOK, Screens, Dialogs

\* A place on the page is in no dialog.
LEMMA SpotsAreOutside ==
    ASSUME NEW s, ScreenOK(s), NEW page, NEW e \in Spots
    PROVE  IsThere(s, page, e) <=> e = Body \/ e \in {Control(c) : c \in page}
<1>1. InsideOK(s)
  BY InsideIs
<1>2. e.kind \in {"page", "body"}
  BY DEF Spots, Control, Body, Element
<1>3. e \notin ToSet(Inside(s))
  <2>1. s.dialog \in {"none", "help", "palette"}
    BY DEF ScreenOK, Screens, Dialogs
  <2> QED
    BY <1>1, <1>2, <2>1 DEF InsideOK, Buttons, Results, ModeButton, QueryInput, CloseButton, Element
<1> QED
  BY <1>3 DEF IsThere

-----------------------------------------------------------------------------
(* The dialogs: the invariant *)

Enter(dialog) == Frame("enter", Element("dialog", dialog))
FrameSet == {Enter(dialog) : dialog \in Dialogs} \cup {Frame("focus", e) : e \in Spots \cup Buttons}

PaletteTyped ==
    /\ ScreenOK(screen) /\ marked \in -1 .. Len(Finds) + Len(Deeds)
    /\ onPage \subseteq Controls /\ IsThere(screen, onPage, focusOn)
    /\ returnsTo \in [Dialogs -> Spots] /\ before \in Spots /\ frames \in Seq(FrameSet)

\* The last dialog has the focus to give back, and a frame for it, until it has it.
WillReturn ==
    ~replaced =>
        IF screen.dialog # "none" THEN returnsTo[screen.dialog] = before
        ELSE \/ before \notin {Control(c) : c \in onPage}
             \/ frames = <<>> /\ focusOn = before
             \/ frames # <<>> /\ frames[Len(frames)] = Frame("focus", before)

\* Once the focus has gone back to the page the open dialog takes it.
DialogEnters(queue, dialog) ==
    \A i \in DOMAIN queue : queue[i].on.kind = "page" => \E j \in DOMAIN queue : j > i /\ queue[j] = Enter(dialog)
DialogsEnter == screen.dialog # "none" => DialogEnters(frames, screen.dialog)

PaletteInv == PaletteTyped /\ WillReturn /\ DialogsEnter

LEMMA FramesAre ==
    /\ \A dialog \in Dialogs : Enter(dialog) \in FrameSet /\ Enter(dialog).on.kind # "page"
    /\ \A e \in Spots \cup Buttons : Frame("focus", e) \in FrameSet
    /\ \A mode \in ToSet(Modes) : ModeButton(mode) \in Buttons /\ Frame("focus", ModeButton(mode)).on.kind # "page"
  BY DEF Enter, Frame, FrameSet, Element, ModeButton, Buttons

LEMMA OffersOK ==
    ASSUME NEW mode \in ToSet(Modes), ScreenOK(screen)
    PROVE  ScreenOK(InMode(mode)) /\ InMode(mode).dialog = "palette" /\ InMode(mode).mode = mode
<1>1. Finds \in Seq(ToSet(Finds)) /\ Deeds \in Seq(ToSet(Deeds))
  BY PaletteAssumption
<1>2. PICK offers : offers = Offers(mode)
  OBVIOUS
<1>3. Finds \in Seq(Found) /\ Deeds \in Seq(Found) /\ <<>> \in Seq(Found) /\ Len(Finds) \in Nat /\ Len(Deeds) \in Nat
  BY <1>1 DEF Found
<1>4. mode \in {"file", "text", "action"}
  BY ModesAre
<1>5. /\ offers \in Seq(Found) /\ Len(offers) <= Len(Finds) + Len(Deeds)
      /\ ToSet(offers) \subseteq ToSet(IF mode = "action" THEN Deeds ELSE Finds)
  BY <1>2, <1>3, <1>4 DEF Offers, ToSet
<1> QED
  BY <1>2, <1>5 DEF InMode, ScreenOK, Screens, Dialogs

LEMMA ClosedOK ==
    ASSUME ScreenOK(screen), NEW dialog \in Dialogs \cup {"none"}
    PROVE  ScreenOK([screen EXCEPT !.dialog = dialog])
  BY DEF ScreenOK, Screens

\* One more frame, or two.
LEMMA EnterAppended ==
    ASSUME NEW queue \in Seq(FrameSet), NEW dialog \in Dialogs
    PROVE  queue \o <<Enter(dialog)>> \in Seq(FrameSet) /\ DialogEnters(queue \o <<Enter(dialog)>>, dialog)
<1>1. PICK longer : longer = queue \o <<Enter(dialog)>>
  OBVIOUS
<1>2. <<Enter(dialog)>> \in Seq(FrameSet) /\ Len(<<Enter(dialog)>>) = 1
  BY FramesAre
<1>3. /\ longer \in Seq(FrameSet) /\ Len(longer) = Len(queue) + Len(<<Enter(dialog)>>)
      /\ \A i \in 1 .. Len(queue) + Len(<<Enter(dialog)>>) :
             longer[i] = IF i <= Len(queue) THEN queue[i] ELSE <<Enter(dialog)>>[i - Len(queue)]
  BY <1>1, <1>2, ConcatProperties
<1>4. /\ Len(queue) \in Nat /\ Len(longer) = Len(queue) + 1 /\ DOMAIN longer = 1..Len(longer)
      /\ longer[Len(longer)] = Enter(dialog)
  BY <1>2, <1>3
<1>5. DialogEnters(longer, dialog)
  BY <1>4, FramesAre DEF DialogEnters
<1> QED
  BY <1>1, <1>3, <1>5

LEMMA FocusAppended ==
    ASSUME NEW queue \in Seq(FrameSet), NEW e \in Spots \cup Buttons, NEW dialog
    PROVE  LET longer == queue \o <<Frame("focus", e)>>
           IN  /\ longer \in Seq(FrameSet) /\ longer # <<>> /\ longer[Len(longer)] = Frame("focus", e)
               /\ e \in Buttons /\ DialogEnters(queue, dialog) => DialogEnters(longer, dialog)
<1>1. PICK longer : longer = queue \o <<Frame("focus", e)>>
  OBVIOUS
<1>2. <<Frame("focus", e)>> \in Seq(FrameSet) /\ Len(<<Frame("focus", e)>>) = 1
  BY FramesAre
<1>3. /\ longer \in Seq(FrameSet) /\ Len(longer) = Len(queue) + Len(<<Frame("focus", e)>>)
      /\ \A i \in 1 .. Len(queue) + Len(<<Frame("focus", e)>>) :
             longer[i] = IF i <= Len(queue) THEN queue[i] ELSE <<Frame("focus", e)>>[i - Len(queue)]
  BY <1>1, <1>2, ConcatProperties
<1>4. /\ Len(queue) \in Nat /\ Len(longer) = Len(queue) + 1 /\ DOMAIN longer = 1..Len(longer)
      /\ longer[Len(longer)] = Frame("focus", e) /\ DOMAIN queue = 1..Len(queue)
      /\ \A i \in 1..Len(queue) : longer[i] = queue[i]
  BY <1>2, <1>3
<1>5. ASSUME e \in Buttons, DialogEnters(queue, dialog) PROVE DialogEnters(longer, dialog)
  <2>1. Frame("focus", e).on.kind # "page"
    BY <1>5 DEF Buttons, ModeButton, Element, Frame
  <2>2. ASSUME NEW i \in DOMAIN longer, longer[i].on.kind = "page"
        PROVE  \E j \in DOMAIN longer : j > i /\ longer[j] = Enter(dialog)
    <3>1. i \in DOMAIN queue /\ queue[i].on.kind = "page"
      BY <1>4, <2>1, <2>2
    <3>2. PICK j \in DOMAIN queue : j > i /\ queue[j] = Enter(dialog)
      BY <1>5, <3>1 DEF DialogEnters
    <3> QED
      BY <1>4, <3>2
  <2> QED
    BY <2>2 DEF DialogEnters
<1> QED
  BY <1>1, <1>3, <1>4, <1>5

\* What is on the page stays so, whatever dialog is shown.
LEMMA SpotStays ==
    ASSUME PaletteInv, NEW s, ScreenOK(s), NEW e \in Spots
    PROVE  IsThere(s, onPage, e) <=> IsThere(screen, onPage, e)
  BY SpotsAreOutside DEF PaletteInv, PaletteTyped

\* Without a dialog the focus is on the page.
LEMMA FocusOnPage ==
    ASSUME PaletteInv, screen.dialog = "none"
    PROVE  focusOn \in Spots
  BY InsideIs DEF PaletteInv, PaletteTyped, InsideOK, IsThere, Spots

\* What a dialog that opens finds with the focus is a place on the page, or it is gone.
LEMMA RemembersSpot ==
    ASSUME PaletteInv, NEW s, ScreenOK(s), s.dialog \notin {"none", screen.dialog}
    PROVE  Remaining(s, focusOn) \in Spots
<1>1. InsideOK(s) /\ InsideOK(screen)
  BY InsideIs DEF PaletteInv, PaletteTyped
<1>2. s.dialog \in Dialogs /\ screen.dialog \in Dialogs \cup {"none"}
  BY DEF PaletteInv, PaletteTyped, ScreenOK, Screens
<1>3. ToSet(Inside(s)) \cap ToSet(Inside(screen)) = {}
  BY <1>1, <1>2 DEF InsideOK, Dialogs, Buttons, Results, ModeButton, QueryInput, CloseButton, Element
<1>4. focusOn \in Spots \cup ToSet(Inside(screen))
  BY DEF PaletteInv, PaletteTyped, IsThere, Spots
<1>5. focusOn \in ToSet(Inside(screen)) => Remaining(s, focusOn) = Body
  <2>1. ASSUME focusOn \in ToSet(Inside(screen)), IsThere(s, onPage, focusOn) PROVE focusOn = Body
    <3>1. focusOn \in {Control(c) : c \in onPage} => FALSE
      BY <1>1, <1>2, <2>1
         DEF InsideOK, Dialogs, Buttons, Results, ModeButton, QueryInput, CloseButton, Control, Element
    <3> QED
      BY <1>3, <2>1, <3>1 DEF IsThere
  <2> QED
    BY <2>1 DEF Remaining
<1> QED
  BY <1>4, <1>5 DEF Remaining, Spots

LEMMA RenderedStep ==
    ASSUME PaletteInv, NEW s, ScreenOK(s), s.dialog # "none" \/ screen.dialog # "none", NEW e, Rendered(s, e),
           marked' \in -1 .. Len(Finds) + Len(Deeds)
    PROVE  PaletteInv'
<1> DEFINE opens == s.dialog \notin {"none", screen.dialog}
           closes == screen.dialog \notin {"none", s.dialog}
           returns == closes /\ IsThere(s, onPage, returnsTo[screen.dialog])
<1>1. PaletteTyped /\ WillReturn /\ DialogsEnter /\ frames \in Seq(FrameSet) /\ returnsTo \in [Dialogs -> Spots]
  BY DEF PaletteInv, PaletteTyped
<1>2. s.dialog \in Dialogs \cup {"none"} /\ screen.dialog \in Dialogs \cup {"none"} /\ "none" \notin Dialogs
  BY <1>1 DEF PaletteTyped, ScreenOK, Screens, Dialogs
<1>3. PICK back : back = frames \o (IF returns THEN <<Frame("focus", returnsTo[screen.dialog])>> ELSE <<>>)
  OBVIOUS
<1>4. /\ screen' = s /\ focusOn' = Remaining(s, e) /\ onPage' = onPage
      /\ frames' = back \o (IF opens THEN <<Enter(s.dialog)>> ELSE <<>>)
      /\ IF opens THEN RememberFocus(s) ELSE UNCHANGED returnsTo
      /\ before' = IF opens /\ screen.dialog = "none" THEN focusOn ELSE before
      /\ replaced' = IF opens THEN screen.dialog # "none" \/ frames # <<>> ELSE replaced
  BY <1>3 DEF Rendered, Enter
<1>5. /\ back \in Seq(FrameSet)
      /\ ~returns => back = frames
      /\ returns => back # <<>> /\ back[Len(back)] = Frame("focus", returnsTo[screen.dialog])
  <2>1. ~returns => back = frames
    BY <1>1, <1>3
  <2>2. ASSUME returns PROVE back \in Seq(FrameSet) /\ back # <<>> /\ back[Len(back)] = Frame("focus", returnsTo[screen.dialog])
    <3>1. back = frames \o <<Frame("focus", returnsTo[screen.dialog])>> /\ returnsTo[screen.dialog] \in Spots
      BY <1>1, <1>2, <1>3, <2>2
    <3> QED
      BY <1>1, <3>1, FocusAppended
  <2> QED
    BY <1>1, <2>1, <2>2
<1>6. /\ frames' \in Seq(FrameSet)
      /\ ~opens => frames' = back
      /\ opens => DialogEnters(frames', s.dialog)
  <2>1. ~opens => frames' = back
    BY <1>4, <1>5
  <2>2. ASSUME opens PROVE frames' \in Seq(FrameSet) /\ DialogEnters(frames', s.dialog)
    <3>1. frames' = back \o <<Enter(s.dialog)>> /\ s.dialog \in Dialogs
      BY <1>2, <1>4, <2>2
    <3> QED
      BY <1>5, <3>1, EnterAppended
  <2> QED
    BY <1>5, <2>1, <2>2
<1>7. opens => /\ returnsTo' = [returnsTo EXCEPT ![s.dialog] = Remaining(s, focusOn)]
               /\ Remaining(s, focusOn) \in Spots
  BY <1>4, RemembersSpot DEF RememberFocus
<1>8. IsThere(s, onPage, Remaining(s, e))
  BY DEF Remaining, IsThere
<1>9. PaletteTyped'
  <2>1. returnsTo' \in [Dialogs -> Spots]
    BY <1>1, <1>4, <1>7
  <2>2. before' \in Spots
    BY <1>1, <1>4, FocusOnPage DEF PaletteTyped
  <2>3. ScreenOK(screen)' /\ IsThere(screen, onPage, focusOn)' /\ (onPage \subseteq Controls)'
    <3>1. ScreenOK(screen)' <=> ScreenOK(s)
      BY <1>4
    <3>2. IsThere(screen, onPage, focusOn)' <=> IsThere(s, onPage, Remaining(s, e))
      BY <1>4
    <3> QED
      BY <1>1, <1>4, <1>8, <3>1, <3>2 DEF PaletteTyped
  <2> QED
    BY <1>6, <2>1, <2>2, <2>3 DEF PaletteTyped
<1>10. WillReturn'
  <2> SUFFICES ASSUME ~replaced'
               PROVE  IF screen'.dialog # "none" THEN returnsTo'[screen'.dialog] = before'
                      ELSE \/ before' \notin {Control(c) : c \in onPage'}
                           \/ frames' = <<>> /\ focusOn' = before'
                           \/ frames' # <<>> /\ frames'[Len(frames')] = Frame("focus", before')
    BY DEF WillReturn
  <2>1. CASE opens
    <3>1. screen.dialog = "none" /\ before' = focusOn
      BY <1>4, <2>1
    <3>2. IsThere(screen, onPage, focusOn) /\ focusOn \in Spots
      BY <1>1, <3>1, FocusOnPage DEF PaletteTyped
    <3>3. Remaining(s, focusOn) = focusOn
      BY <3>2, SpotStays DEF Remaining
    <3>4. returnsTo'[s.dialog] = focusOn
      BY <1>1, <1>2, <1>7, <2>1, <3>3
    <3> QED
      BY <1>4, <2>1, <3>1, <3>4
  <2>2. CASE ~opens /\ ~closes
    BY <1>1, <1>4, <2>2 DEF WillReturn
  <2>3. CASE ~opens /\ closes
    <3>1. s.dialog = "none" /\ screen.dialog # "none" /\ ~replaced /\ before' = before
      BY <1>4, <2>3
    <3>2. returnsTo[screen.dialog] = before /\ before \in Spots
      BY <1>1, <3>1 DEF WillReturn, PaletteTyped
    <3>3. CASE returns
      BY <1>4, <1>5, <1>6, <2>3, <3>1, <3>2, <3>3
    <3>4. CASE ~returns
      <4>1. ~IsThere(s, onPage, before)
        BY <2>3, <3>2, <3>4
      <4>2. before \notin {Control(c) : c \in onPage}
        BY <4>1, <3>2, SpotsAreOutside
      <4> QED
        BY <1>4, <3>1, <4>2
    <3> QED
      BY <3>3, <3>4
  <2> QED
    BY <2>1, <2>2, <2>3
<1>11. DialogsEnter'
  <2>1. CASE opens
    BY <1>4, <1>6, <2>1 DEF DialogsEnter
  <2>2. CASE ~opens /\ s.dialog # "none"
    BY <1>1, <1>4, <1>5, <1>6, <2>2 DEF DialogsEnter
  <2>3. CASE s.dialog = "none"
    BY <1>4, <2>3 DEF DialogsEnter
  <2> QED
    BY <2>1, <2>2, <2>3
<1> QED
  BY <1>9, <1>10, <1>11 DEF PaletteInv

-----------------------------------------------------------------------------
(* The dialogs: the steps *)

\* What FocusIsKept says of a step.
KeepsFocus ==
    screen'.dialog = screen.dialog /\ focusOn \in ToSet(Inside(screen)) /\ focusOn' \notin ToSet(Inside(screen'))
        => \/ focusOn.kind = "mode" /\ screen.mode # "file"
           \/ focusOn.kind = "result" /\ focusOn \notin ToSet(Inside(screen'))

LEMMA RenderedKeeps ==
    ASSUME PaletteInv, NEW s, ScreenOK(s), NEW e, e = focusOn \/ (e \in Buttons /\ s.dialog = "palette"), Rendered(s, e)
    PROVE  KeepsFocus
<1>1. screen' = s /\ focusOn' = Remaining(s, e)
  BY DEF Rendered
<1> SUFFICES ASSUME s.dialog = screen.dialog, focusOn \in ToSet(Inside(screen)), Remaining(s, e) \notin ToSet(Inside(s))
             PROVE  focusOn.kind = "result" /\ focusOn \notin ToSet(Inside(s))
  BY <1>1 DEF KeepsFocus
<1>2. InsideOK(s) /\ InsideOK(screen)
  BY InsideIs DEF PaletteInv, PaletteTyped
<1>3. e \notin ToSet(Inside(s))
  BY DEF Remaining, IsThere
<1>4. s.dialog = "palette"
  <2>1. s.dialog \in {"none", "help", "palette"}
    BY DEF ScreenOK, Screens, Dialogs
  <2> QED
    BY <1>2, <1>3, <2>1 DEF InsideOK
<1>5. e = focusOn /\ focusOn \in Results
  BY <1>2, <1>3, <1>4 DEF InsideOK
<1> QED
  BY <1>3, <1>5 DEF Results, Element

LEMMA ShowsStep ==
    ASSUME PaletteInv, NEW s, ScreenOK(s), s.dialog # "none" \/ screen.dialog # "none",
           NEW e, e = focusOn \/ (e \in Buttons /\ s.dialog = "palette"),
           NEW mark \in -1 .. Len(Finds) + Len(Deeds), Shows(s, e, mark)
    PROVE  PaletteInv' /\ KeepsFocus
<1>1. Rendered(s, e) /\ marked' \in {0, mark}
  BY DEF Shows
<1>2. Len(Finds) \in Nat /\ Len(Deeds) \in Nat
  BY PaletteAssumption
<1> QED
  BY <1>1, <1>2, RenderedStep, RenderedKeeps

LEMMA FrameStep == ASSUME PaletteInv, AnimationFrame PROVE PaletteInv' /\ KeepsFocus
<1> DEFINE moving == {i \in DOMAIN frames : Focuses(frames[i])}
<1>1. /\ frames # <<>> /\ frames' = <<>>
      /\ focusOn' = IF moving = {} THEN focusOn ELSE Focused(frames[Max(moving)])
      /\ UNCHANGED <<screen, marked, returnsTo, onPage, before, replaced>>
  BY DEF AnimationFrame
<1>2. /\ PaletteTyped /\ WillReturn /\ DialogsEnter /\ frames \in Seq(FrameSet) /\ InsideOK(screen)
      /\ screen.dialog \in {"none", "help", "palette"}
  BY InsideIs DEF PaletteInv, PaletteTyped, ScreenOK, Screens, Dialogs
<1>3. DOMAIN frames = 1..Len(frames) /\ Len(frames) \in Nat /\ Len(frames) # 0
  BY <1>1, <1>2
<1>4. moving # {} => Max(moving) \in moving /\ \A i \in moving : i <= Max(moving)
  BY <1>3, Extremes
<1>5. PICK last : last = Max(moving)
  OBVIOUS
<1>6. ASSUME moving # {}
      PROVE  /\ focusOn' = Focused(frames[last]) /\ IsThere(screen, onPage, focusOn')
             /\ screen.dialog # "none" => focusOn' \in ToSet(Inside(screen))
  <2>1. last \in DOMAIN frames /\ Focuses(frames[last]) /\ frames[last] \in FrameSet
    BY <1>2, <1>4, <1>5, <1>6
  <2>2. focusOn' = Focused(frames[last])
    BY <1>1, <1>5, <1>6
  <2>3. CASE frames[last].what = "enter"
    <3>1. PICK dialog \in Dialogs : frames[last] = Enter(dialog)
      BY <2>1, <2>3 DEF FrameSet, Frame
    <3>2. screen.dialog = dialog
      BY <2>1, <2>3, <3>1 DEF Focuses, Enter, Frame, Element
    <3>3. focusOn' = IF screen.dialog = "help" THEN CloseButton ELSE QueryInput
      BY <2>2, <2>3 DEF Focused
    <3>4. focusOn' \in ToSet(Inside(screen))
      BY <1>2, <3>2, <3>3 DEF InsideOK, Dialogs
    <3> QED
      BY <2>2, <3>4 DEF IsThere
  <2>4. CASE frames[last].what # "enter"
    <3>1. PICK e \in Spots \cup Buttons : frames[last] = Frame("focus", e)
      BY <2>1, <2>4 DEF FrameSet, Enter, Frame
    <3>2. focusOn' = e /\ e # Body /\ IsThere(screen, onPage, e)
      BY <2>1, <2>2, <2>4, <3>1 DEF Focuses, Focused, Frame
    <3>3. ASSUME screen.dialog # "none", e \notin ToSet(Inside(screen)) PROVE FALSE
      <4>1. e.kind = "page"
        BY <3>2, <3>3 DEF IsThere, Control, Element
      <4>2. PICK j \in DOMAIN frames : j > last /\ frames[j] = Enter(screen.dialog)
        BY <1>2, <2>1, <3>1, <3>3, <4>1 DEF DialogsEnter, DialogEnters, Frame
      <4>3. j \in moving
        BY <4>2 DEF Focuses, Enter, Frame, Element
      <4>4. j <= last
        <5> HIDE DEF moving
        <5> QED
          BY <1>4, <1>5, <1>6, <4>3
      <4> QED
        BY <1>3, <2>1, <4>2, <4>4
    <3> QED
      BY <2>2, <3>2, <3>3
  <2> QED
    BY <2>3, <2>4
<1>7. PaletteTyped'
  <2>1. IsThere(screen, onPage, focusOn)' <=> IsThere(screen, onPage, focusOn')
    BY <1>1
  <2>2. IsThere(screen, onPage, focusOn')
    BY <1>1, <1>2, <1>6 DEF PaletteTyped
  <2>3. ScreenOK(screen)' <=> ScreenOK(screen)
    BY <1>1
  <2> QED
    BY <1>1, <1>2, <2>1, <2>2, <2>3 DEF PaletteTyped
<1>8. WillReturn'
  <2> SUFFICES ASSUME ~replaced, screen.dialog = "none", before \in {Control(c) : c \in onPage} PROVE focusOn' = before
    BY <1>1, <1>2 DEF WillReturn
  <2>1. frames[Len(frames)] = Frame("focus", before)
    BY <1>1, <1>2 DEF WillReturn
  <2>2. before # Body /\ IsThere(screen, onPage, before)
    BY DEF IsThere, Control, Body, Element
  <2>3. Len(frames) \in moving
    BY <1>3, <2>1, <2>2 DEF Focuses, Frame
  <2>4. last = Len(frames)
    <3>1. Len(frames) <= last /\ last \in moving
      <4> HIDE DEF moving
      <4> QED
        BY <1>4, <1>5, <2>3
    <3> QED
      BY <1>3, <3>1
  <2> QED
    BY <1>6, <2>1, <2>3, <2>4 DEF Focused, Frame
<1>9. DialogsEnter'
  <2>1. DOMAIN frames' = {}
    BY <1>1
  <2> QED
    BY <2>1 DEF DialogsEnter, DialogEnters
<1>10. KeepsFocus
  BY <1>1, <1>2, <1>6 DEF KeepsFocus, InsideOK
<1> QED
  BY <1>7, <1>8, <1>9, <1>10 DEF PaletteInv

LEMMA KeyIsForMode == ASSUME NEW mode \in ToSet(Modes), NEW key PROVE ModeForKey(mode, key) \in ToSet(Modes)
<1>1. IndexIn(Modes, mode) \in 1..3
  BY ModesAre DEF IndexIn, ToSet
<1>2. \A n \in Int : (n % 3) + 1 \in 1..3
  OBVIOUS
<1>3. \A i \in 1..3 : Modes[i] \in ToSet(Modes)
  BY ModesAre DEF ToSet
<1>4. PICK at \in 1..3 : at = IndexIn(Modes, mode)
  BY <1>1
<1>5. (at % 3) + 1 \in 1..3 /\ ((at + 3 - 2) % 3) + 1 \in 1..3
  BY <1>2
<1>6. ModeForKey(mode, key) \in {Modes[(at % 3) + 1], Modes[((at + 3 - 2) % 3) + 1], Modes[1], Modes[3]}
  BY <1>4, ModesAre DEF ModeForKey, Last
<1> QED
  BY <1>3, <1>5, <1>6

LEMMA ModeKeyStep == ASSUME PaletteInv, NEW key, ModeKey(key) PROVE PaletteInv' /\ KeepsFocus
<1>1. PICK mode : mode = ModeForKey(screen.mode, key)
  OBVIOUS
<1>2. /\ PaletteTyped /\ WillReturn /\ DialogsEnter /\ frames \in Seq(FrameSet) /\ ScreenOK(screen) /\ InsideOK(screen)
      /\ screen.dialog \in {"none", "help", "palette"} /\ screen.mode \in ToSet(Modes)
  BY InsideIs DEF PaletteInv, PaletteTyped, ScreenOK, Screens, Dialogs
<1>3. mode \in ToSet(Modes)
  BY <1>1, <1>2, KeyIsForMode
<1>4. /\ focusOn.kind = "mode" /\ screen' = InMode(mode) /\ marked' = 0
      /\ frames' = Append(frames, Frame("focus", ModeButton(mode)))
      /\ UNCHANGED <<focusOn, returnsTo, onPage, before, replaced>>
  BY <1>1 DEF ModeKey
<1>5. screen.dialog = "palette" /\ focusOn \in Buttons
  BY <1>2, <1>4 DEF PaletteTyped, IsThere, InsideOK, Body, Control, CloseButton, QueryInput, Results, Element
<1>6. ScreenOK(InMode(mode)) /\ InMode(mode).dialog = "palette"
  BY <1>2, <1>3, OffersOK
<1>7. focusOn \in ToSet(Inside(InMode(mode)))
  BY <1>5, <1>6, InsideIs DEF InsideOK
<1>8. frames' \in Seq(FrameSet) /\ DialogEnters(frames', "palette")
  <2>1. ModeButton(mode) \in Buttons /\ Frame("focus", ModeButton(mode)) \in FrameSet
    BY <1>3, FramesAre
  <2>2. frames' = frames \o <<Frame("focus", ModeButton(mode))>>
    BY <1>2, <1>4, <2>1, AppendIsConcat
  <2>3. DialogEnters(frames, "palette")
    BY <1>2, <1>5 DEF DialogsEnter
  <2> QED
    BY <1>2, <2>1, <2>2, <2>3, FocusAppended
<1>9. PaletteTyped'
  <2>1. ScreenOK(screen)' /\ IsThere(screen, onPage, focusOn)'
    <3>1. ScreenOK(screen)' <=> ScreenOK(InMode(mode))
      BY <1>4
    <3>2. IsThere(screen, onPage, focusOn)' <=> IsThere(InMode(mode), onPage, focusOn)
      BY <1>4
    <3> QED
      BY <1>6, <1>7, <3>1, <3>2 DEF IsThere
  <2>2. Len(Finds) \in Nat /\ Len(Deeds) \in Nat
    BY PaletteAssumption
  <2> QED
    BY <1>2, <1>4, <1>8, <2>1, <2>2 DEF PaletteTyped
<1>10. WillReturn' /\ DialogsEnter'
  BY <1>2, <1>4, <1>5, <1>6, <1>8 DEF WillReturn, DialogsEnter
<1>11. KeepsFocus
  BY <1>4, <1>7 DEF KeepsFocus
<1> QED
  BY <1>9, <1>10, <1>11 DEF PaletteInv

LEMMA IndexInIs ==
    ASSUME NEW len \in Nat, NEW order, DOMAIN order = 1..len, NEW e \in ToSet(order)
    PROVE  IndexIn(order, e) \in 1..len /\ order[IndexIn(order, e)] = e
  BY DEF IndexIn, ToSet

\* The tabulator stays in a dialog, unless it goes backwards from a mode that is not the first.
LEMMA TrapKeeps ==
    ASSUME NEW s, ScreenOK(s), NEW e \in ToSet(Inside(s)), NEW backwards \in BOOLEAN
    PROVE  \/ TrapModalTab(s, e, backwards) \subseteq ToSet(Inside(s))
           \/ /\ e.kind = "mode" /\ s.mode # "file"
              /\ TrapModalTab(s, e, backwards) \subseteq {Body} \cup {Control(c) : c \in onPage}
<1>1. PICK order : order = Inside(s)
  OBVIOUS
<1>2. CASE s.dialog = "help"
  <2>1. order = <<CloseButton>> /\ e = CloseButton
    BY <1>1, <1>2, InsideIs DEF Inside, InsideOK
  <2>2. e = order[1] /\ e = Last(order) /\ Last(order) \in ToSet(order)
    BY <2>1 DEF Last, ToSet
  <2> QED
    BY <1>1, <2>2 DEF TrapModalTab
<1>3. CASE s.dialog = "palette"
  <2>1. InOrder(order) /\ DOMAIN order = 1..Len(order) /\ Len(order) \in Nat /\ Len(order) >= 4
    BY <1>1, <1>3, InsideOfPalette DEF InOrder
  <2>2. \A i \in 1..Len(order) : order[i] \in ToSet(order)
    BY <2>1 DEF ToSet
  <2>3. PICK at \in 1..Len(order) : at = IndexIn(order, e) /\ order[at] = e
    BY <1>1, <2>1, IndexInIs
  <2> DEFINE stops == {i \in DOMAIN order : order[i] \in Tabbable(s)}
             ahead == {i \in stops : IF backwards THEN i < at ELSE i > at}
  <2>4. BrowserTab(s, e, backwards) = IF ahead = {} THEN {Body} \cup {Control(c) : c \in onPage}
                                      ELSE {order[IF backwards THEN Max(ahead) ELSE Min(ahead)]}
    BY <1>1, <2>3 DEF BrowserTab
  <2>5. ahead # {} => Max(ahead) \in ahead /\ Min(ahead) \in ahead
    <3>1. ahead \in SUBSET (1..Len(order))
      BY <2>1
    <3> HIDE DEF ahead
    <3> QED
      BY <2>1, <3>1, Extremes
  <2>6. ahead # {} => BrowserTab(s, e, backwards) \subseteq ToSet(order)
    <3>1. ahead \subseteq 1..Len(order)
      BY <2>1
    <3> HIDE DEF ahead
    <3> QED
      BY <2>2, <2>4, <2>5, <3>1
  <2>7. \A i \in 1..Len(order) : i \in ahead <=> /\ order[i].kind # "mode" \/ order[i].name = s.mode
                                                 /\ IF backwards THEN i < at ELSE i > at
    BY <1>1, <2>1, <2>2 DEF Tabbable
  <2>8. \A i \in 4..Len(order) : order[i].kind # "mode"
    BY <2>1 DEF InOrder, QueryInput, Results, Element
  <2>9. /\ order[1].kind = "mode" /\ order[1].name = "file" /\ order[2].kind = "mode" /\ order[2].name = "text"
        /\ order[3].kind = "mode" /\ order[3].name = "action"
    BY <2>1 DEF InOrder, ModeButton, Element
  <2>10. s.mode \in {"file", "text", "action"}
    BY ModesAre DEF ScreenOK, Screens
  <2>11. CASE backwards /\ e = order[1]
    <3>1. TrapModalTab(s, e, backwards) = {Last(order)} /\ Last(order) \in ToSet(order)
      BY <1>1, <2>1, <2>2, <2>11 DEF TrapModalTab, Last
    <3> QED
      BY <1>1, <3>1
  <2>12. CASE ~backwards /\ e = Last(order)
    <3>1. TrapModalTab(s, e, backwards) = {order[1]} /\ order[1] \in ToSet(order)
      BY <1>1, <2>1, <2>2, <2>12 DEF TrapModalTab
    <3> QED
      BY <1>1, <3>1
  <2>13. CASE ~backwards /\ e # Last(order)
    <3>1. Len(order) \in ahead
      <4>1. at # Len(order)
        BY <2>3, <2>13 DEF Last
      <4> HIDE DEF ahead
      <4> QED
        BY <2>1, <2>3, <2>7, <2>8, <2>13, <4>1
    <3>2. TrapModalTab(s, e, backwards) = BrowserTab(s, e, backwards)
      BY <1>1, <2>13 DEF TrapModalTab
    <3> QED
      BY <1>1, <2>6, <3>1, <3>2
  <2>14. CASE backwards /\ e # order[1]
    <3>1. TrapModalTab(s, e, backwards) = BrowserTab(s, e, backwards)
      BY <1>1, <2>14 DEF TrapModalTab
    <3>2. at # 1
      BY <2>3, <2>14
    <3> HIDE DEF ahead
    <3>3. ahead # {} \/ (e.kind = "mode" /\ s.mode # "file")
      <4>1. CASE at > 4
        <5>1. 4 \in ahead
          BY <2>1, <2>7, <2>8, <2>14, <4>1
        <5> QED
          BY <5>1
      <4>2. CASE at = 4
        <5>1. PICK k \in 1..3 : order[k].name = s.mode
          BY <2>9, <2>10
        <5>2. k \in ahead
          BY <2>1, <2>7, <2>14, <4>2, <5>1
        <5> QED
          BY <5>2
      <4>3. CASE at \in {2, 3}
        <5>1. e.kind = "mode"
          BY <2>3, <2>9, <4>3
        <5>2. s.mode = "file" => 1 \in ahead
          BY <2>1, <2>7, <2>9, <2>14, <4>3
        <5> QED
          BY <5>1, <5>2
      <4> QED
        BY <2>3, <3>2, <4>1, <4>2, <4>3
    <3> QED
      BY <1>1, <2>4, <2>6, <3>1, <3>3
  <2> QED
    BY <2>11, <2>12, <2>13, <2>14
<1>4. s.dialog \in {"none", "help", "palette"}
  BY DEF ScreenOK, Screens, Dialogs
<1>5. s.dialog # "none"
  BY InsideIs DEF InsideOK
<1> QED
  BY <1>2, <1>3, <1>4, <1>5

LEMMA PressTabStep == ASSUME PaletteInv, NEW backwards \in BOOLEAN, PressTab(backwards) PROVE PaletteInv' /\ KeepsFocus
<1>1. /\ PaletteTyped /\ WillReturn /\ DialogsEnter /\ ScreenOK(screen) /\ InsideOK(screen) /\ onPage \subseteq Controls
  BY InsideIs DEF PaletteInv, PaletteTyped
<1>2. /\ before' = IF screen.dialog = "none" /\ frames = <<>> THEN focusOn' ELSE before
      /\ UNCHANGED <<screen, marked, frames, returnsTo, onPage, replaced>>
  BY DEF PressTab
<1>3. /\ focusOn' \in ToSet(Inside(screen)) \cup {Body} \cup {Control(c) : c \in onPage}
      /\ focusOn \in ToSet(Inside(screen)) =>
             focusOn' \in ToSet(Inside(screen)) \/ (focusOn.kind = "mode" /\ screen.mode # "file")
  <2>1. CASE focusOn \in ToSet(Inside(screen))
    BY <1>1, <2>1, TrapKeeps DEF PressTab
  <2>2. CASE focusOn \notin ToSet(Inside(screen))
    BY <2>2 DEF PressTab, Tabbable
  <2> QED
    BY <2>1, <2>2
<1>4. PaletteTyped'
  <2>1. screen.dialog = "none" => focusOn' \in Spots
    BY <1>1, <1>3 DEF InsideOK, Spots
  <2>2. IsThere(screen, onPage, focusOn)' <=> IsThere(screen, onPage, focusOn')
    BY <1>2
  <2>3. IsThere(screen, onPage, focusOn')
    BY <1>3 DEF IsThere
  <2>4. ScreenOK(screen)' <=> ScreenOK(screen)
    BY <1>2
  <2> QED
    BY <1>1, <1>2, <2>1, <2>2, <2>3, <2>4 DEF PaletteTyped
<1>5. WillReturn' /\ DialogsEnter'
  BY <1>1, <1>2 DEF WillReturn, DialogsEnter
<1>6. KeepsFocus
  BY <1>2, <1>3 DEF KeepsFocus
<1> QED
  BY <1>4, <1>5, <1>6 DEF PaletteInv

LEMMA ControlGoesStep == ASSUME PaletteInv, NEW c \in Controls, ControlGoes(c) PROVE PaletteInv' /\ KeepsFocus
<1>1. /\ PaletteTyped /\ WillReturn /\ DialogsEnter /\ ScreenOK(screen) /\ InsideOK(screen) /\ onPage \subseteq Controls
      /\ screen.dialog \in {"none", "help", "palette"}
  BY InsideIs DEF PaletteInv, PaletteTyped, ScreenOK, Screens, Dialogs
<1>2. /\ onPage' = onPage \ {c} /\ focusOn' = IF focusOn = Control(c) THEN Body ELSE focusOn
      /\ before' = IF screen.dialog = "none" /\ frames = <<>> THEN focusOn' ELSE before
      /\ UNCHANGED <<screen, marked, frames, returnsTo, replaced>>
  BY DEF ControlGoes
<1>3. IsThere(screen, onPage', focusOn')
  <2>1. focusOn # Control(c) => focusOn = Body \/ focusOn \in {Control(d) : d \in onPage \ {c}} \cup ToSet(Inside(screen))
    BY <1>1 DEF PaletteTyped, IsThere
  <2> QED
    BY <1>2, <2>1 DEF IsThere
<1>4. PaletteTyped'
  <2>1. screen.dialog = "none" => focusOn' \in Spots
    BY <1>2, FocusOnPage DEF Spots
  <2>2. IsThere(screen, onPage, focusOn)' <=> IsThere(screen, onPage', focusOn')
    BY <1>2
  <2>3. ScreenOK(screen)' <=> ScreenOK(screen)
    BY <1>2
  <2> QED
    BY <1>1, <1>2, <1>3, <2>1, <2>2, <2>3 DEF PaletteTyped
<1>5. WillReturn'
  <2>1. {Control(d) : d \in onPage'} \subseteq {Control(d) : d \in onPage}
    BY <1>2
  <2> QED
    BY <1>1, <1>2, <2>1 DEF WillReturn
<1>6. DialogsEnter'
  BY <1>1, <1>2 DEF DialogsEnter
<1>7. KeepsFocus
  <2>1. Control(c) \notin ToSet(Inside(screen))
    BY <1>1 DEF InsideOK, Buttons, Results, ModeButton, QueryInput, CloseButton, Control, Element
  <2> QED
    BY <1>2, <2>1 DEF KeepsFocus
<1> QED
  BY <1>4, <1>5, <1>6, <1>7 DEF PaletteInv

\* What only moves the mark.
LEMMA MarkStep ==
    ASSUME PaletteInv, marked' \in -1 .. Len(Finds) + Len(Deeds),
           UNCHANGED <<screen, focusOn, frames, returnsTo, onPage, before, replaced>>
    PROVE  PaletteInv' /\ KeepsFocus
<1>1. PaletteTyped'
  <2>1. IsThere(screen, onPage, focusOn)' <=> IsThere(screen, onPage, focusOn)
    OBVIOUS
  <2>2. ScreenOK(screen)' <=> ScreenOK(screen)
    OBVIOUS
  <2> QED
    BY <2>1, <2>2 DEF PaletteTyped, PaletteInv
<1> QED
  BY <1>1 DEF PaletteInv, WillReturn, DialogsEnter, KeepsFocus

LEMMA OfferedOK ==
    ASSUME ScreenOK(screen), NEW items, items \in Seq(ToSet(items)), ToSet(items) \subseteq Found,
           ToSet(items) \subseteq ToSet(IF screen.mode = "action" THEN Deeds ELSE Finds),
           Len(items) <= Len(Finds) + Len(Deeds)
    PROVE  ScreenOK([screen EXCEPT !.offered = items])
<1>1. items \in Seq(Found)
  OBVIOUS
<1> QED
  BY <1>1 DEF ScreenOK, Screens

LEMMA AmongOK ==
    ASSUME NEW items \in {Finds, Deeds}, NEW kept
    PROVE  /\ Among(items, kept) \in Seq(ToSet(Among(items, kept))) /\ ToSet(Among(items, kept)) \subseteq Found
           /\ ToSet(Among(items, kept)) \subseteq ToSet(items) /\ Len(Among(items, kept)) <= Len(Finds) + Len(Deeds)
<1>1. Finds \in Seq(ToSet(Finds)) /\ Deeds \in Seq(ToSet(Deeds)) /\ Len(Finds) \in Nat /\ Len(Deeds) \in Nat
  BY PaletteAssumption
<1>2. PICK some : some = Among(items, kept)
  OBVIOUS
<1>3. some \in Seq(ToSet(items)) /\ Len(some) <= Len(items)
  BY <1>1, <1>2, AmongType
<1>4. some \in Seq(ToSet(some)) /\ ToSet(some) \subseteq ToSet(items) /\ Len(some) \in Nat
  BY <1>3 DEF ToSet
<1> QED
  BY <1>1, <1>2, <1>3, <1>4 DEF Found

LEMMA PaletteStarts == PaletteInit => PaletteInv
<1> SUFFICES ASSUME PaletteInit PROVE PaletteInv
  OBVIOUS
<1>1. Len(Finds) \in Nat /\ Len(Deeds) \in Nat
  BY PaletteAssumption
<1>2. screen = [dialog |-> "none", mode |-> "file", offered |-> <<>>, refused |-> {}]
  BY DEF PaletteInit
<1>3. ScreenOK(screen)
  <2>1. <<>> \in Seq(Found) /\ ToSet(<<>>) = {} /\ Len(<<>>) = 0
    BY DEF ToSet
  <2>2. "file" \in ToSet(Modes)
    BY ModesAre
  <2> QED
    BY <1>1, <1>2, <2>1, <2>2 DEF ScreenOK, Screens
<1>4. PaletteTyped
  BY <1>1, <1>3 DEF PaletteInit, PaletteTyped, IsThere, Spots
<1> QED
  BY <1>2, <1>4 DEF PaletteInit, PaletteInv, WillReturn, DialogsEnter

LEMMA PaletteStep == ASSUME PaletteInv, PaletteNext PROVE PaletteInv' /\ KeepsFocus
<1>1. /\ ScreenOK(screen) /\ InsideOK(screen) /\ screen.dialog \in {"none", "help", "palette"}
      /\ marked \in -1 .. Len(Finds) + Len(Deeds)
  BY InsideIs DEF PaletteInv, PaletteTyped, ScreenOK, Screens, Dialogs
<1>2. /\ Finds \in Seq(ToSet(Finds)) /\ Deeds \in Seq(ToSet(Deeds)) /\ Len(Finds) \in Nat /\ Len(Deeds) \in Nat
      /\ 0 \in -1 .. Len(Finds) + Len(Deeds)
  BY PaletteAssumption
<1>3. screen.offered \in Seq(Found) /\ Len(screen.offered) \in Nat /\ Len(screen.offered) <= Len(Finds) + Len(Deeds)
  BY <1>1 DEF ScreenOK, Screens
<1>4. ScreenOK(WithoutDialog(screen)) /\ WithoutDialog(screen).dialog = "none"
  BY <1>1, ClosedOK DEF WithoutDialog, ScreenOK, Screens
<1>5. focusOn = QueryInput => screen.dialog = "palette"
  <2>1. QueryInput \notin {Body, CloseButton} \cup {Control(c) : c \in onPage}
    BY DEF Body, Control, CloseButton, QueryInput, Element
  <2>2. focusOn = Body \/ focusOn \in {Control(c) : c \in onPage} \cup ToSet(Inside(screen))
    BY DEF PaletteInv, PaletteTyped, IsThere
  <2> QED
    BY <1>1, <2>1, <2>2 DEF InsideOK
<1>6. CASE AnimationFrame
  BY <1>6, FrameStep
<1>7. ASSUME NEW mode \in {"file", "text"}, QuickOpen(mode) PROVE PaletteInv' /\ KeepsFocus
  <2>1. PICK s : /\ s = IF screen.dialog = "palette" /\ screen.mode = mode THEN WithoutDialog(screen) ELSE InMode(mode)
                 /\ Shows(s, focusOn, marked)
    BY <1>7 DEF QuickOpen
  <2>2. ScreenOK(s) /\ (s.dialog # "none" \/ screen.dialog # "none")
    BY <1>1, <1>4, <2>1, OffersOK, ModesAre
  <2> QED
    BY <1>1, <2>1, <2>2, ShowsStep
<1>8. CASE ToggleShortcuts
  <2>1. PICK s : /\ s = [screen EXCEPT !.dialog = IF screen.dialog = "help" THEN "none" ELSE "help"]
                 /\ Shows(s, focusOn, marked)
    BY <1>8 DEF ToggleShortcuts
  <2>2. ScreenOK(s)
    BY <1>1, <2>1, ClosedOK DEF Dialogs
  <2>3. s.dialog # "none" \/ screen.dialog # "none"
    BY <1>1, <2>1 DEF ScreenOK, Screens
  <2> QED
    BY <1>1, <2>1, <2>2, <2>3, ShowsStep
<1>9. CASE CloseDialog \/ Choose
  <2>1. screen.dialog # "none" /\ Shows(WithoutDialog(screen), focusOn, marked)
    BY <1>9 DEF CloseDialog, Choose
  <2> QED
    BY <1>1, <1>4, <2>1, ShowsStep
<1>10. ASSUME NEW mode \in ToSet(Modes), ClickMode(mode) PROVE PaletteInv' /\ KeepsFocus
  <2>1. Shows(InMode(mode), ModeButton(mode), marked) /\ ModeButton(mode) \in Buttons
    BY <1>10, FramesAre DEF ClickMode, SwitchMode
  <2>2. ScreenOK(InMode(mode)) /\ InMode(mode).dialog = "palette"
    BY <1>1, OffersOK
  <2> QED
    BY <1>1, <2>1, <2>2, ShowsStep
<1>11. ASSUME NEW key, ModeKey(key) PROVE PaletteInv' /\ KeepsFocus
  BY <1>11, ModeKeyStep
<1>12. CASE EditQuery
  <2>1. PICK some \in SUBSET ToSet(Deeds) :
            Shows([screen EXCEPT !.offered = IF screen.mode # "action" THEN <<>> ELSE Among(Deeds, some)], focusOn, 0)
    BY <1>12 DEF EditQuery
  <2>2. PICK items : items = IF screen.mode # "action" THEN <<>> ELSE Among(Deeds, some)
    OBVIOUS
  <2>3. ScreenOK([screen EXCEPT !.offered = items])
    <3>1. CASE screen.mode # "action"
      <4>1. items = <<>> /\ ToSet(items) = {} /\ items \in Seq({}) /\ Len(items) = 0
        BY <2>2, <3>1 DEF ToSet
      <4>2. ToSet(items) \subseteq Found /\ ToSet(items) \subseteq ToSet(IF screen.mode = "action" THEN Deeds ELSE Finds)
        BY <4>1
      <4>3. Len(items) <= Len(Finds) + Len(Deeds) /\ items \in Seq(ToSet(items))
        BY <1>2, <4>1
      <4> QED
        BY <1>1, <4>2, <4>3, OfferedOK
    <3>2. CASE screen.mode = "action"
      BY <1>1, <2>2, <3>2, AmongOK, OfferedOK
    <3> QED
      BY <3>1, <3>2
  <2>4. [screen EXCEPT !.offered = items].dialog = screen.dialog /\ screen.dialog = "palette"
    BY <1>1, <1>5, <1>12 DEF EditQuery, ScreenOK, Screens
  <2> QED
    BY <1>2, <2>1, <2>2, <2>3, <2>4, ShowsStep
<1>13. CASE ResultsChange
  <2>1. CASE \E found \in SUBSET ToSet(Finds) :
                /\ screen.mode # "action" /\ Shows([screen EXCEPT !.offered = Among(Finds, found)], focusOn, marked)
    <3>1. PICK found : screen.mode # "action" /\ Shows([screen EXCEPT !.offered = Among(Finds, found)], focusOn, marked)
      BY <2>1
    <3>2. ScreenOK([screen EXCEPT !.offered = Among(Finds, found)])
      BY <1>1, <3>1, AmongOK, OfferedOK
    <3>3. [screen EXCEPT !.offered = Among(Finds, found)].dialog = "palette"
      BY <1>1, <1>13 DEF ResultsChange, ScreenOK, Screens
    <3> QED
      BY <1>1, <3>1, <3>2, <3>3, ShowsStep
  <2>2. CASE \E refused \in SUBSET ToSet(Deeds) : Shows([screen EXCEPT !.refused = refused], focusOn, marked)
    <3>1. PICK refused \in SUBSET ToSet(Deeds) : Shows([screen EXCEPT !.refused = refused], focusOn, marked)
      BY <2>2
    <3>2. ScreenOK([screen EXCEPT !.refused = refused]) /\ [screen EXCEPT !.refused = refused].dialog = "palette"
      BY <1>1, <1>13 DEF ResultsChange, ScreenOK, Screens
    <3> QED
      BY <1>1, <3>1, <3>2, ShowsStep
  <2> QED
    BY <1>13, <2>1, <2>2 DEF ResultsChange
<1>14. ASSUME NEW delta \in {-1, 1}, Arrow(delta) PROVE PaletteInv' /\ KeepsFocus
  <2>1. MovePaletteSelection(marked, Len(screen.offered), delta) \in -1 .. Len(Finds) + Len(Deeds)
    <3>1. CASE Len(screen.offered) = 0
      BY <1>2, <3>1 DEF MovePaletteSelection
    <3>2. CASE Len(screen.offered) # 0
      <4>1. PICK count \in Nat \ {0} : count = Len(screen.offered)
        BY <1>3, <3>2
      <4>2. PICK mark \in Int : mark = marked
        BY <1>1, <1>2
      <4>3. PICK at : at = ClampPaletteSelection(mark, count)
        OBVIOUS
      <4>4. at \in 0..(count - 1) /\ MovePaletteSelection(mark, count, delta) = NextOf(at, count, delta)
        BY <4>3, Moved
      <4> QED
        BY <1>2, <1>3, <4>1, <4>2, <4>4 DEF NextOf
    <3> QED
      BY <3>1, <3>2
  <2> QED
    BY <1>14, <2>1, MarkStep DEF Arrow
<1>15. ASSUME NEW i \in DOMAIN screen.offered, Hover(i) PROVE PaletteInv' /\ KeepsFocus
  <2>1. marked' = i - 1 /\ i \in 1..Len(screen.offered)
    BY <1>3, <1>15 DEF Hover
  <2>2. marked' \in -1 .. Len(Finds) + Len(Deeds)
    BY <1>2, <1>3, <2>1
  <2> QED
    BY <1>15, <2>2, MarkStep DEF Hover
<1> QED
  BY <1>6, <1>7, <1>8, <1>9, <1>10, <1>11, <1>12, <1>13, <1>14, <1>15, PressTabStep, ControlGoesStep DEF PaletteNext

LEMMA PaletteInvImplies == PaletteInv => PaletteTypeOK /\ ArrowsReachEveryResult /\ FocusReturns
<1> SUFFICES ASSUME PaletteInv PROVE PaletteTypeOK /\ ArrowsReachEveryResult /\ FocusReturns
  OBVIOUS
<1>1. PaletteTyped /\ WillReturn /\ ScreenOK(screen) /\ Len(screen.offered) \in Nat /\ marked \in Int
  BY PaletteAssumption DEF PaletteInv, PaletteTyped, ScreenOK, Screens
<1>2. \A e \in Spots : e.kind \in {"page", "body"}
  BY DEF Spots, Control, Body, Element
<1>3. PaletteTypeOK
  BY <1>1, <1>2 DEF PaletteTyped, PaletteTypeOK, ScreenOK, Screens
<1>4. ArrowsReachEveryResult
  BY <1>1, ArrowsReach DEF ArrowsReachEveryResult
<1>5. FocusReturns
  BY <1>1, SpotsAreOutside DEF WillReturn, FocusReturns, PaletteTyped
<1> QED
  BY <1>3, <1>4, <1>5

-----------------------------------------------------------------------------
(* The dialogs: the theorems *)

\* What is not about the dialogs leaves them alone.
LEMMA PaletteGoesOn ==
    ASSUME PaletteInv, [MCNext]_<<reviewVars, focusVars, treeVars, paletteVars, concern>>
    PROVE  PaletteInv' /\ [KeepsFocus]_paletteVars
<1>1. CASE UNCHANGED paletteVars
  <2>1. marked' \in -1 .. Len(Finds) + Len(Deeds) /\ UNCHANGED <<screen, focusOn, frames, returnsTo, onPage, before, replaced>>
    BY <1>1 DEF paletteVars, PaletteInv, PaletteTyped
  <2> QED
    BY <1>1, <2>1, MarkStep
<1>2. CASE PaletteNext
  BY <1>2, PaletteStep
<1> QED
  BY <1>1, <1>2 DEF MCNext

\* What a search shows is for the query that is there, and it says that it searches exactly while its
\* answer is to come, whatever searches were aborted, failed or came late; the hit that is visited is
\* one of those there are, and one overlay is open at a time (search-palette.ts, search-navigation.ts).
\* However the results change beneath the mark, the arrow keys lead to each of them, around both ends,
\* and when the last dialog has closed the focus is where it was before, unless that is gone, whatever
\* was opened, chosen, toggled or taken off the page meanwhile, and whenever the frames come
\* (command-palette.ts, modal-focus.ts, CommandPalette.tsx, ShortcutHelp.tsx).
THEOREM DialogsStand == MCSpec => []DialogsHold
<1>1. MCInit => FocusInv /\ PaletteInv
  BY FocusStarts, PaletteStarts DEF MCInit
<1>2. FocusInv /\ PaletteInv /\ [MCNext]_<<reviewVars, focusVars, treeVars, paletteVars, concern>>
      => (FocusInv /\ PaletteInv)'
  BY FocusGoesOn, PaletteGoesOn
<1>3. FocusInv /\ PaletteInv => DialogsHold
  BY FocusInvImplies, PaletteInvImplies DEF DialogsHold
<1> QED
  BY <1>1, <1>2, <1>3, PTL DEF MCSpec

\* No key leads out of an open dialog, and no frame that was asked for before it opened, apart from
\* the two ways that are named (trapModalTab, focusModalEntry of modal-focus.ts).
THEOREM KeysStayInTheDialog == MCSpec => FocusIsKept
<1>1. MCInit => PaletteInv
  BY PaletteStarts DEF MCInit
<1>2. PaletteInv /\ [MCNext]_<<reviewVars, focusVars, treeVars, paletteVars, concern>>
      => PaletteInv' /\ [KeepsFocus]_paletteVars
  BY PaletteGoesOn
<1>3. [][KeepsFocus]_paletteVars => FocusIsKept
  BY DEF FocusIsKept, KeepsFocus
<1> QED
  BY <1>1, <1>2, <1>3, PTL DEF MCSpec

=============================================================================
