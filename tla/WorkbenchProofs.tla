--------------------------- MODULE WorkbenchProofs ---------------------------
(***************************************************************************)
(* Two proofs about the editor of a page (MCWorkbench). First: the page has *)
(* the server's comments and drafts once nothing is on its way              *)
(* (WorkbenchComments): CommentsAreRight. Then: what the editor shows is    *)
(* right once nothing is on its way (WorkbenchFiles): EditorIsRight.        *)
(***************************************************************************)
EXTENDS MCWorkbench, TLAPS, SequenceTheorems, FiniteSetTheorems, WellFoundedInduction

Notes == [id : Ids, path : Documents]
Kinds == {"comments", "drafts", "save", "deleteDraft", "deletePublished", "publish"}
Asks == [do : Kinds, ids : SUBSET Ids, path : Documents \cup {AllPaths}, revision : Nat, follows : BOOLEAN,
         done : BOOLEAN, failed : BOOLEAN, result : SUBSET Notes]
Types == {"comment_added", "comment_deleted", "thread_read"}
Happenings == [type : Types, id : Ids, path : Documents]

\* No two requests save the same draft.
SavesDiffer(q) ==
    \A i, j \in DOMAIN q : q[i].do = "save" /\ q[j].do = "save" /\ q[i].ids \cap q[j].ids # {} => i = j

CommentShapes ==
    /\ names \in Nat /\ names <= MaxId
    /\ published \subseteq Notes /\ saved \subseteq Notes
    /\ activities \in Seq(Happenings) /\ attention \in BOOLEAN /\ online \in BOOLEAN
    /\ comments \subseteq Notes /\ draftComments \subseteq Notes /\ deleted \subseteq Ids /\ revision \in Nat
    /\ asked \in Seq(Asks) /\ SavesDiffer(asked)
    /\ clouded \in BOOLEAN /\ astray \subseteq Ids

-----------------------------------------------------------------------------
(* What is known of comments and drafts, wherever it is *)

Requests == ToSet(asked)
Happened == ToSet(activities)
Of(kinds) == {r \in Requests : r.do \in kinds}
IdsAsked(rs) == UNION {r.ids : r \in rs}
Results(rs) == UNION {r.result : r \in rs}

\* Notes that are somewhere, or will be when they are saved.
Known ==
    published \cup saved \cup comments \cup draftComments \cup Results(Requests)
    \cup {n \in Notes : \E r \in Of({"save"}) : n.id \in r.ids /\ n.path = r.path}

\* Names of what is somewhere; the names of drafts that are only asked to be saved are not.
Used ==
    IdsOf(published \cup saved \cup comments \cup draftComments \cup Results(Requests))
    \cup deleted \cup IdsOf(Happened) \cup IdsAsked(Of(Kinds \ {"save"}))

\* Names of what the server publishes or has published, as far as anything still tells.
Public ==
    IdsOf(published \cup comments \cup Results(Of({"comments", "publish"})))
    \cup deleted \cup IdsOf(Happened) \cup IdsAsked(Of({"deletePublished"}))

\* Names that are known to be deleted, or are about to be known.
Gone ==
    deleted \cup IdsOf({e \in Happened : e.type = "comment_deleted"})
    \cup IdsAsked({r \in Of({"deletePublished"}) : r.done /\ ~r.failed})

\* The requests that took drafts away, and are not answered.
Taking == {r \in Of({"publish", "deleteDraft"}) : r.done}

OnePath == \A n, m \in Known : n.id = m.id => n = m
UsedAreNamed == Used \cup IdsAsked(Of({"save"})) \subseteq 1..names
SavesAreNew == \A r \in Of({"save"}) : ~r.done => r.ids \cap Used = {}
SavesAnswer == \A r \in Of({"save"}) : r.path \in Documents /\ IdsOf(r.result) \subseteq r.ids
DraftsAreOwn == IdsOf(saved) \cap Public = {}
GoneIsGone == Gone \cap IdsOf(published) = {}
TakenAreGone == IdsAsked(Taking) \cap IdsOf(saved) = {}

NotesFit ==
    /\ OnePath /\ UsedAreNamed /\ SavesAreNew /\ SavesAnswer
    /\ DraftsAreOwn /\ GoneIsGone /\ TakenAreGone

\* The drafts of the page and of the server differ by what is on its way.
SavedAreComing ==
    IdsOf(saved) \subseteq astray \cup IdsOf(draftComments) \cup IdsOf(Results(Of({"drafts", "save"})))
DraftsAreLeaving == IdsOf(draftComments) \subseteq IdsOf(saved) \cup astray \cup IdsAsked(Taking)
PublicAreLeaving == IdsOf(draftComments) \cap Public \subseteq astray \cup IdsAsked(Of({"publish"}))
DraftsFit == SavedAreComing /\ DraftsAreLeaving /\ PublicAreLeaving

\* The page shows the server's comments, or has asked for them since they changed.
LoadsAreCurrent ==
    online /\ ~attention /\ ~clouded =>
        /\ \A r \in Of({"comments"}) : r.done /\ r.revision = revision => r.result = At(published, r.path)
        /\ comments = published \/ \E r \in Of({"comments"}) : r.revision = revision /\ r.path = AllPaths

CommentsFit ==
    /\ DeletedStaysGone /\ LoadsAreCurrent
    /\ ~online => activities = <<>> /\ ~attention
    /\ \A r \in Requests : r.revision <= revision

CommentInv == CommentShapes /\ NotesFit /\ DraftsFit /\ CommentsFit

-----------------------------------------------------------------------------
(* Sequences of requests *)

LEMMA ToSetIs == \A s : ToSet(s) = {s[i] : i \in DOMAIN s}
  BY DEF ToSet

\* What is left after one element was removed.
LEMMA RemoveAtIs ==
    ASSUME NEW T, NEW s \in Seq(T), NEW i \in DOMAIN s
    PROVE  LET t == RemoveAt(s, i)
           IN  /\ t \in Seq(T) /\ Len(t) = Len(s) - 1
               /\ \A j \in 1..(Len(s) - 1) : t[j] = s[IF j < i THEN j ELSE j + 1]
<1> DEFINE front == SubSeq(s, 1, i - 1)
           back == SubSeq(s, i + 1, Len(s))
<1>1. Len(s) \in Nat /\ i \in 1..Len(s) /\ i \in Nat
  OBVIOUS
<1>2. front \in Seq(T) /\ Len(front) = i - 1 /\ \A j \in 1..(i - 1) : front[j] = s[j]
  BY <1>1
<1>3. back \in Seq(T) /\ Len(back) = Len(s) - i /\ \A j \in 1..(Len(s) - i) : back[j] = s[i + j]
  BY <1>1
<1> HIDE DEF front, back
<1> DEFINE t == front \o back
<1>4. /\ t \in Seq(T) /\ Len(t) = Len(front) + Len(back)
      /\ \A j \in 1..Len(front) : t[j] = front[j]
      /\ \A j \in (Len(front) + 1)..(Len(front) + Len(back)) : t[j] = back[j - Len(front)]
  <2>1. front \in Seq(T) /\ back \in Seq(T)
    BY <1>2, <1>3
  <2> QED
    BY <2>1
<1> HIDE DEF t
<1>5. t = RemoveAt(s, i)
  BY DEF t, front, back, RemoveAt
<1>6. Len(t) = Len(s) - 1
  BY <1>1, <1>2, <1>3, <1>4
<1>7. ASSUME NEW j \in 1..(Len(s) - 1) PROVE t[j] = s[IF j < i THEN j ELSE j + 1]
  <2>1. CASE j < i
    <3>1. j \in 1..(i - 1)
      BY <1>1, <2>1
    <3> QED
      BY <1>2, <1>4, <2>1, <3>1
  <2>2. CASE ~(j < i)
    <3>1. j \in (Len(front) + 1)..(Len(front) + Len(back)) /\ j - Len(front) = j - i + 1
      BY <1>1, <1>2, <1>3, <2>2
    <3>2. t[j] = back[j - i + 1]
      BY <1>4, <3>1
    <3>3. j - i + 1 \in 1..(Len(s) - i) /\ i + (j - i + 1) = j + 1
      BY <1>1, <2>2
    <3>4. back[j - i + 1] = s[j + 1]
      BY <1>3, <3>3
    <3> QED
      BY <2>2, <3>2, <3>4
  <2> QED
    BY <2>1, <2>2
<1> QED
  BY <1>4, <1>5, <1>6, <1>7

LEMMA ToSetAppend ==
    ASSUME NEW T, NEW q \in Seq(T), NEW r \in T
    PROVE  Append(q, r) \in Seq(T) /\ ToSet(Append(q, r)) = ToSet(q) \cup {r}
<1> DEFINE t == Append(q, r)
<1>1. /\ t \in Seq(T) /\ DOMAIN q = 1..Len(q) /\ DOMAIN t = 1..(Len(q) + 1) /\ Len(q) \in Nat
      /\ (\A j \in 1..Len(q) : t[j] = q[j]) /\ t[Len(q) + 1] = r
  OBVIOUS
<1> HIDE DEF t
<1>2. \A j \in 1..(Len(q) + 1) : j \in 1..Len(q) \/ j = Len(q) + 1
  BY <1>1
<1>3. Len(q) + 1 \in 1..(Len(q) + 1) /\ \A j \in 1..Len(q) : j \in 1..(Len(q) + 1)
  BY <1>1
<1>4. ToSet(t) = ToSet(q) \cup {r}
  BY <1>1, <1>2, <1>3, ToSetIs
<1> QED
  BY <1>1, <1>4 DEF t

LEMMA AppendAsk ==
    ASSUME NEW q \in Seq(Asks), SavesDiffer(q), NEW r \in Asks,
           r.do = "save" => \A j \in DOMAIN q : q[j].do = "save" => q[j].ids \cap r.ids = {}
    PROVE  LET t == Append(q, r)
           IN  t \in Seq(Asks) /\ ToSet(t) = ToSet(q) \cup {r} /\ SavesDiffer(t)
  BY ToSetAppend DEF SavesDiffer

LEMMA RemoveAsk ==
    ASSUME NEW q \in Seq(Asks), SavesDiffer(q), NEW i \in DOMAIN q
    PROVE  LET t == RemoveAt(q, i)
           IN  /\ t \in Seq(Asks) /\ SavesDiffer(t)
               /\ ToSet(t) \subseteq ToSet(q) /\ ToSet(q) \subseteq ToSet(t) \cup {q[i]}
<1> DEFINE t == RemoveAt(q, i)
           old(j) == IF j < i THEN j ELSE j + 1
<1>1. DOMAIN q = 1..Len(q) /\ Len(q) \in Nat /\ i \in 1..Len(q)
  OBVIOUS
<1>2. /\ t \in Seq(Asks) /\ Len(t) = Len(q) - 1
      /\ \A j \in 1..(Len(q) - 1) : t[j] = q[old(j)]
  BY <1>1, RemoveAtIs
<1> HIDE DEF t
<1>3. DOMAIN t = 1..(Len(q) - 1)
  BY <1>1, <1>2
<1>4. \A j \in 1..(Len(q) - 1) : old(j) \in 1..Len(q)
  BY <1>1
<1>5. \A j, k \in 1..(Len(q) - 1) : old(j) = old(k) => j = k
  BY <1>1
<1>6. \A k \in 1..Len(q) : k # i => \E j \in 1..(Len(q) - 1) : old(j) = k
  <2> SUFFICES ASSUME NEW k \in 1..Len(q), k # i PROVE \E j \in 1..(Len(q) - 1) : old(j) = k
    OBVIOUS
  <2>1. CASE k < i
    BY <1>1, <2>1
  <2>2. CASE k > i
    BY <1>1, <2>2
  <2> QED
    BY <1>1, <2>1, <2>2
<1> HIDE DEF old
<1>7. \A j \in DOMAIN t : t[j] = q[old(j)] /\ old(j) \in DOMAIN q
  BY <1>1, <1>2, <1>3, <1>4
<1>8. ToSet(t) \subseteq ToSet(q)
  BY <1>7, ToSetIs
<1>9. ToSet(q) \subseteq ToSet(t) \cup {q[i]}
  <2> SUFFICES ASSUME NEW k \in DOMAIN q, k # i PROVE q[k] \in ToSet(t)
    BY ToSetIs
  <2>1. PICK j \in 1..(Len(q) - 1) : old(j) = k
    BY <1>1, <1>6
  <2> QED
    BY <1>3, <1>7, <2>1, ToSetIs
<1>10. SavesDiffer(t)
  BY <1>3, <1>5, <1>7 DEF SavesDiffer
<1> QED
  BY <1>2, <1>8, <1>9, <1>10 DEF t

LEMMA AnswerAsk ==
    ASSUME NEW q \in Seq(Asks), SavesDiffer(q), NEW i \in DOMAIN q, NEW r \in Asks,
           r.do = q[i].do, r.ids = q[i].ids
    PROVE  LET t == [q EXCEPT ![i] = r]
           IN  /\ t \in Seq(Asks) /\ SavesDiffer(t) /\ r \in ToSet(t)
               /\ ToSet(t) \subseteq ToSet(q) \cup {r} /\ ToSet(q) \subseteq ToSet(t) \cup {q[i]}
<1> DEFINE t == [q EXCEPT ![i] = r]
<1>1. t \in Seq(Asks) /\ DOMAIN t = DOMAIN q /\ t[i] = r /\ \A j \in DOMAIN q : j # i => t[j] = q[j]
  OBVIOUS
<1> HIDE DEF t
<1>2. SavesDiffer(t)
  BY <1>1 DEF SavesDiffer
<1>3. /\ r \in ToSet(t)
      /\ ToSet(t) \subseteq ToSet(q) \cup {r} /\ ToSet(q) \subseteq ToSet(t) \cup {q[i]}
  BY <1>1, ToSetIs
<1> QED
  BY <1>1, <1>2, <1>3 DEF t

-----------------------------------------------------------------------------
(* Steps that neither write nor publish anything *)

LEMMA IdsOfIs == \A S, x : x \in IdsOf(S) <=> \E n \in S : n.id = x
  BY DEF IdsOf

LEMMA IdsAskedIs == \A S, x : x \in IdsAsked(S) <=> \E r \in S : x \in r.ids
  BY DEF IdsAsked

LEMMA ResultsIs == \A S, x : x \in Results(S) <=> \E r \in S : x \in r.result
  BY DEF Results

\* Each of these sets by its members.
InKnown(n) ==
    \/ n \in published \/ n \in saved \/ n \in comments \/ n \in draftComments
    \/ \E r \in Requests : n \in r.result \/ (r.do = "save" /\ n \in Notes /\ n.id \in r.ids /\ n.path = r.path)
InUsed(x) ==
    \/ \E n \in published : n.id = x
    \/ \E n \in saved : n.id = x
    \/ \E n \in comments : n.id = x
    \/ \E n \in draftComments : n.id = x
    \/ x \in deleted \/ \E e \in Happened : e.id = x
    \/ \E r \in Requests : (\E n \in r.result : n.id = x) \/ (r.do \in Kinds \ {"save"} /\ x \in r.ids)
InPublic(x) ==
    \/ \E n \in published : n.id = x
    \/ \E n \in comments : n.id = x
    \/ x \in deleted \/ \E e \in Happened : e.id = x
    \/ \E r \in Requests :
          \/ r.do \in {"comments", "publish"} /\ \E n \in r.result : n.id = x
          \/ r.do = "deletePublished" /\ x \in r.ids
InGone(x) ==
    \/ x \in deleted \/ \E e \in Happened : e.id = x /\ e.type = "comment_deleted"
    \/ \E r \in Requests : r.do = "deletePublished" /\ r.done /\ ~r.failed /\ x \in r.ids

Members ==
    /\ \A n : n \in Known <=> InKnown(n)
    /\ \A x : (x \in Used <=> InUsed(x)) /\ (x \in Public <=> InPublic(x)) /\ (x \in Gone <=> InGone(x))
    /\ \A x : x \in IdsAsked(Taking) <=> \E r \in Requests : r.do \in {"publish", "deleteDraft"} /\ r.done /\ x \in r.ids

LEMMA MembersAre == Members /\ Members'
<1>1. Members
  <2>1. \A n : n \in Known <=> InKnown(n)
    BY ResultsIs DEF Known, InKnown, Of
  <2>2. \A x : x \in Used <=> InUsed(x)
    BY IdsOfIs, IdsAskedIs, ResultsIs DEF Used, InUsed, Of
  <2>3. \A x : x \in Public <=> InPublic(x)
    <3> DEFINE some == published \cup comments \cup Results(Of({"comments", "publish"}))
    <3>1. \A n : n \in some <=> \/ n \in published \/ n \in comments
                             \/ \E r \in Requests : r.do \in {"comments", "publish"} /\ n \in r.result
      BY ResultsIs DEF Of
    <3>2. \A x : x \in IdsAsked(Of({"deletePublished"})) <=> \E r \in Requests : r.do = "deletePublished" /\ x \in r.ids
      BY IdsAskedIs DEF Of
    <3>3. Public = IdsOf(some) \cup deleted \cup IdsOf(Happened) \cup IdsAsked(Of({"deletePublished"}))
      BY DEF Public
    <3> HIDE DEF some
    <3>4. \A x : x \in IdsOf(some) <=> \E n \in some : n.id = x
      BY IdsOfIs
    <3>5. \A x : x \in IdsOf(Happened) <=> \E e \in Happened : e.id = x
      BY IdsOfIs
    <3>6. \A x : (\E n \in some : n.id = x) <=>
            \/ \E n \in published : n.id = x
            \/ \E n \in comments : n.id = x
            \/ \E r \in Requests : r.do \in {"comments", "publish"} /\ \E n \in r.result : n.id = x
      BY <3>1
    <3> QED
      BY <3>2, <3>3, <3>4, <3>5, <3>6 DEF InPublic
  <2>4. \A x : x \in Gone <=> InGone(x)
    BY IdsOfIs, IdsAskedIs DEF Gone, InGone, Of
  <2>5. \A x : x \in IdsAsked(Taking) <=> \E r \in Requests : r.do \in {"publish", "deleteDraft"} /\ r.done /\ x \in r.ids
    BY IdsAskedIs DEF Taking, Of
  <2> QED
    BY <2>1, <2>2, <2>3, <2>4, <2>5 DEF Members
<1>2. Members'
  <2>1. \A n : n \in Known' <=> InKnown(n)'
    BY ResultsIs DEF Known, InKnown, Of
  <2>2. \A x : x \in Used' <=> InUsed(x)'
    BY IdsOfIs, IdsAskedIs, ResultsIs DEF Used, InUsed, Of
  <2>3. \A x : x \in Public' <=> InPublic(x)'
    <3> DEFINE some == published' \cup comments' \cup Results(Of({"comments", "publish"})')
    <3>1. \A n : n \in some <=> \/ n \in published' \/ n \in comments'
                             \/ \E r \in Requests' : r.do \in {"comments", "publish"} /\ n \in r.result
      BY ResultsIs DEF Of
    <3>2. \A x : x \in IdsAsked(Of({"deletePublished"})') <=> \E r \in Requests' : r.do = "deletePublished" /\ x \in r.ids
      BY IdsAskedIs DEF Of
    <3>3. Public' = IdsOf(some) \cup deleted' \cup IdsOf(Happened') \cup IdsAsked(Of({"deletePublished"})')
      BY DEF Public
    <3> HIDE DEF some
    <3>4. \A x : x \in IdsOf(some) <=> \E n \in some : n.id = x
      BY IdsOfIs
    <3>5. \A x : x \in IdsOf(Happened') <=> \E e \in Happened' : e.id = x
      BY IdsOfIs
    <3>6. \A x : (\E n \in some : n.id = x) <=>
            \/ \E n \in published' : n.id = x
            \/ \E n \in comments' : n.id = x
            \/ \E r \in Requests' : r.do \in {"comments", "publish"} /\ \E n \in r.result : n.id = x
      BY <3>1
    <3> QED
      BY <3>2, <3>3, <3>4, <3>5, <3>6 DEF InPublic
  <2>4. \A x : x \in Gone' <=> InGone(x)'
    BY IdsOfIs, IdsAskedIs DEF Gone, InGone, Of
  <2>5. \A x : x \in IdsAsked(Taking') <=> \E r \in Requests' : r.do \in {"publish", "deleteDraft"} /\ r.done /\ x \in r.ids
    BY IdsAskedIs DEF Taking, Of
  <2> QED
    BY <2>1, <2>2, <2>3, <2>4, <2>5 DEF Members
<1> QED
  BY <1>1, <1>2

\* A request of something that is known, or what such a request is answered.
Harmless(r) ==
    /\ r \in Asks /\ r.do # "save" /\ r.ids \subseteq Used
    /\ r.do = "deletePublished" => r.ids \subseteq Public
    /\ r.result \subseteq IF r.do \in {"comments", "publish"} THEN published ELSE saved
    /\ r.done => /\ r.do = "deletePublished" => r.failed
                 /\ r.do \in {"publish", "deleteDraft"} => r.ids \cap IdsOf(saved) = {}

LEMMA NothingNew ==
    ASSUME CommentShapes, NotesFit,
           names' = names, published' = published, saved' = saved,
           comments' \subseteq comments \cup Results(Of({"comments", "publish"})),
           draftComments' \subseteq draftComments \cup Results(Of({"drafts", "save"})),
           deleted' \subseteq Gone,
           \A e \in Happened' : e \in Happened \/ (e.id \in IdsOf(published) /\ e.type # "comment_deleted"),
           \A r \in Requests' : r \in Requests \/ Harmless(r)
    PROVE  NotesFit' /\ Public' \subseteq Public
<1>0. Members /\ Members'
  BY MembersAre
<1>a. \A S, x : x \in IdsOf(S) <=> \E n \in S : n.id = x
  BY IdsOfIs
<1>b. /\ \A n \in comments' : n \in comments \/ \E r \in Requests : r.do \in {"comments", "publish"} /\ n \in r.result
      /\ \A n \in draftComments' : n \in draftComments \/ \E r \in Requests : r.do \in {"drafts", "save"} /\ n \in r.result
  <2>1. \A n \in Results(Of({"comments", "publish"})) : \E r \in Requests : r.do \in {"comments", "publish"} /\ n \in r.result
    BY ResultsIs DEF Of
  <2>2. \A n \in Results(Of({"drafts", "save"})) : \E r \in Requests : r.do \in {"drafts", "save"} /\ n \in r.result
    BY ResultsIs DEF Of
  <2>3. \A n \in comments' : n \in comments \/ n \in Results(Of({"comments", "publish"}))
    OBVIOUS
  <2>4. \A n \in draftComments' : n \in draftComments \/ n \in Results(Of({"drafts", "save"}))
    OBVIOUS
  <2>5. \A n \in comments' : n \in comments \/ \E r \in Requests : r.do \in {"comments", "publish"} /\ n \in r.result
    BY <2>1, <2>3, Zenon
  <2>6. \A n \in draftComments' : n \in draftComments \/ \E r \in Requests : r.do \in {"drafts", "save"} /\ n \in r.result
    BY <2>2, <2>4, Zenon
  <2> QED
    BY <2>5, <2>6
<1>1. Known' \subseteq Known
  BY <1>b, <1>0 DEF Members, InKnown, Harmless
<1>2. Gone \subseteq Public /\ Public \subseteq Used
  BY <1>0 DEF InGone, InPublic, InUsed, Kinds, Members
<1>c. \A x : (\E n \in published : n.id = x) => x \in Public
  BY <1>0 DEF Members, InPublic
<1>d. \A x : (\E n \in saved : n.id = x) => x \in Used
  BY <1>0 DEF Members, InUsed
<1>3. Used' \subseteq Used
  BY <1>a, <1>c, <1>b, <1>d, <1>0, <1>2 DEF Members, InUsed, Harmless
<1>4. Public' \subseteq Public
  BY <1>a, <1>c, <1>b, <1>0, <1>2 DEF Members, InPublic, Harmless
<1>5. Gone' \subseteq Gone
  BY <1>0 DEF Members, InGone, Harmless
<1>6. \A x \in IdsAsked(Taking') : x \in IdsAsked(Taking) \/ x \notin IdsOf(saved)
  BY <1>0 DEF Members, Harmless
<1>7. Of({"save"})' \subseteq Of({"save"})
  BY DEF Of, Harmless
<1>8. OnePath'
  BY <1>1 DEF OnePath, NotesFit
<1>9. UsedAreNamed'
  BY <1>3, <1>7, IdsAskedIs DEF UsedAreNamed, NotesFit
<1>10. SavesAreNew' /\ SavesAnswer'
  BY <1>3, <1>7 DEF SavesAreNew, SavesAnswer, NotesFit
<1>11. DraftsAreOwn' /\ GoneIsGone' /\ TakenAreGone'
  BY <1>4, <1>5, <1>6 DEF DraftsAreOwn, GoneIsGone, TakenAreGone, NotesFit
<1> QED
  BY <1>4, <1>8, <1>9, <1>10, <1>11 DEF NotesFit

-----------------------------------------------------------------------------
(* What the parts of a step do *)

LEMMA Asking ==
    ASSUME CommentShapes, NEW r \in Asks, Ask(r), r.do # "save"
    PROVE  asked' \in Seq(Asks) /\ SavesDiffer(asked') /\ Requests' = Requests \cup {r}
  BY AppendAsk DEF CommentShapes, Ask, Requests

LEMMA Ending ==
    ASSUME CommentShapes, NEW i \in DOMAIN asked, Ended(i)
    PROVE  /\ asked' \in Seq(Asks) /\ SavesDiffer(asked')
           /\ Requests' \subseteq Requests /\ Requests \subseteq Requests' \cup {asked[i]}
           /\ asked[i] \in Asks /\ asked[i] \in Requests
  BY ToSetIs, RemoveAsk DEF CommentShapes, Ended, Requests

LEMMA Telling ==
    ASSUME CommentShapes, NEW type \in Types, NEW note \in Notes, Tell(type, note)
    PROVE  /\ activities' \in Seq(Happenings) /\ attention' \in BOOLEAN
           /\ \A e \in Happened' : e \in Happened \/ (e.id = note.id /\ e.type = type)
           /\ Happened \subseteq Happened'
           /\ IF online THEN attention' ELSE UNCHANGED <<activities, attention>>
<1> DEFINE e == [type |-> type, id |-> note.id, path |-> note.path]
<1>1. e \in Happenings /\ e.id = note.id /\ e.type = type
  BY DEF Happenings, Notes
<1>2. activities \in Seq(Happenings) /\ attention \in BOOLEAN
  BY DEF CommentShapes
<1>3. IF online THEN activities' = Append(activities, e) /\ attention' = TRUE
                ELSE UNCHANGED <<activities, attention>>
  BY DEF Tell, Publicize
<1> HIDE DEF e
<1>4. CASE online
  <2>1. Append(activities, e) \in Seq(Happenings) /\ ToSet(Append(activities, e)) = ToSet(activities) \cup {e}
    BY <1>1, <1>2, ToSetAppend
  <2>2. Happened' = Happened \cup {e}
    BY <1>3, <1>4, <2>1 DEF Happened
  <2> QED
    BY <1>1, <1>3, <1>4, <2>1, <2>2
<1>5. CASE ~online
  BY <1>2, <1>3, <1>5 DEF Happened
<1> QED
  BY <1>4, <1>5

\* Nothing happens to the drafts.
LEMMA DraftsStay ==
    ASSUME DraftsFit, saved' = saved, draftComments' = draftComments, astray \subseteq astray',
           Public' \subseteq Public,
           \A r \in Requests : r \in Requests' \/ r.do \in {"comments", "deletePublished"}
    PROVE  DraftsFit'
<1>1. \A x \in IdsOf(Results(Of({"drafts", "save"}))) : x \in IdsOf(Results(Of({"drafts", "save"})'))
  BY ResultsIs, IdsOfIs DEF Of
<1>2. \A x \in IdsAsked(Taking) : x \in IdsAsked(Taking')
  BY IdsAskedIs DEF Taking, Of
<1>3. \A x \in IdsAsked(Of({"publish"})) : x \in IdsAsked(Of({"publish"})')
  BY IdsAskedIs DEF Of
<1>4. SavedAreComing'
  BY <1>1 DEF SavedAreComing, DraftsFit
<1>5. DraftsAreLeaving'
  BY <1>2 DEF DraftsAreLeaving, DraftsFit
<1>6. PublicAreLeaving'
  BY <1>3 DEF PublicAreLeaving, DraftsFit
<1> QED
  BY <1>4, <1>5, <1>6 DEF DraftsFit

-----------------------------------------------------------------------------
(* The page asks *)

LEMMA RequestsAreAsks == CommentShapes => Requests \subseteq Asks
  BY ToSetIs DEF CommentShapes, Requests

LEMMA PublicIsUsed == Gone \subseteq Public /\ Public \subseteq Used
  BY MembersAre DEF InGone, InPublic, InUsed, Kinds, Members

LEMMA DeletedIsGone == deleted \subseteq Gone
  BY DEF Gone

\* Where the names of Used come from.
LEMMA UsedHas ==
    /\ \A n \in published : n.id \in Used /\ n.id \in Public
    /\ \A n \in comments : n.id \in Used /\ n.id \in Public
    /\ \A n \in saved : n.id \in Used
    /\ \A n \in draftComments : n.id \in Used
  BY MembersAre DEF Members, InUsed, InPublic

LEMMA PageAsks ==
    ASSUME CommentInv, NEW do \in {"comments", "deleteDraft", "deletePublished", "publish"},
           NEW ids \in SUBSET Ids, NEW path \in Documents \cup {AllPaths},
           Ask(Request(do, ids, path)), UNCHANGED <<server, online, page, clouded, astray>>,
           ids \subseteq Used, do = "deletePublished" => ids \subseteq Public
    PROVE  CommentInv'
<1> DEFINE r == Request(do, ids, path)
<1>1. /\ r \in Asks /\ r.do = do /\ r.ids = ids /\ r.revision = revision
      /\ r.done = FALSE /\ r.result = {}
  BY DEF CommentInv, CommentShapes, Request, Asks, Kinds
<1>2. Ask(r) /\ r.do # "save"
  BY <1>1
<1> HIDE DEF r
<1>3. /\ names' = names /\ published' = published /\ saved' = saved /\ activities' = activities
      /\ attention' = attention /\ online' = online /\ comments' = comments /\ deleted' = deleted
      /\ draftComments' = draftComments /\ revision' = revision /\ clouded' = clouded /\ astray' = astray
  BY DEF server, page
<1>4. CommentShapes /\ NotesFit /\ DraftsFit /\ CommentsFit
  BY DEF CommentInv
<1>5. asked' \in Seq(Asks) /\ SavesDiffer(asked') /\ Requests' = Requests \cup {r}
  BY <1>1, <1>2, <1>4, Asking
<1>6. CommentShapes'
  BY <1>3, <1>4, <1>5 DEF CommentShapes
<1>7. Harmless(r)
  BY <1>1 DEF Harmless
<1>8. NotesFit' /\ Public' \subseteq Public
  BY <1>3, <1>4, <1>5, <1>7, DeletedIsGone, NothingNew DEF Happened
<1>9. DraftsFit'
  BY <1>3, <1>4, <1>5, <1>8, DraftsStay
<1>10. LoadsAreCurrent'
  BY <1>1, <1>3, <1>4, <1>5 DEF LoadsAreCurrent, CommentsFit, Of, At
<1>11. CommentsFit'
  BY <1>1, <1>3, <1>4, <1>5, <1>10 DEF CommentsFit, DeletedStaysGone, CommentShapes
<1> QED
  BY <1>6, <1>8, <1>9, <1>11 DEF CommentInv

LEMMA PageAsksSomething ==
    ASSUME CommentInv, NEW path \in Documents,
           \/ OpenCommentedFile(path) \/ PublishDraftReviewComments(path)
           \/ \E note \in comments : DeletePublishedComment(note)
           \/ \E note \in draftComments : DeleteDraftReviewComment(note)
    PROVE  CommentInv'
<1>1. comments \subseteq Notes /\ draftComments \subseteq Notes
  BY DEF CommentInv, CommentShapes
<1>2. CASE OpenCommentedFile(path)
  BY <1>2, PageAsks DEF OpenCommentedFile, LoadComments
<1>3. CASE PublishDraftReviewComments(path)
  BY <1>1, <1>3, UsedHas, PageAsks DEF PublishDraftReviewComments, IdsOf, At, Notes
<1>4. CASE \E note \in comments : DeletePublishedComment(note)
  BY <1>1, <1>4, UsedHas, PageAsks DEF DeletePublishedComment, Notes
<1>5. CASE \E note \in draftComments : DeleteDraftReviewComment(note)
  BY <1>1, <1>5, UsedHas, PageAsks DEF DeleteDraftReviewComment, Notes
<1> QED
  BY <1>2, <1>3, <1>4, <1>5

-----------------------------------------------------------------------------
(* Streams *)

LEMMA TailIs ==
    ASSUME NEW T, NEW q \in Seq(T), q # <<>>
    PROVE  Tail(q) \in Seq(T) /\ ToSet(Tail(q)) \subseteq ToSet(q) /\ Head(q) \in ToSet(q) /\ Head(q) \in T
<1> DEFINE t == Tail(q)
<1>1. /\ DOMAIN q = 1..Len(q) /\ Len(q) \in Nat /\ Len(q) # 0 /\ t \in Seq(T)
      /\ DOMAIN t = 1..(Len(q) - 1) /\ Head(q) = q[1]
      /\ \A j \in 1..(Len(q) - 1) : t[j] = q[j + 1]
  OBVIOUS
<1> HIDE DEF t
<1>2. 1 \in 1..Len(q) /\ \A j \in 1..(Len(q) - 1) : j + 1 \in 1..Len(q)
  BY <1>1
<1>3. ToSet(t) \subseteq ToSet(q) /\ Head(q) \in ToSet(q)
  BY <1>1, <1>2, ToSetIs
<1>4. Head(q) \in T
  OBVIOUS
<1> QED
  BY <1>1, <1>3, <1>4 DEF t

LEMMA NoCurrentLoads ==
    CurrentLoads = {} => \A r \in Of({"comments"}) : r.revision # revision
  BY ToSetIs DEF CurrentLoads, Busy, Of, Requests

LEMMA AgentReadsFits ==
    ASSUME CommentInv, NEW note \in published, AgentReads(note)
    PROVE  CommentInv'
<1>1. CommentShapes /\ NotesFit /\ DraftsFit /\ CommentsFit
  BY DEF CommentInv
<1>2. /\ names' = names /\ published' = published /\ saved' = saved /\ asked' = asked
      /\ online' = online /\ comments' = comments /\ deleted' = deleted
      /\ draftComments' = draftComments /\ revision' = revision /\ clouded' = clouded /\ astray' = astray
      /\ Tell("thread_read", note)
  BY DEF AgentReads, page
<1>3. note \in Notes
  BY <1>1 DEF CommentShapes
<1>4. /\ activities' \in Seq(Happenings) /\ attention' \in BOOLEAN
      /\ \A e \in Happened' : e \in Happened \/ (e.id = note.id /\ e.type = "thread_read")
      /\ IF online THEN attention' ELSE UNCHANGED <<activities, attention>>
  <2>1. "thread_read" \in Types
    BY DEF Types
  <2> QED
    BY <1>1, <1>2, <1>3, <2>1, Telling, Zenon
<1>5. Requests' = Requests
  BY <1>2 DEF Requests
<1>6. CommentShapes'
  BY <1>1, <1>2, <1>4 DEF CommentShapes
<1>7. NotesFit' /\ Public' \subseteq Public
  BY <1>1, <1>2, <1>4, <1>5, IdsOfIs, NothingNew, DeletedIsGone
<1>8. DraftsFit'
  BY <1>1, <1>2, <1>5, <1>7, DraftsStay
<1>9. CommentsFit'
  BY <1>1, <1>2, <1>4, <1>5 DEF LoadsAreCurrent, CommentsFit, Of, At, DeletedStaysGone
<1> QED
  BY <1>6, <1>7, <1>8, <1>9 DEF CommentInv

LEMMA StreamsBreakFits ==
    ASSUME CommentInv, StreamsBreak
    PROVE  CommentInv'
<1>1. CommentShapes /\ NotesFit /\ DraftsFit /\ CommentsFit
  BY DEF CommentInv
<1>2. /\ names' = names /\ published' = published /\ saved' = saved /\ asked' = asked
      /\ online' = FALSE /\ activities' = <<>> /\ attention' = FALSE /\ comments' = comments /\ deleted' = deleted
      /\ draftComments' = draftComments /\ revision' = revision /\ clouded' = clouded /\ astray' = astray
  BY DEF StreamsBreak, page
<1>3. Requests' = Requests /\ Happened' = {}
  BY <1>2, ToSetIs DEF Requests, Happened
<1>4. CommentShapes'
  BY <1>1, <1>2, EmptySeq DEF CommentShapes
<1>5. NotesFit' /\ Public' \subseteq Public
  BY <1>1, <1>2, <1>3, NothingNew, DeletedIsGone
<1>6. DraftsFit'
  BY <1>1, <1>2, <1>3, <1>5, DraftsStay
<1>7. CommentsFit'
  BY <1>1, <1>2, <1>3 DEF CommentsFit, DeletedStaysGone, LoadsAreCurrent
<1> QED
  BY <1>4, <1>5, <1>6, <1>7 DEF CommentInv

LEMMA ReceiveAttentionFits ==
    ASSUME CommentInv, ReceiveAttention
    PROVE  CommentInv'
<1> DEFINE r == [LoadComments(AllPaths) EXCEPT !.revision = revision + 1]
<1>1. CommentShapes /\ NotesFit /\ DraftsFit /\ CommentsFit
  BY DEF CommentInv
<1>2. /\ names' = names /\ published' = published /\ saved' = saved /\ activities' = activities
      /\ online' = online /\ online /\ attention' = FALSE /\ comments' = comments /\ deleted' = deleted
      /\ draftComments' = draftComments /\ revision' = revision + 1 /\ clouded' = FALSE /\ astray' = astray
      /\ Ask(r)
  BY DEF ReceiveAttention
<1>3. revision \in Nat /\ revision + 1 \in Nat /\ revision < revision + 1
  BY <1>1 DEF CommentShapes
<1>4. /\ r \in Asks /\ r.do = "comments" /\ r.ids = {} /\ r.path = AllPaths /\ r.revision = revision + 1
      /\ r.done = FALSE /\ r.failed = FALSE /\ r.result = {}
  BY <1>3 DEF LoadComments, Request, Asks, Kinds
<1> HIDE DEF r
<1>5. asked' \in Seq(Asks) /\ SavesDiffer(asked') /\ Requests' = Requests \cup {r}
  BY <1>1, <1>2, <1>4, Asking
<1>6. CommentShapes'
  BY <1>1, <1>2, <1>3, <1>5 DEF CommentShapes
<1>7. Harmless(r)
  BY <1>4 DEF Harmless
<1>8. NotesFit' /\ Public' \subseteq Public
  BY <1>1, <1>2, <1>5, <1>7, DeletedIsGone, NothingNew DEF Happened
<1>9. DraftsFit'
  BY <1>1, <1>2, <1>5, <1>8, DraftsStay
<1>10. \A q \in Requests : q.revision \in Nat /\ q.revision <= revision /\ q.revision # revision + 1
  BY <1>1, <1>3, RequestsAreAsks DEF CommentsFit, Asks
<1>11. LoadsAreCurrent'
  BY <1>2, <1>4, <1>5, <1>10 DEF LoadsAreCurrent, Of
<1>12. CommentsFit'
  BY <1>1, <1>2, <1>3, <1>4, <1>5, <1>10, <1>11 DEF CommentsFit, DeletedStaysGone
<1> QED
  BY <1>6, <1>8, <1>9, <1>12 DEF CommentInv

LEMMA StreamsReturnFits ==
    ASSUME CommentInv, StreamsReturn
    PROVE  CommentInv'
<1> DEFINE d == Request("drafts", {}, AllPaths)
           r == LoadComments(AllPaths)
<1>1. CommentShapes /\ NotesFit /\ DraftsFit /\ CommentsFit
  BY DEF CommentInv
<1>2. /\ names' = names /\ published' = published /\ saved' = saved /\ activities' = activities
      /\ ~online /\ online' = TRUE /\ attention' = attention /\ comments' = comments /\ deleted' = deleted
      /\ draftComments' = draftComments /\ revision' = revision /\ astray' = astray
      /\ clouded' = (clouded \/ CurrentLoads # {}) /\ asked' = asked \o <<d, r>>
  BY DEF StreamsReturn, server, page
<1>3. /\ d \in Asks /\ d.do = "drafts" /\ d.ids = {} /\ d.revision = revision
      /\ d.done = FALSE /\ d.failed = FALSE /\ d.result = {}
  BY <1>1 DEF Request, Asks, Kinds, CommentShapes
<1>4. /\ r \in Asks /\ r.do = "comments" /\ r.ids = {} /\ r.path = AllPaths /\ r.revision = revision
      /\ r.done = FALSE /\ r.failed = FALSE /\ r.result = {}
  BY <1>1 DEF LoadComments, Request, Asks, Kinds, CommentShapes
<1> HIDE DEF d, r
<1>5. asked' = Append(Append(asked, d), r)
  BY <1>1, <1>2, <1>3, <1>4 DEF CommentShapes
<1>6. /\ asked' \in Seq(Asks) /\ SavesDiffer(asked') /\ Requests' = Requests \cup {d, r}
  <2>1. asked \in Seq(Asks) /\ SavesDiffer(asked)
    BY <1>1 DEF CommentShapes
  <2>2. /\ Append(asked, d) \in Seq(Asks) /\ SavesDiffer(Append(asked, d))
        /\ ToSet(Append(asked, d)) = ToSet(asked) \cup {d}
    BY <1>3, <2>1, AppendAsk
  <2> DEFINE q == Append(asked, d)
  <2> HIDE DEF q
  <2>3. q \in Seq(Asks) /\ SavesDiffer(q) /\ ToSet(q) = ToSet(asked) \cup {d}
    BY <2>2 DEF q
  <2>4. /\ Append(q, r) \in Seq(Asks) /\ SavesDiffer(Append(q, r))
        /\ ToSet(Append(q, r)) = ToSet(q) \cup {r}
    BY <1>4, <2>3, AppendAsk
  <2>5. asked' = Append(q, r)
    BY <1>5 DEF q
  <2> QED
    BY <2>3, <2>4, <2>5 DEF Requests
<1>7. CommentShapes'
  BY <1>1, <1>2, <1>6 DEF CommentShapes
<1>8. Harmless(r) /\ Harmless(d)
  BY <1>3, <1>4 DEF Harmless
<1>9. NotesFit' /\ Public' \subseteq Public
  BY <1>1, <1>2, <1>6, <1>8, DeletedIsGone, NothingNew DEF Happened
<1>10. DraftsFit'
  BY <1>1, <1>2, <1>6, <1>9, DraftsStay
<1>11. LoadsAreCurrent'
  BY <1>2, <1>3, <1>4, <1>6, NoCurrentLoads DEF LoadsAreCurrent, Of
<1>12. revision <= revision
  BY <1>1 DEF CommentShapes
<1>13. CommentsFit'
  BY <1>1, <1>2, <1>3, <1>4, <1>6, <1>11, <1>12 DEF CommentsFit, DeletedStaysGone
<1> QED
  BY <1>7, <1>9, <1>10, <1>13 DEF CommentInv

LEMMA UsedAreIds ==
    ASSUME CommentShapes, NotesFit
    PROVE  Used \subseteq Ids /\ Gone \subseteq Ids
<1>1. 1..names \subseteq Ids
  BY CommentsAssumption DEF CommentShapes, Ids
<1> QED
  BY <1>1, PublicIsUsed DEF NotesFit, UsedAreNamed

\* A deletion that is known does not disturb a page that is up to date.
LEMMA Knowing ==
    ASSUME CommentShapes, NotesFit, NEW ids, ids \subseteq Gone, KnowDeleted(ids)
    PROVE  /\ comments' \subseteq comments /\ deleted' \subseteq Gone /\ deleted' \subseteq Ids
           /\ revision' = revision + 1 /\ DeletedStaysGone'
           /\ comments = published => comments' = published
           /\ clouded' = (clouded \/ CurrentLoads # {})
  BY DeletedIsGone, UsedAreIds, IdsOfIs DEF KnowDeleted, Retained, DeletedStaysGone, NotesFit, GoneIsGone

LEMMA ReceiveActivityFits ==
    ASSUME CommentInv, ReceiveActivity
    PROVE  CommentInv'
<1> DEFINE e == Head(activities)
           target == IF At(comments, e.path) # {} THEN e.path ELSE AllPaths
           after == IF e.type = "comment_deleted" THEN revision + 1 ELSE revision
           r == [LoadComments(target) EXCEPT !.revision = after]
<1>1. CommentShapes /\ NotesFit /\ DraftsFit /\ CommentsFit
  BY DEF CommentInv
<1>2. /\ names' = names /\ published' = published /\ saved' = saved /\ activities' = Tail(activities)
      /\ online' = online /\ attention' = attention /\ draftComments' = draftComments /\ astray' = astray
      /\ activities # <<>> /\ online
  BY DEF ReceiveActivity
<1>3. /\ IF e.type = "comment_deleted" THEN KnowDeleted({e.id})
         ELSE UNCHANGED <<comments, deleted, revision, clouded>>
      /\ IF e.type = "thread_read" /\ target # AllPaths THEN UNCHANGED asked ELSE Ask(r)
  BY DEF ReceiveActivity
<1>4. /\ activities' \in Seq(Happenings) /\ Happened' \subseteq Happened /\ e \in Happened /\ e \in Happenings
  BY <1>1, <1>2, TailIs DEF CommentShapes, Happened
<1>5. revision \in Nat /\ revision + 1 \in Nat /\ revision < revision + 1
  BY <1>1 DEF CommentShapes
<1>6. /\ r \in Asks /\ r.do = "comments" /\ r.ids = {} /\ r.path = target /\ r.revision = after
      /\ r.done = FALSE /\ r.failed = FALSE /\ r.result = {}
  BY <1>4, <1>5 DEF Happenings, LoadComments, Request, Asks, Kinds
<1> HIDE DEF r
<1>7. Harmless(r)
  BY <1>6 DEF Harmless
<1>8. /\ asked' \in Seq(Asks) /\ SavesDiffer(asked')
      /\ Requests \subseteq Requests' /\ Requests' \subseteq Requests \cup {r}
      /\ ~(e.type = "thread_read" /\ target # AllPaths) => r \in Requests'
  <2>1. CASE e.type = "thread_read" /\ target # AllPaths
    BY <1>1, <1>3, <2>1 DEF CommentShapes, Requests
  <2>2. CASE ~(e.type = "thread_read" /\ target # AllPaths)
    BY <1>1, <1>3, <1>6, <2>2, Asking
  <2> QED
    BY <2>1, <2>2
<1>9. CASE e.type = "comment_deleted"
  <2>1. e.id \in Gone
    BY <1>4, <1>9, MembersAre DEF Members, InGone
  <2>2. KnowDeleted({e.id}) /\ {e.id} \subseteq Gone
    BY <1>3, <1>9, <2>1
  <2>3. /\ comments' \subseteq comments /\ deleted' \subseteq Gone /\ deleted' \subseteq Ids
        /\ revision' = revision + 1 /\ DeletedStaysGone'
        /\ comments = published => comments' = published
        /\ clouded' = (clouded \/ CurrentLoads # {})
    BY <1>1, <2>2, Knowing
  <2>4. r.revision = revision + 1
    BY <1>6, <1>9
  <2>5. CommentShapes'
    BY <1>1, <1>2, <1>4, <1>5, <1>8, <2>3 DEF CommentShapes
  <2>6. NotesFit' /\ Public' \subseteq Public
    BY <1>1, <1>2, <1>4, <1>7, <1>8, <2>3, NothingNew
  <2>7. DraftsFit'
    BY <1>1, <1>2, <1>8, <2>6, DraftsStay
  <2>8. \A q \in Requests : q.revision \in Nat /\ q.revision <= revision /\ q.revision # revision + 1
    BY <1>1, <1>5, RequestsAreAsks DEF CommentsFit, Asks
  <2>9. LoadsAreCurrent'
    BY <1>1, <1>2, <1>6, <1>8, <2>3, <2>8, NoCurrentLoads DEF LoadsAreCurrent, Of, CommentsFit
  <2>10. CommentsFit'
    BY <1>2, <1>5, <1>8, <2>3, <2>4, <2>8, <2>9 DEF CommentsFit
  <2> QED
    BY <2>5, <2>6, <2>7, <2>10 DEF CommentInv
<1>10. CASE e.type # "comment_deleted"
  BY <1>1, <1>2, <1>3, <1>4, <1>5, <1>6, <1>7, <1>8, <1>10, NothingNew, DeletedIsGone, DraftsStay
     DEF CommentShapes, LoadsAreCurrent, CommentsFit, Of, At, DeletedStaysGone, CommentInv
<1> QED
  BY <1>9, <1>10

-----------------------------------------------------------------------------
(* The page is answered *)

\* What DraftsFit says of one name.
LEMMA DraftsBy ==
    ASSUME DraftsFit
    PROVE  /\ \A x \in IdsOf(saved) :
                 \/ x \in astray \/ x \in IdsOf(draftComments)
                 \/ \E r \in Requests : r.do \in {"drafts", "save"} /\ x \in IdsOf(r.result)
           /\ \A x \in IdsOf(draftComments) :
                 \/ x \in IdsOf(saved) \/ x \in astray
                 \/ \E r \in Requests : r.do \in {"publish", "deleteDraft"} /\ r.done /\ x \in r.ids
           /\ \A x \in IdsOf(draftComments) \cap Public :
                 x \in astray \/ \E r \in Requests : r.do = "publish" /\ x \in r.ids
<1>1. \A x \in IdsOf(Results(Of({"drafts", "save"}))) :
         \E r \in Requests : r.do \in {"drafts", "save"} /\ x \in IdsOf(r.result)
  BY IdsOfIs, ResultsIs DEF Of
<1>2. \A x \in IdsAsked(Taking) : \E r \in Requests : r.do \in {"publish", "deleteDraft"} /\ r.done /\ x \in r.ids
  BY MembersAre DEF Members
<1>3. \A x \in IdsAsked(Of({"publish"})) : \E r \in Requests : r.do = "publish" /\ x \in r.ids
  BY IdsAskedIs DEF Of
<1> QED
  BY <1>1, <1>2, <1>3 DEF DraftsFit, SavedAreComing, DraftsAreLeaving, PublicAreLeaving

LEMMA DraftsFrom ==
    ASSUME \A x \in IdsOf(saved') :
               \/ x \in astray' \/ x \in IdsOf(draftComments')
               \/ \E r \in Requests' : r.do \in {"drafts", "save"} /\ x \in IdsOf(r.result),
           \A x \in IdsOf(draftComments') :
               \/ x \in IdsOf(saved') \/ x \in astray'
               \/ \E r \in Requests' : r.do \in {"publish", "deleteDraft"} /\ r.done /\ x \in r.ids,
           \A x \in IdsOf(draftComments') \cap Public' :
               x \in astray' \/ \E r \in Requests' : r.do = "publish" /\ x \in r.ids
    PROVE  DraftsFit'
<1>1. ASSUME NEW x, NEW r \in Requests', r.do \in {"drafts", "save"}, x \in IdsOf(r.result)
      PROVE  x \in IdsOf(Results(Of({"drafts", "save"})'))
  BY <1>1, IdsOfIs, ResultsIs DEF Of
<1>2. \A x : (\E r \in Requests' : r.do \in {"publish", "deleteDraft"} /\ r.done /\ x \in r.ids) => x \in IdsAsked(Taking')
  BY MembersAre DEF Members
<1>3. \A x : (\E r \in Requests' : r.do = "publish" /\ x \in r.ids) => x \in IdsAsked(Of({"publish"})')
  BY IdsAskedIs DEF Of
<1>4. SavedAreComing'
  BY <1>1 DEF SavedAreComing
<1>5. DraftsAreLeaving'
  BY <1>2 DEF DraftsAreLeaving
<1>6. PublicAreLeaving'
  BY <1>3 DEF PublicAreLeaving
<1> QED
  BY <1>4, <1>5, <1>6 DEF DraftsFit

\* The drafts that a request took away leave the page when it is answered.
LEMMA DraftsCleared ==
    ASSUME NotesFit, DraftsFit, NEW q \in Requests, q.do \in {"publish", "deleteDraft"}, q.done,
           ClearPublished(q), astray' = IF q.failed THEN astray \cup q.ids ELSE astray,
           saved' = saved, Public' \subseteq Public,
           Requests \subseteq Requests' \cup {q}
    PROVE  DraftsFit' /\ draftComments' \subseteq draftComments
<1>1. \A x \in q.ids : x \notin IdsOf(saved)
  BY MembersAre DEF Members, NotesFit, TakenAreGone
<1>2. IF q.failed THEN draftComments' = draftComments
                  ELSE draftComments' = {n \in draftComments : n.id \notin q.ids}
  BY DEF ClearPublished, Retained
<1>3. /\ draftComments' \subseteq draftComments
      /\ \A x \in IdsOf(draftComments') : x \in IdsOf(draftComments) /\ (x \in q.ids => x \in astray')
      /\ \A x \in IdsOf(draftComments) : x \in IdsOf(draftComments') \/ x \in q.ids
  <2>1. CASE q.failed
    BY <1>2, <2>1
  <2>2. CASE ~q.failed
    BY <1>2, <2>2, IdsOfIs
  <2> QED
    BY <2>1, <2>2
<1>4. astray \subseteq astray'
  OBVIOUS
<1>5. ASSUME NEW x \in IdsOf(saved')
      PROVE  \/ x \in astray' \/ x \in IdsOf(draftComments')
             \/ \E r \in Requests' : r.do \in {"drafts", "save"} /\ x \in IdsOf(r.result)
  BY <1>1, <1>3, <1>4, <1>5, DraftsBy
<1>6. ASSUME NEW x \in IdsOf(draftComments')
      PROVE  \/ x \in IdsOf(saved') \/ x \in astray'
             \/ \E r \in Requests' : r.do \in {"publish", "deleteDraft"} /\ r.done /\ x \in r.ids
  BY <1>3, <1>4, <1>6, DraftsBy
<1>7. ASSUME NEW x \in IdsOf(draftComments') \cap Public'
      PROVE  x \in astray' \/ \E r \in Requests' : r.do = "publish" /\ x \in r.ids
  BY <1>3, <1>4, <1>7, DraftsBy
<1> QED
  BY <1>3, <1>5, <1>6, <1>7, DraftsFrom

LEMMA DraftsLoadedFits ==
    ASSUME CommentInv, NEW i \in DOMAIN asked, DraftsLoaded(i)
    PROVE  CommentInv'
<1> DEFINE q == asked[i]
<1>1. CommentShapes /\ NotesFit /\ DraftsFit /\ CommentsFit
  BY DEF CommentInv
<1>2. /\ names' = names /\ published' = published /\ saved' = saved /\ activities' = activities
      /\ attention' = attention /\ online' = online /\ comments' = comments /\ deleted' = deleted
      /\ revision' = revision /\ clouded' = clouded
      /\ draftComments' = draftComments \cup q.result
      /\ astray' = astray \cup {id \in IdsOf(q.result) : id \notin IdsOf(saved)}
      /\ q.do \in {"drafts", "save"} /\ Ended(i)
  BY DEF DraftsLoaded, server
<1>3. /\ asked' \in Seq(Asks) /\ SavesDiffer(asked')
      /\ Requests' \subseteq Requests /\ Requests \subseteq Requests' \cup {q}
      /\ q \in Asks /\ q \in Requests
  BY <1>1, <1>2, Ending
<1> HIDE DEF q
<1>4. q.result \subseteq Notes /\ IdsOf(q.result) \subseteq Ids
  <2>1. q.result \subseteq Notes
    BY <1>3 DEF Asks
  <2> QED
    BY <2>1, IdsOfIs DEF Notes
<1>5. CommentShapes'
  BY <1>1, <1>2, <1>3, <1>4 DEF CommentShapes
<1>6. NotesFit' /\ Public' \subseteq Public
  BY <1>1, <1>2, <1>3, DeletedIsGone, ResultsIs, NothingNew DEF Happened, Of
<1>7. DraftsFit'
  BY <1>1, <1>2, <1>3, <1>6, IdsOfIs, DraftsBy, DraftsFrom DEF NotesFit, DraftsAreOwn
<1>8. CommentsFit'
  BY <1>1, <1>2, <1>3 DEF LoadsAreCurrent, CommentsFit, Of, At, DeletedStaysGone
<1> QED
  BY <1>5, <1>6, <1>7, <1>8 DEF CommentInv

LEMMA DraftDeletedFits ==
    ASSUME CommentInv, NEW i \in DOMAIN asked, asked[i].done, DraftDeleted(i)
    PROVE  CommentInv'
<1> DEFINE q == asked[i]
<1>1. CommentShapes /\ NotesFit /\ DraftsFit /\ CommentsFit
  BY DEF CommentInv
<1>2. /\ names' = names /\ published' = published /\ saved' = saved /\ activities' = activities
      /\ attention' = attention /\ online' = online /\ comments' = comments /\ deleted' = deleted
      /\ revision' = revision /\ clouded' = clouded
      /\ astray' = IF q.failed THEN astray \cup q.ids ELSE astray
      /\ q.do = "deleteDraft" /\ Ended(i) /\ ClearPublished(q) /\ q.done
  BY DEF DraftDeleted, server
<1>3. /\ asked' \in Seq(Asks) /\ SavesDiffer(asked')
      /\ Requests' \subseteq Requests /\ Requests \subseteq Requests' \cup {q}
      /\ q \in Asks /\ q \in Requests
  BY <1>1, <1>2, Ending
<1> HIDE DEF q
<1>4. draftComments' \subseteq draftComments
  BY <1>2 DEF ClearPublished, Retained
<1>5. CommentShapes'
  BY <1>1, <1>2, <1>3, <1>4 DEF CommentShapes, Asks
<1>6. NotesFit' /\ Public' \subseteq Public
  BY <1>1, <1>2, <1>3, <1>4, DeletedIsGone, NothingNew DEF Happened
<1>7. DraftsFit'
  BY <1>1, <1>2, <1>3, <1>6, DraftsCleared
<1>8. CommentsFit'
  BY <1>1, <1>2, <1>3 DEF LoadsAreCurrent, CommentsFit, Of, At, DeletedStaysGone
<1> QED
  BY <1>5, <1>6, <1>7, <1>8 DEF CommentInv

LEMMA CommentsLoadedFits ==
    ASSUME CommentInv, NEW i \in DOMAIN asked, asked[i].done, CommentsLoaded(i)
    PROVE  CommentInv'
<1> DEFINE q == asked[i]
<1>1. CommentShapes /\ NotesFit /\ DraftsFit /\ CommentsFit
  BY DEF CommentInv
<1>2. /\ names' = names /\ published' = published /\ saved' = saved /\ activities' = activities
      /\ attention' = attention /\ online' = online /\ draftComments' = draftComments /\ deleted' = deleted
      /\ revision' = revision /\ clouded' = clouded /\ astray' = astray
      /\ q.do = "comments" /\ Ended(i) /\ comments' = Apply(q) /\ q.done
  BY DEF CommentsLoaded, server
<1>3. /\ asked' \in Seq(Asks) /\ SavesDiffer(asked')
      /\ Requests' \subseteq Requests /\ Requests \subseteq Requests' \cup {q}
      /\ q \in Asks /\ q \in Requests
  BY <1>1, <1>2, Ending
<1> HIDE DEF q
<1>4. IF q.revision # revision THEN comments' = Retained(comments, deleted)
      ELSE comments' = Retained((comments \ At(comments, q.path)) \cup q.result, deleted)
  BY <1>2 DEF Apply
<1>5. /\ comments' \subseteq comments \cup q.result
      /\ \A n \in comments' : n.id \notin deleted
  BY <1>4 DEF Retained
<1>6. CommentShapes'
  BY <1>1, <1>2, <1>3, <1>5 DEF CommentShapes, Asks
<1>7. NotesFit' /\ Public' \subseteq Public
  BY <1>1, <1>2, <1>3, <1>5, DeletedIsGone, ResultsIs, NothingNew DEF Happened, Of
<1>8. DraftsFit'
  BY <1>1, <1>2, <1>3, <1>7, DraftsStay
<1>9. DeletedStaysGone'
  BY <1>2, <1>5 DEF DeletedStaysGone, Retained
<1>10. LoadsAreCurrent'
  <2> SUFFICES ASSUME online, ~attention, ~clouded
               PROVE  /\ \A r \in Of({"comments"})' : r.done /\ r.revision = revision => r.result = At(published, r.path)
                      /\ \/ comments' = published
                         \/ \E r \in Of({"comments"})' : r.revision = revision /\ r.path = AllPaths
    BY <1>2 DEF LoadsAreCurrent, At
  <2>1. /\ \A r \in Of({"comments"}) : r.done /\ r.revision = revision => r.result = At(published, r.path)
        /\ comments = published \/ \E r \in Of({"comments"}) : r.revision = revision /\ r.path = AllPaths
    BY <1>1 DEF CommentsFit, LoadsAreCurrent
  <2>2. Of({"comments"})' \subseteq Of({"comments"}) /\ Of({"comments"}) \subseteq Of({"comments"})' \cup {q}
    BY <1>3 DEF Of
  <2>3. \A n \in published : n.id \notin deleted
    BY <1>1, DeletedIsGone, IdsOfIs DEF NotesFit, GoneIsGone
  <2>4. comments = {n \in comments : n.id \notin deleted}
    BY <1>1 DEF CommentsFit, DeletedStaysGone, Retained
  <2>5. CASE q.revision # revision
    BY <1>4, <2>1, <2>2, <2>4, <2>5 DEF Retained
  <2>6. CASE q.revision = revision
    <3>1. comments' = {n \in (comments \ At(comments, q.path)) \cup q.result : n.id \notin deleted}
      BY <1>4, <2>6 DEF Retained
    <3>2. q.result = At(published, q.path)
      BY <1>2, <1>3, <2>1, <2>6 DEF Of
    <3>3. CASE q.path = AllPaths
      BY <2>1, <2>2, <2>3, <3>1, <3>2, <3>3 DEF At
    <3>4. CASE q.path # AllPaths
      <4>1. CASE comments = published
        BY <2>1, <2>2, <2>3, <3>1, <3>2, <4>1 DEF At
      <4>2. CASE \E r \in Of({"comments"}) : r.revision = revision /\ r.path = AllPaths
        BY <2>1, <2>2, <3>4, <4>2
      <4> QED
        BY <2>1, <4>1, <4>2
    <3> QED
      BY <3>3, <3>4
  <2> QED
    BY <2>5, <2>6
<1>11. CommentsFit'
  BY <1>1, <1>2, <1>3, <1>9, <1>10 DEF CommentsFit
<1> QED
  BY <1>6, <1>7, <1>8, <1>11 DEF CommentInv

LEMMA PublishedDeletedFits ==
    ASSUME CommentInv, NEW i \in DOMAIN asked, asked[i].done, PublishedDeleted(i)
    PROVE  CommentInv'
<1> DEFINE q == asked[i]
<1>1. CommentShapes /\ NotesFit /\ DraftsFit /\ CommentsFit
  BY DEF CommentInv
<1>2. /\ names' = names /\ published' = published /\ saved' = saved /\ activities' = activities
      /\ attention' = attention /\ online' = online /\ draftComments' = draftComments /\ astray' = astray
      /\ q.do = "deletePublished" /\ Ended(i) /\ q.done
      /\ IF q.failed THEN comments' = comments /\ deleted' = deleted /\ revision' = revision /\ clouded' = clouded
         ELSE KnowDeleted(q.ids)
  BY DEF PublishedDeleted, server, page
<1>3. /\ asked' \in Seq(Asks) /\ SavesDiffer(asked')
      /\ Requests' \subseteq Requests /\ Requests \subseteq Requests' \cup {q}
      /\ q \in Asks /\ q \in Requests
  BY <1>1, <1>2, Ending
<1> HIDE DEF q
<1>4. Happened' = Happened
  BY <1>2 DEF Happened
<1>5. CASE q.failed
  BY <1>1, <1>2, <1>3, <1>4, <1>5, NothingNew, DeletedIsGone, DraftsStay DEF CommentShapes, LoadsAreCurrent,
     CommentsFit, Of, At, DeletedStaysGone, CommentInv
<1>6. CASE ~q.failed
  <2>1. q.ids \subseteq Gone
    BY <1>2, <1>3, <1>6, MembersAre DEF Members, InGone
  <2>2. KnowDeleted(q.ids)
    BY <1>2, <1>6
  <2>3. /\ comments' \subseteq comments /\ deleted' \subseteq Gone /\ deleted' \subseteq Ids
        /\ revision' = revision + 1 /\ DeletedStaysGone'
        /\ comments = published => comments' = published
        /\ clouded' = (clouded \/ CurrentLoads # {})
    BY <1>1, <2>1, <2>2, Knowing
  <2>4. revision \in Nat /\ revision + 1 \in Nat /\ revision < revision + 1
    BY <1>1 DEF CommentShapes
  <2>5. CommentShapes'
    BY <1>1, <1>2, <1>3, <2>3, <2>4 DEF CommentShapes
  <2>6. NotesFit' /\ Public' \subseteq Public
    BY <1>1, <1>2, <1>3, <1>4, <2>3, NothingNew
  <2>7. DraftsFit'
    BY <1>1, <1>2, <1>3, <2>6, DraftsStay
  <2>8. \A r \in Requests : r.revision \in Nat /\ r.revision <= revision /\ r.revision # revision + 1
    BY <1>1, <2>4, RequestsAreAsks DEF CommentsFit, Asks
  <2>9. LoadsAreCurrent'
    BY <1>1, <1>2, <1>3, <2>3, <2>8, NoCurrentLoads DEF LoadsAreCurrent, Of, CommentsFit
  <2>10. CommentsFit'
    BY <1>1, <1>2, <1>3, <2>3, <2>4, <2>8, <2>9 DEF CommentsFit
  <2> QED
    BY <2>5, <2>6, <2>7, <2>10 DEF CommentInv
<1> QED
  BY <1>5, <1>6

LEMMA DraftsPublishedFits ==
    ASSUME CommentInv, NEW i \in DOMAIN asked, asked[i].done, DraftsPublished(i)
    PROVE  CommentInv'
<1> DEFINE q == asked[i]
           left == RemoveAt(asked, i)
           r == [LoadComments(AllPaths) EXCEPT !.revision = revision + 1, !.follows = TRUE]
<1>1. CommentShapes /\ NotesFit /\ DraftsFit /\ CommentsFit
  BY DEF CommentInv
<1>2. /\ names' = names /\ published' = published /\ saved' = saved /\ activities' = activities
      /\ attention' = attention /\ online' = online /\ deleted' = deleted
      /\ astray' = IF q.failed THEN astray \cup q.ids ELSE astray
      /\ q.do = "publish" /\ q.done /\ ClearPublished(q)
      /\ IF q.failed
         THEN asked' = left /\ comments' = comments /\ revision' = revision /\ clouded' = clouded
         ELSE /\ clouded' = FALSE /\ revision' = revision + 1 /\ comments' = MergePublished(q.result)
              /\ asked' = Append(left, r)
  BY DEF DraftsPublished, Ended, server
<1>3. q \in Asks /\ q \in Requests /\ asked \in Seq(Asks) /\ SavesDiffer(asked)
  BY <1>1, ToSetIs DEF CommentShapes, Requests
<1>4. /\ left \in Seq(Asks) /\ SavesDiffer(left)
      /\ ToSet(left) \subseteq Requests /\ Requests \subseteq ToSet(left) \cup {q}
  BY <1>3, RemoveAsk DEF Requests
<1>5. revision \in Nat /\ revision + 1 \in Nat /\ revision < revision + 1
  BY <1>1 DEF CommentShapes
<1>6. /\ r \in Asks /\ r.do = "comments" /\ r.ids = {} /\ r.path = AllPaths /\ r.revision = revision + 1
      /\ r.done = FALSE /\ r.failed = FALSE /\ r.result = {}
  BY <1>5 DEF LoadComments, Request, Asks, Kinds
<1> HIDE DEF q, left, r
<1>7. /\ asked' \in Seq(Asks) /\ SavesDiffer(asked')
      /\ IF q.failed THEN Requests' = ToSet(left) ELSE Requests' = ToSet(left) \cup {r}
  <2>1. CASE q.failed
    BY <1>2, <1>4, <2>1 DEF Requests
  <2>2. CASE ~q.failed
    BY <1>2, <1>4, <1>6, <2>2, AppendAsk DEF Requests
  <2> QED
    BY <2>1, <2>2
<1>8. Requests' \subseteq Requests \cup {r} /\ Requests \subseteq Requests' \cup {q}
  BY <1>4, <1>7
<1>9. IF q.failed THEN comments' = comments
      ELSE /\ comments' \subseteq comments \cup q.result
           /\ DeletedStaysGone'
  <2>1. CASE ~q.failed
    BY <1>1, <1>2, <2>1 DEF MergePublished, CommentsFit, DeletedStaysGone, Retained
  <2> QED
    BY <1>2, <2>1
<1>10. draftComments' \subseteq draftComments
  BY <1>2 DEF ClearPublished, Retained
<1>11. CommentShapes'
  <2>1. astray' \subseteq Ids /\ comments' \subseteq Notes /\ revision' \in Nat /\ clouded' \in BOOLEAN
    BY <1>1, <1>2, <1>3, <1>5, <1>9 DEF Asks, CommentShapes
  <2> QED
    BY <1>1, <1>2, <1>7, <1>10, <2>1 DEF CommentShapes
<1>12. NotesFit' /\ Public' \subseteq Public
  BY <1>1, <1>2, <1>3, <1>6, <1>8, <1>9, <1>10, DeletedIsGone, ResultsIs, NothingNew DEF Happened, Of, Harmless
<1>13. DraftsFit'
  BY <1>1, <1>2, <1>3, <1>8, <1>12, DraftsCleared
<1>14. CommentsFit'
  <2>1. \A p \in Requests : p.revision \in Nat /\ p.revision <= revision /\ p.revision # revision + 1
    BY <1>1, <1>5, RequestsAreAsks DEF CommentsFit, Asks
  <2>2. CASE q.failed
    BY <1>1, <1>2, <1>4, <1>7, <1>8, <2>2 DEF LoadsAreCurrent, CommentsFit, Of, At, DeletedStaysGone
  <2>3. CASE ~q.failed
    BY <1>1, <1>2, <1>5, <1>6, <1>7, <1>8, <1>9, <2>1, <2>3 DEF LoadsAreCurrent, Of, CommentsFit
  <2> QED
    BY <2>2, <2>3
<1> QED
  BY <1>11, <1>12, <1>13, <1>14 DEF CommentInv

LEMMA RequestLostFits ==
    ASSUME CommentInv, NEW i \in DOMAIN asked, RequestLost(i)
    PROVE  CommentInv'
<1> DEFINE q == asked[i]
<1>1. CommentShapes /\ NotesFit /\ DraftsFit /\ CommentsFit
  BY DEF CommentInv
<1>2. /\ names' = names /\ published' = published /\ saved' = saved /\ activities' = activities
      /\ attention' = attention /\ online' = online /\ comments' = comments /\ deleted' = deleted
      /\ draftComments' = draftComments /\ revision' = revision /\ clouded' = TRUE
      /\ astray' = astray \cup q.ids \cup (IF q.do = "drafts" THEN Ids ELSE {}) /\ Ended(i)
  BY DEF RequestLost, server, page
<1>3. /\ asked' \in Seq(Asks) /\ SavesDiffer(asked')
      /\ Requests' \subseteq Requests /\ Requests \subseteq Requests' \cup {q}
      /\ q \in Asks /\ q \in Requests
  BY <1>1, <1>2, Ending
<1> HIDE DEF q
<1>4. CommentShapes'
  BY <1>1, <1>2, <1>3 DEF CommentShapes, Asks
<1>5. NotesFit' /\ Public' \subseteq Public
  BY <1>1, <1>2, <1>3, DeletedIsGone, NothingNew DEF Happened
<1>6. DraftsFit'
  BY <1>1, <1>2, <1>3, <1>5, IdsOfIs, DraftsBy, DraftsFrom DEF NotesFit, SavesAnswer, Of, CommentShapes, Notes
<1>7. CommentsFit'
  BY <1>1, <1>2, <1>3 DEF CommentsFit, DeletedStaysGone, LoadsAreCurrent
<1> QED
  BY <1>4, <1>5, <1>6, <1>7 DEF CommentInv

LEMMA AnsweredFits ==
    ASSUME CommentInv, NEW i \in DOMAIN asked, Answered(i) \/ RequestLost(i)
    PROVE  CommentInv'
  BY CommentsLoadedFits, DraftsLoadedFits, DraftDeletedFits, PublishedDeletedFits, DraftsPublishedFits,
     RequestLostFits DEF Answered

-----------------------------------------------------------------------------
(* The server *)

\* Where notes can come to be when they are written, moved or taken away: N are those that
\* come to be anywhere, M those that come to be published.
LEMMA Moving ==
    ASSUME comments' = comments, draftComments' = draftComments, deleted' = deleted,
           NEW N, NEW M, M \subseteq N,
           published' \subseteq published \cup M, saved' \subseteq saved \cup N,
           \A e \in Happened' : e \in Happened \/ e.id \in IdsOf(published \cup M),
           \A r \in Requests' : \E q \in Requests :
               /\ r.do = q.do /\ r.ids = q.ids /\ r.path = q.path
               /\ \A n \in r.result :
                     \/ n \in q.result \/ n \in published
                     \/ n \in IF r.do \in {"comments", "publish"} THEN M ELSE N
    PROVE  /\ Known' \subseteq Known \cup N
           /\ Used' \subseteq Used \cup IdsOf(N)
           /\ Public' \subseteq Public \cup IdsOf(M)
<1>1. Members /\ Members'
  BY MembersAre
<1>2. \A S, x : x \in IdsOf(S) <=> \E n \in S : n.id = x
  BY IdsOfIs
<1>3. Known' \subseteq Known \cup N
  BY <1>1 DEF Members, InKnown
<1>4. Used' \subseteq Used \cup IdsOf(N)
  BY <1>1, <1>2 DEF Members, InUsed
<1>5. Public' \subseteq Public \cup IdsOf(M)
  BY <1>1, <1>2 DEF Members, InPublic
<1> QED
  BY <1>3, <1>4, <1>5

LEMMA MovingAll ==
    ASSUME comments' = comments, draftComments' = draftComments, deleted' = deleted, NEW N,
           published' \subseteq published \cup N, saved' \subseteq saved \cup N,
           \A e \in Happened' : e \in Happened \/ e.id \in IdsOf(published \cup N),
           \A r \in Requests' : \E q \in Requests :
               /\ r.do = q.do /\ r.ids = q.ids /\ r.path = q.path
               /\ \A n \in r.result : n \in q.result \/ n \in published \/ n \in N
    PROVE  Known' \subseteq Known \cup N /\ Used' \subseteq Used \cup IdsOf(N) /\ Public' \subseteq Public \cup IdsOf(N)
  BY Moving

\* The names of what is known are given.
LEMMA KnownAreNamed ==
    ASSUME NotesFit
    PROVE  /\ IdsOf(Known) \subseteq 1..names /\ Used \subseteq 1..names
           /\ \A r \in Requests : r.do \in Kinds => r.ids \subseteq 1..names
<1>1. Used \subseteq 1..names /\ IdsAsked(Of({"save"})) \subseteq 1..names
  BY DEF NotesFit, UsedAreNamed
<1>2. \A x \in IdsOf(Known) : x \in Used \/ x \in IdsAsked(Of({"save"}))
  BY MembersAre, IdsOfIs, IdsAskedIs DEF Members, InKnown, InUsed, Of
<1>3. ASSUME NEW r \in Requests, r.do \in Kinds PROVE r.ids \subseteq 1..names
  <2>1. CASE r.do = "save"
    BY <1>1, <2>1, IdsAskedIs DEF Of
  <2>2. CASE r.do # "save"
    BY <1>1, <1>3, <2>2, MembersAre DEF InUsed, Members
  <2> QED
    BY <2>1, <2>2
<1> QED
  BY <1>1, <1>2, <1>3

LEMMA AgentWritesFits ==
    ASSUME CommentInv, NEW id \in Ids, NEW path \in Documents, AgentWrites(id, path)
    PROVE  CommentInv'
<1> DEFINE note == Note(id, path)
<1>1. CommentShapes /\ NotesFit /\ DraftsFit /\ CommentsFit
  BY DEF CommentInv
<1>2. /\ id = names + 1 /\ names' = id /\ published' = published \cup {note} /\ saved' = saved /\ asked' = asked
      /\ online' = online /\ comments' = comments /\ deleted' = deleted
      /\ draftComments' = draftComments /\ revision' = revision /\ clouded' = clouded /\ astray' = astray
      /\ Tell("comment_added", note)
  BY DEF AgentWrites, Name, page
<1>3. note \in Notes /\ note.id = id
  BY DEF Note, Notes
<1> HIDE DEF note
<1>4. /\ activities' \in Seq(Happenings) /\ attention' \in BOOLEAN
      /\ \A e \in Happened' : e \in Happened \/ (e.id = id /\ e.type = "comment_added")
      /\ IF online THEN attention' ELSE UNCHANGED <<activities, attention>>
  <2>1. "comment_added" \in Types
    BY DEF Types
  <2>2. /\ activities' \in Seq(Happenings) /\ attention' \in BOOLEAN
        /\ \A e \in Happened' : e \in Happened \/ (e.id = note.id /\ e.type = "comment_added")
        /\ IF online THEN attention' ELSE UNCHANGED <<activities, attention>>
    BY <1>1, <1>2, <1>3, <2>1, Telling, Zenon
  <2> QED
    BY <1>3, <2>2
<1>5. Requests' = Requests
  BY <1>2 DEF Requests
<1>6. names \in Nat /\ names' \in Nat /\ names' <= MaxId /\ id \notin 1..names /\ 1..names' = 1..names \cup {id}
  BY <1>1, <1>2, CommentsAssumption DEF CommentShapes, Ids
<1>7. CommentShapes'
  BY <1>1, <1>2, <1>3, <1>4, <1>6 DEF CommentShapes
<1>8. /\ Known' \subseteq Known \cup {note} /\ Used' \subseteq Used \cup {id} /\ Public' \subseteq Public \cup {id}
  <2>1. \A r \in Requests' : r \in Requests
    BY <1>5
  <2>2. IdsOf({note}) = {id} /\ id \in IdsOf(published \cup {note})
    BY <1>3, IdsOfIs
  <2>3. \A e \in Happened' : e \in Happened \/ e.id \in IdsOf(published \cup {note})
    BY <1>4, <2>2
  <2>4. /\ Known' \subseteq Known \cup {note}
        /\ Used' \subseteq Used \cup IdsOf({note})
        /\ Public' \subseteq Public \cup IdsOf({note})
    BY <1>2, <2>1, <2>3, Moving
  <2> QED
    BY <2>2, <2>4
<1>9. id \notin IdsOf(Known) /\ id \notin Used /\ \A r \in Requests : r.do \in Kinds => id \notin r.ids
  BY <1>1, <1>6, KnownAreNamed
<1>10. Gone' \subseteq Gone
  BY <1>2, <1>4, <1>5, MembersAre DEF Members, InGone
<1>11. NotesFit'
  <2>1. OnePath'
    BY <1>1, <1>3, <1>8, <1>9, IdsOfIs DEF NotesFit, OnePath
  <2>2. Of({"save"})' = Of({"save"})
    BY <1>5 DEF Of
  <2>3. UsedAreNamed'
    BY <1>1, <1>6, <1>8, <2>2 DEF NotesFit, UsedAreNamed
  <2>4. SavesAreNew' /\ SavesAnswer'
    BY <1>1, <1>8, <1>9, <2>2 DEF NotesFit, SavesAreNew, SavesAnswer, Of, Kinds
  <2>5. \A x \in IdsOf(saved) : x \in Used
    BY UsedHas, IdsOfIs
  <2>6. DraftsAreOwn'
    BY <1>1, <1>2, <1>8, <1>9, <2>5 DEF NotesFit, DraftsAreOwn
  <2>7. GoneIsGone'
    BY <1>1, <1>2, <1>3, <1>9, <1>10, IdsOfIs, PublicIsUsed DEF NotesFit, GoneIsGone
  <2>8. TakenAreGone'
    BY <1>1, <1>2, <1>5 DEF NotesFit, TakenAreGone, Taking, Of
  <2> QED
    BY <2>1, <2>3, <2>4, <2>6, <2>7, <2>8 DEF NotesFit
<1>12. DraftsFit'
  BY <1>1, <1>2, <1>5, <1>8, <1>9, UsedHas, IdsOfIs, DraftsBy, DraftsFrom
<1>13. CommentsFit'
  BY <1>1, <1>2, <1>4, <1>5 DEF LoadsAreCurrent, CommentsFit, DeletedStaysGone
<1> QED
  BY <1>7, <1>11, <1>12, <1>13 DEF CommentInv

LEMMA OtherDeletesFits ==
    ASSUME CommentInv, NEW note \in published, OtherDeletes(note)
    PROVE  CommentInv'
<1>1. CommentShapes /\ NotesFit /\ DraftsFit /\ CommentsFit
  BY DEF CommentInv
<1>2. /\ names' = names /\ published' = published \ {note} /\ saved' = saved /\ asked' = asked
      /\ online' = online /\ comments' = comments /\ deleted' = deleted
      /\ draftComments' = draftComments /\ revision' = revision /\ clouded' = clouded /\ astray' = astray
      /\ Tell("comment_deleted", note)
  BY DEF OtherDeletes, page
<1>3. note \in Notes
  BY <1>1 DEF CommentShapes
<1>4. /\ activities' \in Seq(Happenings) /\ attention' \in BOOLEAN
      /\ \A e \in Happened' : e \in Happened \/ (e.id = note.id /\ e.type = "comment_deleted")
      /\ IF online THEN attention' ELSE UNCHANGED <<activities, attention>>
  <2>1. "comment_deleted" \in Types
    BY DEF Types
  <2> QED
    BY <1>1, <1>2, <1>3, <2>1, Telling, Zenon
<1>5. Requests' = Requests
  BY <1>2 DEF Requests
<1>6. CommentShapes'
  BY <1>1, <1>2, <1>4 DEF CommentShapes
<1>7. Known' \subseteq Known /\ Used' \subseteq Used /\ Public' \subseteq Public
  <2>1. \A r \in Requests' : r \in Requests
    BY <1>5
  <2>2. \A e \in Happened' : e \in Happened \/ e.id \in IdsOf(published \cup {})
    BY <1>4, IdsOfIs
  <2>3. IdsOf({}) = {}
    BY IdsOfIs
  <2>4. published' \subseteq published \cup {} /\ saved' \subseteq saved \cup {}
    BY <1>2
  <2>5. /\ Known' \subseteq Known \cup {}
        /\ Used' \subseteq Used \cup IdsOf({})
        /\ Public' \subseteq Public \cup IdsOf({})
    BY <1>2, <2>1, <2>2, <2>4, Moving
  <2> QED
    BY <2>3, <2>5
<1>8. Gone' \subseteq Gone \cup {note.id}
  BY <1>2, <1>4, <1>5, MembersAre DEF Members, InGone
<1>9. NotesFit'
  <2>1. OnePath'
    BY <1>1, <1>7 DEF NotesFit, OnePath
  <2>2. Of({"save"})' = Of({"save"})
    BY <1>5 DEF Of
  <2>3. UsedAreNamed' /\ SavesAreNew' /\ SavesAnswer'
    BY <1>1, <1>2, <1>7, <2>2 DEF NotesFit, UsedAreNamed, SavesAreNew, SavesAnswer
  <2>4. DraftsAreOwn'
    BY <1>1, <1>2, <1>7 DEF NotesFit, DraftsAreOwn
  <2>5. GoneIsGone'
    BY <1>1, <1>2, <1>8, IdsOfIs DEF Known, NotesFit, OnePath, GoneIsGone
  <2>6. TakenAreGone'
    BY <1>1, <1>2, <1>5 DEF NotesFit, TakenAreGone, Taking, Of
  <2> QED
    BY <2>1, <2>3, <2>4, <2>5, <2>6 DEF NotesFit
<1>10. DraftsFit'
  BY <1>1, <1>2, <1>5, <1>7, DraftsStay
<1>11. CommentsFit'
  BY <1>1, <1>2, <1>4, <1>5 DEF LoadsAreCurrent, CommentsFit, DeletedStaysGone
<1> QED
  BY <1>6, <1>9, <1>10, <1>11 DEF CommentInv

LEMMA CreateCommentFits ==
    ASSUME CommentInv, NEW id \in Ids, NEW path \in Documents, CreateComment(id, path)
    PROVE  CommentInv'
<1> DEFINE r == Request("save", {id}, path)
           note == Note(id, path)
<1>1. CommentShapes /\ NotesFit /\ DraftsFit /\ CommentsFit
  BY DEF CommentInv
<1>2. /\ id = names + 1 /\ names' = id /\ published' = published /\ saved' = saved /\ activities' = activities
      /\ attention' = attention /\ online' = online /\ comments' = comments /\ deleted' = deleted
      /\ draftComments' = draftComments /\ revision' = revision /\ clouded' = clouded /\ astray' = astray
      /\ asked' = Append(asked, r)
  BY DEF CreateComment, Name, Ask, page
<1>3. /\ r \in Asks /\ r.do = "save" /\ r.ids = {id} /\ r.path = path /\ r.revision = revision
      /\ r.done = FALSE /\ r.failed = FALSE /\ r.result = {}
  BY <1>1 DEF CommentShapes, Request, Asks, Kinds
<1>4. note \in Notes /\ note.id = id /\ note.path = path
  BY DEF Note, Notes
<1> HIDE DEF r, note
<1>5. names \in Nat /\ names' \in Nat /\ names' <= MaxId /\ id \notin 1..names /\ 1..names' = 1..names \cup {id}
  BY <1>1, <1>2, CommentsAssumption DEF CommentShapes, Ids
<1>6. id \notin IdsOf(Known) /\ id \notin Used /\ \A q \in Requests : q.do \in Kinds => id \notin q.ids
  BY <1>1, <1>5, KnownAreNamed
<1>7. asked' \in Seq(Asks) /\ SavesDiffer(asked') /\ Requests' = Requests \cup {r}
  <2>1. asked \in Seq(Asks) /\ SavesDiffer(asked)
    BY <1>1 DEF CommentShapes
  <2>2. \A j \in DOMAIN asked : asked[j].do = "save" => asked[j].ids \cap r.ids = {}
    BY <1>3, <1>6, ToSetIs DEF Requests, Kinds
  <2>3. /\ Append(asked, r) \in Seq(Asks) /\ SavesDiffer(Append(asked, r))
        /\ ToSet(Append(asked, r)) = ToSet(asked) \cup {r}
    BY <1>3, <2>1, <2>2, AppendAsk
  <2> QED
    BY <1>2, <2>3 DEF Requests
<1>8. CommentShapes'
  BY <1>1, <1>2, <1>5, <1>7 DEF CommentShapes
<1>9. Happened' = Happened
  BY <1>2 DEF Happened
<1>10. Known' \subseteq Known \cup {note}
  BY <1>2, <1>3, <1>4, <1>7, MembersAre DEF Members, InKnown, Notes
<1>11. Used' \subseteq Used /\ Public' \subseteq Public /\ Gone' \subseteq Gone
  BY <1>2, <1>3, <1>7, <1>9, MembersAre DEF InUsed, InPublic, InGone, Members
<1>12. NotesFit'
  <2>1. OnePath'
    BY <1>1, <1>4, <1>6, <1>10, IdsOfIs DEF NotesFit, OnePath
  <2>2. Of({"save"})' = Of({"save"}) \cup {r}
    BY <1>3, <1>7 DEF Of
  <2>3. UsedAreNamed'
    BY <1>1, <1>3, <1>5, <1>11, <2>2, IdsAskedIs DEF NotesFit, UsedAreNamed
  <2>4. SavesAreNew'
    BY <1>1, <1>3, <1>6, <1>11, <2>2 DEF NotesFit, SavesAreNew
  <2>5. SavesAnswer'
    BY <1>1, <1>3, <2>2, IdsOfIs DEF NotesFit, SavesAnswer
  <2>6. DraftsAreOwn' /\ GoneIsGone'
    BY <1>1, <1>2, <1>11 DEF NotesFit, DraftsAreOwn, GoneIsGone
  <2>7. TakenAreGone'
    BY <1>1, <1>2, <1>3, <1>7 DEF NotesFit, TakenAreGone, Taking, Of
  <2> QED
    BY <2>1, <2>3, <2>4, <2>5, <2>6, <2>7 DEF NotesFit
<1>13. DraftsFit'
  BY <1>1, <1>2, <1>7, <1>11, DraftsStay
<1>14. CommentsFit'
  BY <1>1, <1>2, <1>3, <1>7 DEF LoadsAreCurrent, CommentsFit, Of, At, CommentShapes, DeletedStaysGone
<1> QED
  BY <1>8, <1>12, <1>13, <1>14 DEF CommentInv

\* What is answered takes the place of what was asked.
IsAnswer(u, q) ==
    u \in Asks /\ u.do = q.do /\ u.ids = q.ids /\ u.path = q.path /\ u.revision = q.revision /\ u.done = TRUE

TakesThePlace(u, q) ==
    /\ asked' \in Seq(Asks) /\ SavesDiffer(asked')
    /\ q \in Requests /\ q \in Asks /\ u \in Requests' /\ IsAnswer(u, q)
    /\ Requests' \subseteq Requests \cup {u} /\ Requests \subseteq Requests' \cup {q}
    /\ \A r \in Requests' : r.do = "save" /\ ~r.done =>
          r \in Requests /\ (q.do = "save" => r.ids \cap q.ids = {})

LEMMA Answering ==
    ASSUME CommentShapes, NEW i \in DOMAIN asked, NEW u, IsAnswer(u, asked[i]),
           asked' = [asked EXCEPT ![i] = u]
    PROVE  TakesThePlace(u, asked[i])
<1> DEFINE q == asked[i]
<1>1. asked \in Seq(Asks) /\ SavesDiffer(asked) /\ q \in Asks /\ q \in Requests
  BY ToSetIs DEF CommentShapes, Requests
<1>2. u \in Asks /\ u.do = q.do /\ u.ids = q.ids /\ u.done = TRUE
  BY DEF IsAnswer
<1>3. LET t == [asked EXCEPT ![i] = u]
      IN  /\ t \in Seq(Asks) /\ SavesDiffer(t) /\ u \in ToSet(t)
          /\ ToSet(t) \subseteq ToSet(asked) \cup {u} /\ ToSet(asked) \subseteq ToSet(t) \cup {asked[i]}
  BY <1>1, <1>2, AnswerAsk
<1>4. /\ asked' \in Seq(Asks) /\ SavesDiffer(asked') /\ u \in Requests'
      /\ Requests' \subseteq Requests \cup {u} /\ Requests \subseteq Requests' \cup {q}
  BY <1>3 DEF Requests
<1>5. ASSUME NEW r \in Requests', r.do = "save", ~r.done
      PROVE  r \in Requests /\ (q.do = "save" => r.ids \cap q.ids = {})
  BY <1>1, <1>2, <1>5, ToSetIs DEF Requests, SavesDiffer
<1> QED
  BY <1>1, <1>4, <1>5 DEF TakesThePlace

LEMMA Accepting ==
    ASSUME CommentShapes, NEW i \in DOMAIN asked, NEW answer \in SUBSET Notes,
           asked' = [asked EXCEPT ![i].done = TRUE, ![i].result = answer]
    PROVE  \E u : TakesThePlace(u, asked[i]) /\ u.result = answer
<1> DEFINE u == [asked[i] EXCEPT !.done = TRUE, !.result = answer]
<1>1. asked \in Seq(Asks) /\ asked[i] \in Asks
  BY DEF CommentShapes
<1>2. IsAnswer(u, asked[i]) /\ u.result = answer
  BY <1>1 DEF IsAnswer, Asks
<1>3. asked' = [asked EXCEPT ![i] = u]
  BY <1>1
<1> HIDE DEF u
<1> QED
  BY <1>2, <1>3, Answering

LEMMA Refusing ==
    ASSUME CommentShapes, NEW i \in DOMAIN asked,
           asked' = [asked EXCEPT ![i].done = TRUE, ![i].failed = TRUE]
    PROVE  \E u : TakesThePlace(u, asked[i]) /\ u.result = asked[i].result /\ u.failed = TRUE
<1> DEFINE u == [asked[i] EXCEPT !.done = TRUE, !.failed = TRUE]
<1>1. asked \in Seq(Asks) /\ asked[i] \in Asks
  BY DEF CommentShapes
<1>2. IsAnswer(u, asked[i]) /\ u.result = asked[i].result /\ u.failed = TRUE
  BY <1>1 DEF IsAnswer, Asks
<1>3. asked' = [asked EXCEPT ![i] = u]
  BY <1>1
<1> HIDE DEF u
<1> QED
  BY <1>2, <1>3, Answering

\* An answer that is only read from the server.
LEMMA ServeReadFits ==
    ASSUME CommentInv, NEW i \in DOMAIN asked, ~asked[i].done,
           \/ /\ asked[i].do = "comments"
              /\ asked' = [asked EXCEPT ![i].done = TRUE, ![i].result = At(published, asked[i].path)]
           \/ /\ asked[i].do = "drafts"
              /\ asked' = [asked EXCEPT ![i].done = TRUE, ![i].result = saved],
           UNCHANGED <<server, online, spare, page, clouded, astray>>
    PROVE  CommentInv'
<1> DEFINE q == asked[i]
           answer == IF q.do = "comments" THEN At(published, q.path) ELSE saved
<1>1. CommentShapes /\ NotesFit /\ DraftsFit /\ CommentsFit
  BY DEF CommentInv
<1>2. /\ names' = names /\ published' = published /\ saved' = saved /\ activities' = activities
      /\ attention' = attention /\ online' = online /\ comments' = comments /\ deleted' = deleted
      /\ draftComments' = draftComments /\ revision' = revision /\ clouded' = clouded /\ astray' = astray
      /\ q.do \in {"comments", "drafts"}
      /\ asked' = [asked EXCEPT ![i].done = TRUE, ![i].result = answer]
  BY DEF server, page
<1>3. answer \in SUBSET Notes
  BY <1>1 DEF CommentShapes, At
<1> HIDE DEF answer
<1>3a. PICK u : TakesThePlace(u, q) /\ u.result = answer
  BY <1>1, <1>2, <1>3, Accepting
<1>4. /\ u \in Asks /\ u.do = q.do /\ u.ids = q.ids /\ u.path = q.path
      /\ u.revision = q.revision /\ u.done = TRUE /\ u.result = answer /\ u \in Requests'
      /\ asked' \in Seq(Asks) /\ SavesDiffer(asked')
      /\ Requests' \subseteq Requests \cup {u} /\ Requests \subseteq Requests' \cup {q}
      /\ q \in Requests /\ q \in Asks
  BY <1>3a DEF TakesThePlace, IsAnswer
<1> HIDE DEF q
<1>5. CommentShapes'
  BY <1>1, <1>2, <1>4 DEF CommentShapes
<1>6. Harmless(u)
  <2>1. q.ids \subseteq Used
    BY <1>2, <1>4, MembersAre DEF InUsed, Kinds, Members
  <2>2. q.do = "comments" => answer \subseteq published
    BY DEF answer, At
  <2>3. q.do = "drafts" => answer = saved
    BY DEF answer
  <2> QED
    BY <1>2, <1>4, <2>1, <2>2, <2>3 DEF Harmless
<1>7. NotesFit' /\ Public' \subseteq Public
  BY <1>1, <1>2, <1>4, <1>6, DeletedIsGone, NothingNew DEF Happened
<1>8. DraftsFit'
  <2>1. CASE q.do = "comments"
    BY <1>1, <1>2, <1>4, <1>7, <2>1, DraftsStay
  <2>2. CASE q.do = "drafts"
    BY <1>1, <1>2, <1>4, <1>7, <2>2, DraftsBy, DraftsFrom DEF answer
  <2> QED
    BY <1>2, <2>1, <2>2
<1>9. CommentsFit'
  <2> SUFFICES LoadsAreCurrent'
    BY <1>1, <1>2, <1>4 DEF CommentsFit, DeletedStaysGone
  <2> SUFFICES ASSUME online, ~attention, ~clouded
               PROVE  /\ \A r \in Of({"comments"})' : r.done /\ r.revision = revision => r.result = At(published, r.path)
                      /\ \/ comments = published
                         \/ \E r \in Of({"comments"})' : r.revision = revision /\ r.path = AllPaths
    BY <1>2 DEF LoadsAreCurrent, At
  <2>1. /\ \A r \in Of({"comments"}) : r.done /\ r.revision = revision => r.result = At(published, r.path)
        /\ comments = published \/ \E r \in Of({"comments"}) : r.revision = revision /\ r.path = AllPaths
    BY <1>1 DEF CommentsFit, LoadsAreCurrent
  <2>2. u.do = "comments" => u.result = At(published, u.path)
    BY <1>4 DEF answer
  <2>3. \A r \in Of({"comments"})' : r \in Of({"comments"}) \/ (r = u /\ u.do = "comments")
    BY <1>4 DEF Of
  <2>4. \A r \in Of({"comments"}) : r \in Of({"comments"})' \/ (r = q /\ u \in Of({"comments"})')
    BY <1>4 DEF Of
  <2> QED
    BY <1>4, <2>1, <2>2, <2>3, <2>4
<1> QED
  BY <1>5, <1>7, <1>8, <1>9 DEF CommentInv

\* Drafts are deleted or published.
LEMMA DraftsTaken ==
    ASSUME NotesFit, DraftsFit, NEW q \in Requests, q.do \in {"publish", "deleteDraft"}, ~q.done,
           NEW u \in Requests', u.do = q.do, u.ids = q.ids, u.done, Requests \subseteq Requests' \cup {q},
           saved' = {n \in saved : n.id \notin q.ids}, draftComments' = draftComments, astray' = astray,
           \A x \in Public' : x \in Public \/ (q.do = "publish" /\ x \in q.ids)
    PROVE  DraftsFit'
  BY IdsOfIs, DraftsBy, DraftsFrom

LEMMA ServeSaveFits ==
    ASSUME CommentInv, NEW i \in DOMAIN asked, ~asked[i].done, asked[i].do = "save",
           NEW new, NEW answer,
           \A n : n \in new <=> \E id \in asked[i].ids : n = Note(id, asked[i].path),
           saved' = saved \cup new, answer = saved' \ saved,
           asked' = [asked EXCEPT ![i].done = TRUE, ![i].result = answer],
           UNCHANGED <<names, published, activities, attention, online, spare, page, clouded, astray>>
    PROVE  CommentInv'
<1> DEFINE q == asked[i]
<1>1. CommentShapes /\ NotesFit /\ DraftsFit /\ CommentsFit
  BY DEF CommentInv
<1>2. /\ names' = names /\ published' = published /\ saved' = saved \cup new /\ activities' = activities
      /\ attention' = attention /\ online' = online /\ comments' = comments /\ deleted' = deleted
      /\ draftComments' = draftComments /\ revision' = revision /\ clouded' = clouded /\ astray' = astray
      /\ q.do = "save" /\ ~q.done
  BY DEF page
<1>3. q \in Asks /\ q \in Requests
  BY <1>1, RequestsAreAsks, ToSetIs DEF Requests
<1>4. /\ new \subseteq Notes /\ \A n \in new : n.id \in q.ids /\ n.path = q.path
      /\ \A id \in q.ids : \E n \in new : n.id = id
      /\ answer \subseteq new
  <2>1. q.path \in Documents /\ q.ids \subseteq Ids
    BY <1>1, <1>2, <1>3 DEF NotesFit, SavesAnswer, Of, Asks
  <2>2. \A id \in q.ids : Note(id, q.path) \in Notes /\ Note(id, q.path).id = id /\ Note(id, q.path).path = q.path
    BY <2>1 DEF Note, Notes
  <2> DEFINE note(id) == Note(id, q.path)
  <2>3. \A n : n \in new <=> \E id \in q.ids : n = note(id)
    OBVIOUS
  <2>4. \A id \in q.ids : note(id) \in Notes /\ note(id).id = id /\ note(id).path = q.path
    BY <2>2
  <2> HIDE DEF q, note
  <2>5. answer \subseteq new
    BY <1>2
  <2>6. new \subseteq Notes /\ \A n \in new : n.id \in q.ids /\ n.path = q.path
    BY <2>3, <2>4
  <2>7. \A id \in q.ids : \E n \in new : n.id = id
    BY <2>3, <2>4
  <2> QED
    BY <2>5, <2>6, <2>7
<1>5. PICK u : TakesThePlace(u, q) /\ u.result = answer
  <2>1. answer \in SUBSET Notes
    BY <1>4
  <2> QED
    BY <1>1, <2>1, Accepting
<1> HIDE DEF q
<1>6. /\ u \in Asks /\ u.do = "save" /\ u.ids = q.ids /\ u.path = q.path
      /\ u.revision = q.revision /\ u.done = TRUE /\ u.result = answer /\ u \in Requests'
      /\ asked' \in Seq(Asks) /\ SavesDiffer(asked')
      /\ Requests' \subseteq Requests \cup {u} /\ Requests \subseteq Requests' \cup {q}
      /\ \A r \in Requests' : r.do = "save" /\ ~r.done => r \in Requests /\ r.ids \cap q.ids = {}
  BY <1>2, <1>5 DEF TakesThePlace, IsAnswer
<1>7. q.ids \cap Used = {}
  BY <1>1, <1>2, <1>3 DEF NotesFit, SavesAreNew, Of
<1>8. CommentShapes'
  BY <1>1, <1>2, <1>4, <1>6 DEF CommentShapes
<1>9. Happened' = Happened
  BY <1>2 DEF Happened
<1>10. /\ Known' \subseteq Known \cup new /\ Used' \subseteq Used \cup q.ids /\ Public' \subseteq Public
  <2>1. \A r \in Requests' : \E p \in Requests :
               /\ r.do = p.do /\ r.ids = p.ids /\ r.path = p.path
               /\ \A n \in r.result :
                     \/ n \in p.result \/ n \in published
                     \/ n \in IF r.do \in {"comments", "publish"} THEN {} ELSE new
    BY <1>2, <1>3, <1>4, <1>6
  <2>2. \A x \in IdsOf(new) : x \in q.ids
    BY <1>4, IdsOfIs
  <2>3. IdsOf({}) = {}
    BY IdsOfIs
  <2>4. published' \subseteq published \cup {} /\ saved' \subseteq saved \cup new
        /\ \A e \in Happened' : e \in Happened \/ e.id \in IdsOf(published \cup {})
    BY <1>2, <1>9
  <2>5. /\ Known' \subseteq Known \cup new
        /\ Used' \subseteq Used \cup IdsOf(new)
        /\ Public' \subseteq Public \cup IdsOf({})
    BY <1>2, <2>1, <2>4, Moving
  <2> QED
    BY <2>2, <2>3, <2>5
<1>11. new \subseteq Known
  BY <1>2, <1>3, <1>4, MembersAre DEF Members, InKnown
<1>12. Gone' \subseteq Gone
  BY <1>2, <1>6, <1>9, MembersAre DEF Members, InGone
<1>13. \A x \in IdsOf(saved') : x \in IdsOf(saved) \/ x \in q.ids
  BY <1>2, <1>4, IdsOfIs
<1>14. NotesFit'
  <2>1. OnePath'
    BY <1>1, <1>10, <1>11 DEF NotesFit, OnePath
  <2>2. \A r \in Of({"save"})' : r \in Of({"save"}) \/ r = u
    BY <1>6 DEF Of
  <2>3. UsedAreNamed'
    BY <1>1, <1>2, <1>3, <1>6, <1>10, <2>2, KnownAreNamed, IdsAskedIs DEF Kinds, NotesFit, UsedAreNamed
  <2>4. SavesAreNew'
    BY <1>1, <1>6, <1>10 DEF Of, NotesFit, SavesAreNew
  <2>5. SavesAnswer'
    BY <1>1, <1>2, <1>3, <1>4, <1>6, <2>2, IdsOfIs DEF NotesFit, SavesAnswer, Of
  <2>6. DraftsAreOwn'
    BY <1>1, <1>7, <1>10, <1>13, PublicIsUsed DEF NotesFit, DraftsAreOwn
  <2>7. GoneIsGone'
    BY <1>1, <1>2, <1>12 DEF NotesFit, GoneIsGone
  <2>8. TakenAreGone'
    <3>1. \A x \in IdsAsked(Taking') : x \in IdsAsked(Taking)
      BY <1>6, MembersAre DEF Members
    <3>2. \A x \in IdsAsked(Taking) : InUsed(x)
      BY MembersAre DEF Members, InUsed, Kinds
    <3>3. \A x \in IdsAsked(Taking) : x \in Used
      BY <3>2, MembersAre DEF Members
    <3> QED
      BY <1>1, <1>7, <1>13, <3>1, <3>3 DEF NotesFit, TakenAreGone
  <2> QED
    BY <2>1, <2>3, <2>4, <2>5, <2>6, <2>7, <2>8 DEF NotesFit
<1>15. DraftsFit'
  <2>1. \A x \in IdsOf(saved) : x \in IdsOf(saved')
    BY <1>2, IdsOfIs
  <2>2. \A x \in q.ids : x \in IdsOf(u.result)
    BY <1>2, <1>4, <1>6, <1>7, UsedHas, IdsOfIs
  <2>3. \A x \in IdsOf(q.result) : x \in q.ids
    BY <1>1, <1>2, <1>3 DEF NotesFit, SavesAnswer, Of
  <2>4. ASSUME NEW x \in IdsOf(saved')
        PROVE  \/ x \in astray' \/ x \in IdsOf(draftComments')
               \/ \E r \in Requests' : r.do \in {"drafts", "save"} /\ x \in IdsOf(r.result)
    BY <1>1, <1>2, <1>6, <1>13, <2>2, <2>3, <2>4, DraftsBy
  <2>5. ASSUME NEW x \in IdsOf(draftComments')
        PROVE  \/ x \in IdsOf(saved') \/ x \in astray'
               \/ \E r \in Requests' : r.do \in {"publish", "deleteDraft"} /\ r.done /\ x \in r.ids
    BY <1>1, <1>2, <1>6, <2>1, <2>5, DraftsBy
  <2>6. ASSUME NEW x \in IdsOf(draftComments') \cap Public'
        PROVE  x \in astray' \/ \E r \in Requests' : r.do = "publish" /\ x \in r.ids
    BY <1>1, <1>2, <1>6, <1>10, <2>6, DraftsBy
  <2> QED
    BY <2>4, <2>5, <2>6, DraftsFrom
<1>16. CommentsFit'
  BY <1>1, <1>2, <1>3, <1>6 DEF LoadsAreCurrent, CommentsFit, Of, At, DeletedStaysGone
<1> QED
  BY <1>8, <1>14, <1>15, <1>16 DEF CommentInv

LEMMA ServeDeleteDraftFits ==
    ASSUME CommentInv, NEW i \in DOMAIN asked, ~asked[i].done, asked[i].do = "deleteDraft",
           NEW chosen, chosen = {note \in saved : note.id \in asked[i].ids}, saved' = saved \ chosen,
           IF chosen = {} THEN asked' = [asked EXCEPT ![i].done = TRUE, ![i].failed = TRUE]
           ELSE asked' = [asked EXCEPT ![i].done = TRUE, ![i].result = chosen],
           UNCHANGED <<names, published, activities, attention, online, spare, page, clouded, astray>>
    PROVE  CommentInv'
<1> DEFINE q == asked[i]
<1>1. CommentShapes /\ NotesFit /\ DraftsFit /\ CommentsFit
  BY DEF CommentInv
<1>2. /\ names' = names /\ published' = published /\ activities' = activities
      /\ attention' = attention /\ online' = online /\ comments' = comments /\ deleted' = deleted
      /\ draftComments' = draftComments /\ revision' = revision /\ clouded' = clouded /\ astray' = astray
      /\ q.do = "deleteDraft" /\ ~q.done
      /\ saved' = {n \in saved : n.id \notin q.ids} /\ chosen \subseteq saved
  BY DEF page
<1>3. \E u : TakesThePlace(u, q) /\ u.result \subseteq q.result \cup saved
  <2>1. CASE chosen = {}
    BY <1>1, <2>1, Refusing
  <2>2. CASE chosen # {}
    <3>1. asked' = [asked EXCEPT ![i].done = TRUE, ![i].result = chosen]
      BY <2>2
    <3>2. chosen \in SUBSET Notes
      BY <1>1, <1>2 DEF CommentShapes
    <3>3. \E u : TakesThePlace(u, asked[i]) /\ u.result = chosen
      BY <1>1, <3>1, <3>2, Accepting
    <3> QED
      BY <1>2, <3>3
  <2> QED
    BY <2>1, <2>2
<1>4. PICK u : TakesThePlace(u, q) /\ u.result \subseteq q.result \cup saved
  BY <1>3
<1> HIDE DEF q
<1>5. /\ u \in Asks /\ u.do = "deleteDraft" /\ u.ids = q.ids /\ u.path = q.path
      /\ u.revision = q.revision /\ u.done = TRUE /\ u \in Requests'
      /\ asked' \in Seq(Asks) /\ SavesDiffer(asked') /\ q \in Requests
      /\ Requests' \subseteq Requests \cup {u} /\ Requests \subseteq Requests' \cup {q}
  BY <1>2, <1>4 DEF TakesThePlace, IsAnswer
<1>6. CommentShapes'
  BY <1>1, <1>2, <1>5 DEF CommentShapes
<1>7. Happened' = Happened
  BY <1>2 DEF Happened
<1>8. Known' \subseteq Known /\ Used' \subseteq Used /\ Public' \subseteq Public
  <2>1. \A r \in Requests' : \E p \in Requests :
               /\ r.do = p.do /\ r.ids = p.ids /\ r.path = p.path
               /\ \A n \in r.result :
                     \/ n \in p.result \/ n \in published
                     \/ n \in IF r.do \in {"comments", "publish"} THEN {} ELSE saved
    BY <1>2, <1>4, <1>5
  <2>2. IdsOf({}) = {}
    BY IdsOfIs
  <2>3. published' \subseteq published \cup {} /\ saved' \subseteq saved \cup saved
        /\ \A e \in Happened' : e \in Happened \/ e.id \in IdsOf(published \cup {})
    BY <1>2, <1>7
  <2>4. /\ Known' \subseteq Known \cup saved
        /\ Used' \subseteq Used \cup IdsOf(saved)
        /\ Public' \subseteq Public \cup IdsOf({})
    BY <1>2, <2>1, <2>3, Moving
  <2>5. saved \subseteq Known /\ IdsOf(saved) \subseteq Used
    BY UsedHas, IdsOfIs DEF Known
  <2> QED
    BY <2>2, <2>4, <2>5
<1>9. Gone' \subseteq Gone
  BY <1>2, <1>5, <1>7, MembersAre DEF Members, InGone
<1>10. \A x \in IdsOf(saved') : x \in IdsOf(saved) /\ x \notin q.ids
  BY <1>2, IdsOfIs
<1>11. NotesFit'
  <2>1. OnePath'
    BY <1>1, <1>8 DEF NotesFit, OnePath
  <2>2. Of({"save"})' \subseteq Of({"save"})
    BY <1>5 DEF Of
  <2>3. UsedAreNamed' /\ SavesAreNew' /\ SavesAnswer'
    BY <1>1, <1>2, <1>8, <2>2, IdsAskedIs DEF NotesFit, UsedAreNamed, SavesAreNew, SavesAnswer
  <2>4. DraftsAreOwn' /\ GoneIsGone'
    BY <1>1, <1>2, <1>8, <1>9, <1>10 DEF NotesFit, DraftsAreOwn, GoneIsGone
  <2>5. TakenAreGone'
    BY <1>1, <1>5, <1>10, MembersAre DEF Members, NotesFit, TakenAreGone
  <2> QED
    BY <2>1, <2>3, <2>4, <2>5 DEF NotesFit
<1>12. DraftsFit'
  BY <1>1, <1>2, <1>5, <1>8, DraftsTaken
<1>13. CommentsFit'
  BY <1>1, <1>2, <1>5 DEF LoadsAreCurrent, CommentsFit, Of, At, DeletedStaysGone
<1> QED
  BY <1>6, <1>11, <1>12, <1>13 DEF CommentInv

LEMMA ServeDeletePublishedFits ==
    ASSUME CommentInv, NEW i \in DOMAIN asked, ~asked[i].done, asked[i].do = "deletePublished",
           NEW gone, gone = {note \in published : note.id \in asked[i].ids}, published' = published \ gone,
           IF gone = {}
           THEN /\ asked' = [asked EXCEPT ![i].done = TRUE, ![i].failed = TRUE]
                /\ UNCHANGED <<activities, attention>>
           ELSE /\ asked' = [asked EXCEPT ![i].done = TRUE, ![i].result = gone]
                /\ \E note \in gone : Tell("comment_deleted", note),
           UNCHANGED <<names, saved, online, spare, page, clouded, astray>>
    PROVE  CommentInv'
<1> DEFINE q == asked[i]
<1>1. CommentShapes /\ NotesFit /\ DraftsFit /\ CommentsFit
  BY DEF CommentInv
<1>2. /\ names' = names /\ saved' = saved
      /\ online' = online /\ comments' = comments /\ deleted' = deleted
      /\ draftComments' = draftComments /\ revision' = revision /\ clouded' = clouded /\ astray' = astray
      /\ q.do = "deletePublished" /\ ~q.done
      /\ published' = {n \in published : n.id \notin q.ids} /\ gone \subseteq published
      /\ \A n \in gone : n.id \in q.ids
      /\ gone = {} => published' = published
  BY DEF page
<1>3. \E u : TakesThePlace(u, q) /\ u.result \subseteq q.result \cup published
  <2>1. CASE gone = {}
    BY <1>1, <2>1, Refusing
  <2>2. CASE gone # {}
    <3>1. asked' = [asked EXCEPT ![i].done = TRUE, ![i].result = gone]
      BY <2>2
    <3>2. gone \in SUBSET Notes
      BY <1>1, <1>2 DEF CommentShapes
    <3>3. \E u : TakesThePlace(u, asked[i]) /\ u.result = gone
      BY <1>1, <3>1, <3>2, Accepting
    <3> QED
      BY <1>2, <3>3
  <2> QED
    BY <2>1, <2>2
<1>4. PICK u : TakesThePlace(u, q) /\ u.result \subseteq q.result \cup published
  BY <1>3
<1>5. /\ activities' \in Seq(Happenings) /\ attention' \in BOOLEAN
      /\ \A e \in Happened' : e \in Happened \/ (e.id \in q.ids /\ e.id \in IdsOf(published))
      /\ ~online => UNCHANGED <<activities, attention>>
      /\ online /\ ~attention' => published' = published /\ ~attention
  <2>1. CASE gone = {}
    BY <1>1, <1>2, <2>1 DEF Happened, CommentShapes
  <2>2. CASE gone # {}
    <3>1. PICK note \in gone : Tell("comment_deleted", note)
      BY <2>2
    <3>2. note \in Notes /\ note \in published /\ "comment_deleted" \in Types
      BY <1>1, <1>2 DEF CommentShapes, Types
    <3>3. /\ activities' \in Seq(Happenings) /\ attention' \in BOOLEAN
          /\ \A e \in Happened' : e \in Happened \/ (e.id = note.id /\ e.type = "comment_deleted")
          /\ IF online THEN attention' ELSE UNCHANGED <<activities, attention>>
      BY <1>1, <3>1, <3>2, Telling, Zenon
    <3>4. \A e \in Happened' : e \in Happened \/ (e.id \in q.ids /\ e.id \in IdsOf(published))
      BY <1>2, <3>2, <3>3, IdsOfIs
    <3>5. ~online => UNCHANGED <<activities, attention>>
      BY <3>3, Zenon
    <3>6. online => attention'
      BY <3>3, Zenon
    <3> QED
      BY <3>3, <3>4, <3>5, <3>6
  <2> QED
    BY <2>1, <2>2
<1> HIDE DEF q
<1>6. /\ u \in Asks /\ u.do = "deletePublished" /\ u.ids = q.ids /\ u.path = q.path
      /\ u.revision = q.revision /\ u.done = TRUE /\ u \in Requests'
      /\ asked' \in Seq(Asks) /\ SavesDiffer(asked') /\ q \in Requests
      /\ Requests' \subseteq Requests \cup {u} /\ Requests \subseteq Requests' \cup {q}
  BY <1>2, <1>4 DEF TakesThePlace, IsAnswer
<1>7. CommentShapes'
  BY <1>1, <1>2, <1>5, <1>6 DEF CommentShapes
<1>8. Known' \subseteq Known /\ Used' \subseteq Used /\ Public' \subseteq Public
  <2>1. \A r \in Requests' : \E p \in Requests :
               /\ r.do = p.do /\ r.ids = p.ids /\ r.path = p.path
               /\ \A n \in r.result :
                     \/ n \in p.result \/ n \in published
                     \/ n \in IF r.do \in {"comments", "publish"} THEN {} ELSE {}
    BY <1>2, <1>4, <1>6
  <2>2. IdsOf({}) = {}
    BY IdsOfIs
  <2>3. published' \subseteq published \cup {} /\ saved' \subseteq saved \cup {}
        /\ \A e \in Happened' : e \in Happened \/ e.id \in IdsOf(published \cup {})
    BY <1>2, <1>5
  <2>4. /\ Known' \subseteq Known \cup {}
        /\ Used' \subseteq Used \cup IdsOf({})
        /\ Public' \subseteq Public \cup IdsOf({})
    BY <1>2, <2>1, <2>3, Moving
  <2> QED
    BY <2>2, <2>4
<1>9. Gone' \subseteq Gone \cup q.ids
  BY <1>2, <1>5, <1>6, MembersAre DEF Members, InGone
<1>10. \A x \in IdsOf(published') : x \in IdsOf(published) /\ x \notin q.ids
  BY <1>2, IdsOfIs
<1>11. NotesFit'
  <2>1. OnePath'
    BY <1>1, <1>8 DEF NotesFit, OnePath
  <2>2. Of({"save"})' \subseteq Of({"save"})
    BY <1>6 DEF Of
  <2>3. UsedAreNamed' /\ SavesAreNew' /\ SavesAnswer'
    BY <1>1, <1>2, <1>8, <2>2, IdsAskedIs DEF NotesFit, UsedAreNamed, SavesAreNew, SavesAnswer
  <2>4. DraftsAreOwn' /\ GoneIsGone'
    BY <1>1, <1>2, <1>8, <1>9, <1>10 DEF NotesFit, DraftsAreOwn, GoneIsGone
  <2>5. TakenAreGone'
    BY <1>1, <1>2, <1>6, MembersAre DEF Members, NotesFit, TakenAreGone
  <2> QED
    BY <2>1, <2>3, <2>4, <2>5 DEF NotesFit
<1>12. DraftsFit'
  BY <1>1, <1>2, <1>6, <1>8, DraftsStay
<1>13. CommentsFit'
  BY <1>1, <1>2, <1>5, <1>6 DEF LoadsAreCurrent, CommentsFit, Of, At, DeletedStaysGone
<1> QED
  BY <1>7, <1>11, <1>12, <1>13 DEF CommentInv

LEMMA ServePublishFits ==
    ASSUME CommentInv, NEW i \in DOMAIN asked, ~asked[i].done, asked[i].do = "publish",
           NEW chosen, chosen = {note \in saved : note.id \in asked[i].ids},
           published' = published \cup chosen, saved' = saved \ chosen,
           IF chosen = {}
           THEN /\ asked' = [asked EXCEPT ![i].done = TRUE, ![i].failed = TRUE]
                /\ UNCHANGED <<activities, attention>>
           ELSE /\ asked' = [asked EXCEPT ![i].done = TRUE, ![i].result = At(published', asked[i].path)]
                /\ \E note \in chosen : Tell("comment_added", note),
           UNCHANGED <<names, online, spare, page, clouded, astray>>
    PROVE  CommentInv'
<1> DEFINE q == asked[i]
           answer == At(published', q.path)
<1>1. CommentShapes /\ NotesFit /\ DraftsFit /\ CommentsFit
  BY DEF CommentInv
<1>2. /\ names' = names /\ published' = published \cup chosen
      /\ online' = online /\ comments' = comments /\ deleted' = deleted
      /\ draftComments' = draftComments /\ revision' = revision /\ clouded' = clouded /\ astray' = astray
      /\ q.do = "publish" /\ ~q.done
      /\ saved' = {n \in saved : n.id \notin q.ids} /\ chosen \subseteq saved
      /\ \A n \in chosen : n.id \in q.ids
  BY DEF page
<1>3. answer \subseteq published \cup chosen
  BY DEF At
<1> HIDE DEF answer
<1>4. \E u : TakesThePlace(u, q) /\ u.result \subseteq q.result \cup published \cup chosen
  <2>1. CASE chosen = {}
    BY <1>1, <2>1, Refusing
  <2>2. CASE chosen # {}
    <3>1. asked' = [asked EXCEPT ![i].done = TRUE, ![i].result = answer]
      BY <2>2 DEF answer
    <3>2. answer \in SUBSET Notes
      BY <1>1, <1>2, <1>3 DEF CommentShapes
    <3>3. \E u : TakesThePlace(u, asked[i]) /\ u.result = answer
      BY <1>1, <3>1, <3>2, Accepting
    <3> QED
      BY <1>3, <3>3
  <2> QED
    BY <2>1, <2>2
<1>5. PICK u : TakesThePlace(u, q) /\ u.result \subseteq q.result \cup published \cup chosen
  BY <1>4
<1>6. /\ activities' \in Seq(Happenings) /\ attention' \in BOOLEAN
      /\ \A e \in Happened' : e \in Happened \/ (e.id \in IdsOf(chosen) /\ e.type # "comment_deleted")
      /\ ~online => UNCHANGED <<activities, attention>>
      /\ online /\ ~attention' => published' = published /\ ~attention
  <2>1. CASE chosen = {}
    BY <1>1, <1>2, <2>1 DEF Happened, CommentShapes
  <2>2. CASE chosen # {}
    <3>1. PICK note \in chosen : Tell("comment_added", note)
      BY <2>2
    <3>2. note \in Notes /\ note \in chosen /\ "comment_added" \in Types
      BY <1>1, <1>2 DEF CommentShapes, Types
    <3>3. /\ activities' \in Seq(Happenings) /\ attention' \in BOOLEAN
          /\ \A e \in Happened' : e \in Happened \/ (e.id = note.id /\ e.type = "comment_added")
          /\ IF online THEN attention' ELSE UNCHANGED <<activities, attention>>
      BY <1>1, <3>1, <3>2, Telling, Zenon
    <3>4. \A e \in Happened' : e \in Happened \/ (e.id \in IdsOf(chosen) /\ e.type # "comment_deleted")
      BY <3>2, <3>3, IdsOfIs
    <3>5. ~online => UNCHANGED <<activities, attention>>
      BY <3>3, Zenon
    <3>6. online => attention'
      BY <3>3, Zenon
    <3> QED
      BY <3>3, <3>4, <3>5, <3>6
  <2> QED
    BY <2>1, <2>2
<1> HIDE DEF q
<1>7. /\ u \in Asks /\ u.do = "publish" /\ u.ids = q.ids /\ u.path = q.path
      /\ u.revision = q.revision /\ u.done = TRUE /\ u \in Requests'
      /\ asked' \in Seq(Asks) /\ SavesDiffer(asked') /\ q \in Requests
      /\ Requests' \subseteq Requests \cup {u} /\ Requests \subseteq Requests' \cup {q}
  BY <1>2, <1>5 DEF TakesThePlace, IsAnswer
<1>8. CommentShapes'
  BY <1>1, <1>2, <1>6, <1>7 DEF CommentShapes
<1>9. /\ Known' \subseteq Known /\ Used' \subseteq Used /\ Public' \subseteq Public \cup IdsOf(chosen)
  <2>1. \A r \in Requests' : \E p \in Requests :
               /\ r.do = p.do /\ r.ids = p.ids /\ r.path = p.path
               /\ \A n \in r.result :
                     n \in p.result \/ n \in published \/ n \in chosen
    BY <1>2, <1>5, <1>7
  <2>2. \A x \in IdsOf(chosen) : x \in IdsOf(published \cup chosen)
    BY IdsOfIs
  <2>2a. \A e \in Happened' : e \in Happened \/ e.id \in IdsOf(published \cup chosen)
    BY <1>6, <2>2, Zenon
  <2>2b. published' \subseteq published \cup chosen /\ saved' \subseteq saved \cup chosen /\ chosen \subseteq chosen
    BY <1>2
  <2>2c. comments' = comments /\ draftComments' = draftComments /\ deleted' = deleted
    BY <1>2
  <2>3. /\ Known' \subseteq Known \cup chosen
        /\ Used' \subseteq Used \cup IdsOf(chosen)
        /\ Public' \subseteq Public \cup IdsOf(chosen)
    BY <2>1, <2>2a, <2>2b, <2>2c, MovingAll
  <2>4. chosen \subseteq Known /\ IdsOf(chosen) \subseteq Used
    BY <1>2, UsedHas, IdsOfIs DEF Known
  <2> QED
    BY <2>3, <2>4
<1>10. Gone' \subseteq Gone
  BY <1>2, <1>6, <1>7, MembersAre DEF Members, InGone
<1>11. /\ \A x \in IdsOf(saved') : x \in IdsOf(saved) /\ x \notin q.ids
       /\ \A x \in IdsOf(chosen) : x \in IdsOf(saved) /\ x \in q.ids
       /\ \A x \in IdsOf(published') : x \in IdsOf(published) \/ x \in IdsOf(chosen)
  BY <1>2, IdsOfIs
<1>12. NotesFit'
  <2>1. OnePath'
    BY <1>1, <1>9 DEF NotesFit, OnePath
  <2>2. Of({"save"})' \subseteq Of({"save"})
    BY <1>7 DEF Of
  <2>3. UsedAreNamed' /\ SavesAreNew' /\ SavesAnswer'
    BY <1>1, <1>2, <1>9, <2>2, IdsAskedIs DEF NotesFit, UsedAreNamed, SavesAreNew, SavesAnswer
  <2>4. DraftsAreOwn'
    BY <1>1, <1>9, <1>11 DEF NotesFit, DraftsAreOwn
  <2>5. GoneIsGone'
    BY <1>1, <1>10, <1>11, PublicIsUsed DEF NotesFit, DraftsAreOwn, GoneIsGone
  <2>6. TakenAreGone'
    BY <1>1, <1>7, <1>11, MembersAre DEF Members, NotesFit, TakenAreGone
  <2> QED
    BY <2>1, <2>3, <2>4, <2>5, <2>6 DEF NotesFit
<1>13. DraftsFit'
  BY <1>1, <1>2, <1>7, <1>9, <1>11, DraftsTaken
<1>14. CommentsFit'
  BY <1>1, <1>2, <1>6, <1>7 DEF LoadsAreCurrent, CommentsFit, Of, At, DeletedStaysGone
<1> QED
  BY <1>8, <1>12, <1>13, <1>14 DEF CommentInv

LEMMA ServeFits ==
    ASSUME CommentInv, NEW i \in DOMAIN asked, Serve(i)
    PROVE  CommentInv'
<1> DEFINE q == asked[i]
           chosen == {note \in saved : note.id \in q.ids}
           gone == {note \in published : note.id \in q.ids}
<1>1. ~q.done /\ UNCHANGED <<names, online, spare, page, clouded, astray>>
  BY DEF Serve
<1>2. CASE /\ q.do = "comments" /\ UNCHANGED server
           /\ asked' = [asked EXCEPT ![i].done = TRUE, ![i].result = At(published, q.path)]
  BY <1>1, <1>2, ServeReadFits
<1>3. CASE /\ q.do = "drafts" /\ UNCHANGED server
           /\ asked' = [asked EXCEPT ![i].done = TRUE, ![i].result = saved]
  BY <1>1, <1>3, ServeReadFits
<1>4. CASE /\ q.do = "save" /\ saved' = saved \cup {Note(id, q.path) : id \in q.ids}
           /\ asked' = [asked EXCEPT ![i].done = TRUE, ![i].result = saved' \ saved]
           /\ UNCHANGED <<published, activities, attention>>
  BY <1>1, <1>4, ServeSaveFits
<1>5. CASE /\ q.do = "deleteDraft" /\ saved' = saved \ chosen
           /\ IF chosen = {} THEN asked' = [asked EXCEPT ![i].done = TRUE, ![i].failed = TRUE]
              ELSE asked' = [asked EXCEPT ![i].done = TRUE, ![i].result = chosen]
           /\ UNCHANGED <<published, activities, attention>>
  BY <1>1, <1>5, ServeDeleteDraftFits
<1>6. CASE /\ q.do = "deletePublished" /\ published' = published \ gone
           /\ IF gone = {} THEN /\ asked' = [asked EXCEPT ![i].done = TRUE, ![i].failed = TRUE]
                                /\ UNCHANGED <<activities, attention>>
              ELSE /\ asked' = [asked EXCEPT ![i].done = TRUE, ![i].result = gone]
                   /\ \E note \in gone : Tell("comment_deleted", note)
           /\ UNCHANGED saved
  BY <1>1, <1>6, ServeDeletePublishedFits
<1>7. CASE /\ q.do = "publish" /\ published' = published \cup chosen /\ saved' = saved \ chosen
           /\ IF chosen = {} THEN /\ asked' = [asked EXCEPT ![i].done = TRUE, ![i].failed = TRUE]
                                  /\ UNCHANGED <<activities, attention>>
              ELSE /\ asked' = [asked EXCEPT ![i].done = TRUE, ![i].result = At(published', q.path)]
                   /\ \E note \in chosen : Tell("comment_added", note)
  BY <1>1, <1>7, ServePublishFits
<1>8. /\ gone # {} => (CHOOSE note \in gone : TRUE) \in gone
      /\ chosen # {} => (CHOOSE note \in chosen : TRUE) \in chosen
  OBVIOUS
<1> QED
  BY <1>2, <1>3, <1>4, <1>5, <1>6, <1>7, <1>8 DEF Serve

-----------------------------------------------------------------------------
(* The invariant holds *)

LEMMA CommentsStart == CommentsInit => CommentInv
<1> SUFFICES ASSUME CommentsInit PROVE CommentInv
  OBVIOUS
<1> DEFINE Asked(do) == [do |-> do, ids |-> {}, path |-> AllPaths, revision |-> 0,
                         follows |-> FALSE, done |-> FALSE, failed |-> FALSE, result |-> {}]
           c == Asked("comments")
           d == Asked("drafts")
<1>1. PICK path \in Documents : published \in {{}, {Note(1, path)}}
  BY DEF CommentsInit
<1>2. /\ names = 1 /\ saved = {} /\ activities = <<>> /\ attention = FALSE /\ online = TRUE
      /\ comments = {} /\ draftComments = {} /\ deleted = {} /\ revision = 0
      /\ asked = <<c, d>> /\ clouded = FALSE /\ astray = {}
  BY DEF CommentsInit
<1>3. /\ c \in Asks /\ c.do = "comments" /\ c.ids = {} /\ c.path = AllPaths /\ c.revision = 0
      /\ c.done = FALSE /\ c.result = {}
      /\ d \in Asks /\ d.do = "drafts" /\ d.ids = {} /\ d.revision = 0 /\ d.done = FALSE /\ d.result = {}
  BY DEF Asks, Kinds
<1> HIDE DEF c, d, Asked
<1>4. published \subseteq Notes /\ \A n \in published : n.id = 1
  BY <1>1, CommentsAssumption DEF Note, Notes, Ids
<1>5. asked \in Seq(Asks) /\ Requests = {c, d} /\ SavesDiffer(asked)
  BY <1>2, <1>3, ToSetIs DEF Requests, SavesDiffer
<1>6. CommentShapes
  <2>1. activities \in Seq(Happenings)
    BY <1>2, EmptySeq
  <2>2. names <= MaxId
    BY <1>2, CommentsAssumption
  <2> QED
    BY <1>2, <1>4, <1>5, <2>1, <2>2 DEF CommentShapes
<1>7. Happened = {}
  BY <1>2, ToSetIs DEF Happened
<1>8. Members
  BY MembersAre
<1>9. (\A n \in Known : n \in published) /\ (\A x \in Used : x = 1) /\ Gone = {}
  BY <1>2, <1>3, <1>4, <1>5, <1>7, <1>8 DEF InKnown, InUsed, InGone, Members
<1>10. Of({"save"}) = {} /\ Taking = {}
  BY <1>3, <1>5 DEF Of, Taking
<1>11. NotesFit
  <2>1. OnePath
    BY <1>1, <1>9 DEF OnePath
  <2>2. UsedAreNamed
    <3>1. 1 \in 1..names
      BY <1>2
    <3> QED
      BY <1>9, <1>10, <3>1, IdsAskedIs DEF UsedAreNamed
  <2>3. IdsOf({}) = {} /\ IdsAsked({}) = {}
    BY IdsOfIs, IdsAskedIs
  <2> QED
    BY <1>2, <1>9, <1>10, <2>1, <2>2, <2>3
       DEF NotesFit, SavesAreNew, SavesAnswer, DraftsAreOwn, GoneIsGone, TakenAreGone
<1>12. DraftsFit
  <2>1. IdsOf({}) = {}
    BY IdsOfIs
  <2> QED
    BY <1>2, <2>1 DEF DraftsFit, SavedAreComing, DraftsAreLeaving, PublicAreLeaving
<1>13. CommentsFit
  BY <1>2, <1>3, <1>5 DEF LoadsAreCurrent, Of, DeletedStaysGone, Retained, CommentsFit
<1> QED
  BY <1>6, <1>11, <1>12, <1>13 DEF CommentInv

LEMMA CommentsKeep == CommentInv /\ CommentsNext => CommentInv'
<1> SUFFICES ASSUME CommentInv, CommentsNext PROVE CommentInv'
  OBVIOUS
<1>1. CASE \E id \in Ids, path \in Documents : AgentWrites(id, path) \/ CreateComment(id, path)
  BY <1>1, AgentWritesFits, CreateCommentFits
<1>2. CASE \E note \in published : OtherDeletes(note) \/ AgentReads(note)
  BY <1>2, OtherDeletesFits, AgentReadsFits
<1>3. CASE \E note \in comments : DeletePublishedComment(note)
  BY <1>3, PageAsksSomething DEF CommentInv, CommentShapes, Notes
<1>4. CASE \E note \in draftComments : DeleteDraftReviewComment(note)
  BY <1>4, PageAsksSomething DEF CommentInv, CommentShapes, Notes
<1>5. CASE \E path \in Documents : OpenCommentedFile(path) \/ PublishDraftReviewComments(path)
  BY <1>5, PageAsksSomething
<1>6. CASE \E i \in DOMAIN asked : Serve(i) \/ Answered(i) \/ RequestLost(i)
  BY <1>6, ServeFits, AnsweredFits
<1>7. CASE ReceiveActivity
  BY <1>7, ReceiveActivityFits
<1>8. CASE ReceiveAttention
  BY <1>8, ReceiveAttentionFits
<1>9. CASE StreamsBreak
  BY <1>9, StreamsBreakFits
<1>10. CASE StreamsReturn
  BY <1>10, StreamsReturnFits
<1> QED
  BY <1>1, <1>2, <1>3, <1>4, <1>5, <1>6, <1>7, <1>8, <1>9, <1>10 DEF CommentsNext

\* What is on its way is all that the page and the server can differ by.
LEMMA CommentInvImplies == CommentInv => CommentsAreRight
<1> SUFFICES ASSUME CommentInv PROVE CommentsAreRight
  OBVIOUS
<1>1. CommentShapes /\ NotesFit /\ DraftsFit /\ CommentsFit
  BY DEF CommentInv
<1>2. CommentsTypeOK
  BY <1>1, ToSetIs DEF CommentsFit, Requests, NotesFit, OnePath, Known, CommentsTypeOK, CommentShapes, Notes
<1>3. CommentsQuiet => Requests = {}
  BY ToSetIs DEF CommentsQuiet, Requests
<1>4. CommentsConverge
  BY <1>1, <1>3 DEF CommentsConverge, CommentsQuiet, CommentsFit, LoadsAreCurrent, Of
<1>5. DraftsConverge
  BY <1>1, <1>3, DraftsBy DEF DraftsConverge
<1>6. NoneShownTwice
  BY <1>1, IdsOfIs, UsedHas, ToSetIs, DraftsBy DEF NoneShownTwice, DraftPublishing, Busy, Requests
<1> QED
  BY <1>1, <1>2, <1>4, <1>5, <1>6 DEF CommentsAreRight, CommentsFit

\* Whatever order answers and events come in, and whatever is lost: a deletion that is known is
\* not undone, and once nothing is on its way the page has the server's comments and drafts, each
\* of them once (CommentSnapshots and the comment requests of WorkbenchContainer).
THEOREM CommentsStayRight == MCSpec => []CommentsAreRight
<1>1. MCInit => CommentInv
  BY CommentsStart DEF MCInit
<1>2. CommentInv /\ [MCNext]_<<vars, commentVars, concern>> => CommentInv'
  <2> SUFFICES ASSUME CommentInv, [MCNext]_<<vars, commentVars, concern>> PROVE CommentInv'
    OBVIOUS
  <2>1. CASE CommentsNext
    BY <2>1, CommentsKeep
  <2>2. CASE UNCHANGED commentVars
    BY <2>2, NothingNew, DeletedIsGone, DraftsStay DEF commentVars, server, page, Requests, Happened, CommentInv,
       CommentShapes, CommentsFit, DeletedStaysGone, LoadsAreCurrent, Of, At
  <2> QED
    BY <2>1, <2>2 DEF MCNext
<1> QED
  BY <1>1, <1>2, CommentInvImplies, PTL DEF MCSpec

-----------------------------------------------------------------------------
(* What is true of the files of a page *)

Tabs == [path : Files, pane : Nat, preview : BOOLEAN, changed : BOOLEAN, removed : BOOLEAN]
Panes == [id : Nat, active : Files \cup {NoPath}]
Layouts == [panes : Seq(Panes), focus : Nat, next : Nat]
FileEvents == [type : {"add", "change", "unlink"}, path : Files]
Loads == [path : Files, pane : Nat, mode : Modes, review : BOOLEAN, version : Nat, read : Nat \cup {Unread}]
Refreshes == [path : Files, version : Nat, read : Nat \cup {Unread}]
Fetches == [path : Files, read : Nat \cup {Unread}]

TabsOK(ts) ==
    /\ ts \in Seq(Tabs)
    /\ \A i, j \in DOMAIN ts : ts[i].preview /\ ts[j].preview /\ ts[i].pane = ts[j].pane => i = j
LayoutOK(l) == l \in Layouts /\ l.panes # <<>>

\* Every load has a version of its own time, and so has every refresh.
FilesTyped ==
    /\ disk \in [Files -> Nat] /\ clock \in Nat /\ connected \in BOOLEAN
    /\ events \in Seq(FileEvents) /\ (connected \/ events = <<>>)
    /\ cache \in [Files -> Nat \cup {None}]
    /\ loads \in Seq(Loads) /\ versions \in [Files -> Nat]
    /\ timers \subseteq Files /\ live \subseteq Refreshes /\ requests \in [Files -> Nat]
    /\ hydration \subseteq Fetches
    /\ missing \subseteq Files /\ present \subseteq Files /\ missing \cap present = {}
    /\ \A i \in DOMAIN loads : loads[i].version > 0 /\ loads[i].version <= versions[loads[i].path]
    /\ \A p \in Files : versions[p] > 0 => \E i \in DOMAIN loads : loads[i].path = p
    /\ \A r \in live : r.version <= requests[r.path]

\* Writes are numbered: what was read of a file that is there is no newer than the file.
OldAs(p, read) == read <= clock /\ (disk[p] > 0 => read <= disk[p])
ReadsAreOld ==
    /\ \A p \in Files : disk[p] <= clock
    /\ \A i \in DOMAIN loads : OldAs(loads[i].path, loads[i].read)
    /\ \A r \in live : OldAs(r.path, r.read)
    /\ \A f \in hydration : OldAs(f.path, f.read)

\* The last events of a file that are on their way tell whether it is there.
EventsFit ==
    \A i \in DOMAIN events :
        LET e == events[i]
            later == {j \in DOMAIN events : j > i /\ events[j].path = e.path}
        IN  IF e.type = "change" THEN later = {} => disk[e.path] # 0
            ELSE (\A j \in later : events[j].type = "change") => (e.type = "unlink" <=> disk[e.path] = 0)

\* With no such event on its way, what is known of a file is right, and so is an answer that
\* will be believed.
Told(p) == \E i \in DOMAIN events : events[i].path = p /\ events[i].type # "change"
KnownFits ==
    \A p \in Files \ unheard : ~Told(p) =>
        /\ p \in missing => disk[p] = 0
        /\ p \in present => disk[p] # 0
        /\ \A i \in InFlight(p) : loads[i].version = versions[p] /\ loads[i].read # Unread
               => (loads[i].read = 0 <=> disk[p] = 0)

\* The copy of a file that is not left behind is right, or the file is gone and known to be, or
\* there is an event, a timer or a refresh that will put it right; and so is every answer that may
\* become the copy, but for those that are known to be overtaken.
Heard(p) == \E i \in DOMAIN events : events[i].path = p
KnownGone(p) == disk[p] = 0 /\ p \in missing
Comes(p) == \E r \in live : /\ r.path = p /\ r.version = requests[p]
                            /\ r.read = Unread \/ (r.read > 0 /\ r.read = disk[p])
Right(p, read) == read = disk[p] \/ KnownGone(p) \/ Heard(p) \/ p \in timers \/ Comes(p)
Unasked(p) ==
    /\ cache[p] = None
    /\ \A i \in InFlight(p) : ~(loads[i].read > 0)
    /\ \A f \in hydration : f.path = p => ~(f.read > 0)
    /\ \A r \in live : r.path = p /\ r.version = requests[p] => ~(r.read > 0)
CopyFits(p) ==
    /\ cache[p] # None => Right(p, cache[p])
    /\ \A i \in InFlight(p) : loads[i].read > 0 =>
           /\ Right(p, loads[i].read) \/ loads[i].read < cache[p]
           /\ loads[i].version = versions[p] /\ disk[p] = 0 => Heard(p)
    /\ \A f \in hydration : f.path = p /\ f.read > 0 => Right(p, f.read) \/ f.read < cache[p]
    /\ \A r \in live : r.path = p /\ r.version = requests[p] /\ r.read > 0 =>
           r.read = disk[p] \/ KnownGone(p) \/ Heard(p)
    /\ disk[p] = 0 => p \in missing \/ Heard(p) \/ Unasked(p)
CopiesFit == \A p \in Files \ strays : CopyFits(p)

ContentFits == FilesTyped /\ ReadsAreOld /\ EventsFit /\ KnownFits /\ CopiesFit
FilesInv == TabsOK(tabs) /\ LayoutOK(layout) /\ ContentFits

-----------------------------------------------------------------------------
(* What stays true of a file that a step is not about *)

\* The answers for a file that are on their way were on their way before, and are believed only if
\* they were.
LoadsStay(p) ==
    \A i \in InFlight(p)' : loads'[i].read # Unread =>
        \E j \in InFlight(p) : /\ loads[j].read = loads'[i].read
                               /\ loads'[i].version = versions'[p] => loads[j].version = versions[p]
LiveStays(p) ==
    \A r \in live' : r.path = p /\ r.version = requests'[p] /\ r.read > 0 =>
        \E q \in live : q.path = p /\ q.version = requests[p] /\ q.read = r.read
HydrationStays(p) ==
    \A f \in hydration' : f.path = p /\ f.read > 0 => \E g \in hydration : g.path = p /\ g.read = f.read

LEMMA KnownStays ==
    ASSUME NEW p \in Files, KnownFits, p \notin unheard, ~Told(p), LoadsStay(p),
           disk'[p] = disk[p], p \in missing' => p \in missing, p \in present' => p \in present
    PROVE  /\ p \in missing' => disk'[p] = 0
           /\ p \in present' => disk'[p] # 0
           /\ \A i \in InFlight(p)' : loads'[i].version = versions'[p] /\ loads'[i].read # Unread
                  => (loads'[i].read = 0 <=> disk'[p] = 0)
<1>1. /\ p \in missing => disk[p] = 0
      /\ p \in present => disk[p] # 0
      /\ \A i \in InFlight(p) : loads[i].version = versions[p] /\ loads[i].read # Unread
             => (loads[i].read = 0 <=> disk[p] = 0)
  BY DEF KnownFits
<1>2. ASSUME NEW i \in InFlight(p)', loads'[i].version = versions'[p], loads'[i].read # Unread
      PROVE  loads'[i].read = 0 <=> disk'[p] = 0
  BY <1>1, <1>2 DEF LoadsStay
<1> QED
  BY <1>1, <1>2

LEMMA CopyStays ==
    ASSUME NEW p \in Files, CopyFits(p), LoadsStay(p), LiveStays(p), HydrationStays(p),
           disk'[p] = disk[p], p \in missing => p \in missing', cache'[p] = cache[p],
           Heard(p) => Heard(p)', p \in timers \/ Comes(p) => p \in timers' \/ Comes(p)'
    PROVE  CopyFits(p)'
<1>1. KnownGone(p) => KnownGone(p)'
  BY DEF KnownGone
<1>2. ASSUME NEW read, Right(p, read) PROVE Right(p, read)'
  BY <1>1, <1>2 DEF Right
<1>3. cache'[p] # None => Right(p, cache[p])'
  BY <1>1 DEF CopyFits, Right
<1>4. ASSUME NEW i \in InFlight(p)', loads'[i].read > 0
      PROVE  /\ Right(p, loads[i].read)' \/ loads'[i].read < cache'[p]
             /\ loads'[i].version = versions'[p] /\ disk'[p] = 0 => Heard(p)'
  BY <1>1, <1>4 DEF LoadsStay, Unread, CopyFits, Right
<1>5. ASSUME NEW f \in hydration', f.path = p, f.read > 0
      PROVE  Right(p, f.read)' \/ f.read < cache'[p]
  BY <1>2, <1>5 DEF HydrationStays, CopyFits
<1>6. ASSUME NEW r \in live', r.path = p, r.version = requests'[p], r.read > 0
      PROVE  r.read = disk'[p] \/ KnownGone(p)' \/ Heard(p)'
  BY <1>1, <1>6 DEF LiveStays, CopyFits
<1>7. ASSUME Unasked(p) PROVE Unasked(p)'
  BY <1>7 DEF Unasked, LoadsStay, Unread, HydrationStays, LiveStays
<1>8. disk'[p] = 0 => p \in missing' \/ Heard(p)' \/ Unasked(p)'
  BY <1>7 DEF CopyFits
<1> QED
  BY <1>3, <1>4, <1>5, <1>6, <1>8 DEF CopyFits

\* A file that an event is on its way for will be put right.
LEMMA CopyIsHeard ==
    ASSUME NEW p \in Files, Heard(p)' PROVE CopyFits(p)'
  BY DEF CopyFits, Right

LEMMA ReadsAre ==
    ASSUME FilesTyped
    PROVE  /\ DOMAIN loads = 1..Len(loads) /\ Len(loads) \in Nat
           /\ \A i \in DOMAIN loads : /\ loads[i] \in Loads /\ loads[i].path \in Files /\ loads[i].pane \in Nat
                                       /\ loads[i].mode \in Modes /\ loads[i].version \in Nat
                                       /\ loads[i].read \in Nat \cup {Unread}
           /\ \A r \in live : r.path \in Files /\ r.version \in Nat /\ r.read \in Nat \cup {Unread}
           /\ \A f \in hydration : f.path \in Files /\ f.read \in Nat \cup {Unread}
<1>1. loads \in Seq(Loads) /\ live \subseteq Refreshes /\ hydration \subseteq Fetches
  BY DEF FilesTyped
<1>2. DOMAIN loads = 1..Len(loads) /\ Len(loads) \in Nat /\ \A i \in DOMAIN loads : loads[i] \in Loads
  BY <1>1
<1>3. \A x \in Loads : /\ x.path \in Files /\ x.pane \in Nat /\ x.mode \in Modes /\ x.version \in Nat
                      /\ x.read \in Nat \cup {Unread}
  BY DEF Loads
<1>4. \A r \in live : r.path \in Files /\ r.version \in Nat /\ r.read \in Nat \cup {Unread}
  BY <1>1 DEF Refreshes
<1>5. \A f \in hydration : f.path \in Files /\ f.read \in Nat \cup {Unread}
  BY <1>1 DEF Fetches
<1> QED
  BY <1>2, <1>3, <1>4, <1>5

-----------------------------------------------------------------------------
(* The disk and the stream of events *)

\* What is announced of a file is the last that is heard of it.
LEMMA AppendIs ==
    ASSUME NEW T, NEW q \in Seq(T), NEW e \in T
    PROVE  LET t == Append(q, e)
           IN  /\ t \in Seq(T) /\ DOMAIN q = 1..Len(q) /\ Len(q) \in Nat /\ DOMAIN t = 1..(Len(q) + 1)
               /\ \A i \in 1..Len(q) : t[i] = q[i]
               /\ t[Len(q) + 1] = e
  OBVIOUS

LEMMA HeardAfter ==
    ASSUME events \in Seq(FileEvents), NEW e \in FileEvents, events' = Append(events, e)
    PROVE  /\ \A p : Heard(p)' <=> Heard(p) \/ p = e.path
           /\ \A p : Told(p)' <=> Told(p) \/ (p = e.path /\ e.type # "change")
  BY AppendIs DEF Heard, Told

LEMMA Announced ==
    ASSUME ContentFits, NEW p \in Files, NEW e \in FileEvents, e.path = p, Announce(e),
           NEW d \in Nat, disk' = [disk EXCEPT ![p] = d],
           clock' \in Nat, clock' >= clock, d <= clock', d > 0 => d >= clock,
           e.type = "unlink" <=> d = 0, e.type = "change" => disk[p] # 0,
           UNCHANGED <<connected, contents, pending>>
    PROVE  ContentFits'
<1>1. /\ connected' = connected /\ cache' = cache /\ missing' = missing /\ present' = present
      /\ loads' = loads /\ versions' = versions /\ timers' = timers /\ live' = live
      /\ hydration' = hydration /\ requests' = requests
  BY DEF contents, pending
<1>2. FilesTyped /\ ReadsAreOld /\ EventsFit /\ KnownFits /\ CopiesFit
  BY DEF ContentFits
<1>3. /\ disk \in [Files -> Nat] /\ disk' \in [Files -> Nat] /\ disk'[p] = d
      /\ \A q \in Files : q # p => disk'[q] = disk[q]
  BY <1>2 DEF FilesTyped
<1>4. connected \/ events = <<>>
  BY <1>2 DEF FilesTyped
<1>5. events \in Seq(FileEvents) /\ connected \in BOOLEAN
  BY <1>2 DEF FilesTyped
<1>8. /\ \A q \in Files : disk'[q] <= clock'
      /\ \A q \in Files, read \in Nat \cup {Unread} : OldAs(q, read) => OldAs(q, read)'
      /\ \A i \in DOMAIN loads : OldAs(loads[i].path, loads[i].read) => OldAs(loads[i].path, loads[i].read)'
      /\ \A r \in live : OldAs(r.path, r.read) => OldAs(r.path, r.read)'
      /\ \A f \in hydration : OldAs(f.path, f.read) => OldAs(f.path, f.read)'
  <2>1. clock \in Nat /\ \A q \in Files : disk[q] <= clock /\ disk[q] \in Nat
    BY <1>2, <1>3 DEF FilesTyped, ReadsAreOld
  <2>2. \A q \in Files : disk'[q] <= clock'
    BY <1>3, <2>1
  <2>3. ASSUME NEW q \in Files, NEW read \in Nat \cup {Unread}, OldAs(q, read)
        PROVE  read <= clock' /\ (disk'[q] > 0 => read <= disk'[q])
    BY <1>3, <2>1, <2>3 DEF OldAs, Unread
  <2> QED
    BY <1>1, <1>2, <2>2, <2>3, ReadsAre DEF OldAs
<1>6. CASE connected
  <2>1. events' = Append(events, e) /\ strays' = strays /\ unheard' = unheard
    BY <1>6 DEF Announce
  <2>2. /\ DOMAIN events = 1..Len(events) /\ Len(events) \in Nat /\ DOMAIN events' = 1..(Len(events) + 1)
        /\ \A i \in 1..Len(events) : events'[i] = events[i]
        /\ events'[Len(events) + 1] = e /\ events' \in Seq(FileEvents)
    BY <1>5, <2>1, AppendIs
  <2>3. /\ \A q : Heard(q)' <=> Heard(q) \/ q = p
        /\ \A q : Told(q)' <=> Told(q) \/ (q = p /\ e.type # "change")
    BY <1>5, <2>1, HeardAfter
  <2>4. FilesTyped'
    BY <1>1, <1>2, <1>3, <1>6, <2>2 DEF FilesTyped
  <2>5. ReadsAreOld'
    BY <1>1, <1>2, <1>3, <1>8 DEF ReadsAreOld
  <2>6. EventsFit'
    <3> SUFFICES ASSUME NEW i \in DOMAIN events'
                 PROVE  LET x == events'[i]
                            later == {j \in DOMAIN events' : j > i /\ events'[j].path = x.path}
                        IN  IF x.type = "change" THEN later = {} => disk'[x.path] # 0
                            ELSE (\A j \in later : events'[j].type = "change")
                                     => (x.type = "unlink" <=> disk'[x.path] = 0)
      BY DEF EventsFit
    <3>1. CASE i = Len(events) + 1
      BY <1>3, <2>2, <3>1
    <3>2. CASE i # Len(events) + 1
      <4>1. i \in DOMAIN events /\ events'[i] = events[i] /\ events[i] \in FileEvents /\ i < Len(events) + 1
        BY <1>5, <2>2, <3>2
      <4> DEFINE x == events[i]
                 later == {j \in DOMAIN events : j > i /\ events[j].path = x.path}
                 after == {j \in DOMAIN events' : j > i /\ events'[j].path = x.path}
      <4>2. IF x.type = "change" THEN later = {} => disk[x.path] # 0
            ELSE (\A j \in later : events[j].type = "change") => (x.type = "unlink" <=> disk[x.path] = 0)
        BY <1>2, <4>1 DEF EventsFit
      <4>3. later \subseteq after /\ \A j \in later : events'[j] = events[j]
        BY <2>2
      <4>4. x.path = p => Len(events) + 1 \in after
        BY <2>2, <4>1
      <4>5. x.path # p => disk'[x.path] = disk[x.path]
        BY <1>3, <4>1 DEF FileEvents
      <4>6. disk[x.path] \in Nat /\ disk'[x.path] \in Nat
        BY <1>3, <4>1 DEF FileEvents
      <4>7. CASE x.path # p
        BY <2>2, <4>1, <4>2, <4>3, <4>5, <4>7
      <4>8. CASE x.path = p
        <5>1. x.type = "change" => after # {}
          BY <4>4, <4>8
        <5>2. ASSUME x.type # "change", \A j \in after : events'[j].type = "change"
              PROVE  x.type = "unlink" <=> disk'[x.path] = 0
          BY <1>3, <2>2, <4>2, <4>3, <4>4, <4>8, <5>2
        <5> QED
          BY <4>1, <5>1, <5>2
      <4> QED
        BY <4>7, <4>8
    <3> QED
      BY <3>1, <3>2
  <2>7. KnownFits'
    <3> SUFFICES ASSUME NEW q \in Files, q \notin unheard', ~Told(q)'
                 PROVE  /\ q \in missing' => disk'[q] = 0
                        /\ q \in present' => disk'[q] # 0
                        /\ \A i \in InFlight(q)' : loads'[i].version = versions'[q] /\ loads'[i].read # Unread
                               => (loads'[i].read = 0 <=> disk'[q] = 0)
      BY DEF KnownFits
    <3>1. q \notin unheard /\ ~Told(q) /\ InFlight(q)' = InFlight(q)
      BY <1>1, <2>1, <2>3 DEF InFlight
    <3>2. /\ q \in missing => disk[q] = 0
          /\ q \in present => disk[q] # 0
          /\ \A i \in InFlight(q) : loads[i].version = versions[q] /\ loads[i].read # Unread
                 => (loads[i].read = 0 <=> disk[q] = 0)
      BY <1>2, <3>1 DEF KnownFits
    <3>3. disk[q] = 0 <=> disk'[q] = 0
      BY <1>3, <2>3
    <3> QED
      BY <1>1, <3>1, <3>2, <3>3
  <2>8. CopiesFit'
    <3> SUFFICES ASSUME NEW q \in Files, q \notin strays' PROVE CopyFits(q)'
      BY DEF CopiesFit
    <3>1. CASE q = p
      BY <2>3, <3>1, CopyIsHeard
    <3>2. CASE q # p
      BY <1>1, <1>2, <1>3, <2>1, <2>3, <3>2, CopyStays DEF CopiesFit, LoadsStay, LiveStays, HydrationStays,
         InFlight, Comes
    <3> QED
      BY <3>1, <3>2
  <2> QED
    BY <2>4, <2>5, <2>6, <2>7, <2>8 DEF ContentFits
<1>7. CASE ~connected
  <2>1. events' = events /\ strays' = strays \cup {p} /\ unheard' = unheard \cup {p} /\ events = <<>>
    BY <1>4, <1>7 DEF Announce
  <2>2. DOMAIN events = {}
    BY <2>1
  <2>3. \A q : ~Heard(q) /\ ~Heard(q)' /\ ~Told(q) /\ ~Told(q)'
    BY <2>1, <2>2 DEF Heard, Told
  <2>4. FilesTyped'
    BY <1>1, <1>2, <1>3, <2>1 DEF FilesTyped
  <2>5. ReadsAreOld'
    BY <1>1, <1>2, <1>3, <1>8 DEF ReadsAreOld
  <2>6. EventsFit'
    BY <2>1, <2>2 DEF EventsFit
  <2>7. KnownFits'
    BY <1>1, <1>2, <1>3, <2>1, <2>3, KnownStays DEF KnownFits, InFlight, LoadsStay
  <2>8. CopiesFit'
    BY <1>1, <1>2, <1>3, <2>1, <2>3, CopyStays DEF CopiesFit, LoadsStay, LiveStays, HydrationStays, InFlight, Comes
  <2> QED
    BY <2>4, <2>5, <2>6, <2>7, <2>8 DEF ContentFits
<1> QED
  BY <1>5, <1>6, <1>7

LEMMA WriteFits ==
    ASSUME ContentFits, NEW p \in Files, Write(p) PROVE ContentFits'
<1>1. FilesTyped /\ ReadsAreOld
  BY DEF ContentFits
<1>2. clock \in Nat /\ disk[p] \in Nat /\ disk[p] <= clock
  BY <1>1 DEF FilesTyped, ReadsAreOld
<1> DEFINE e == [type |-> IF disk[p] = 0 THEN "add" ELSE "change", path |-> p]
<1>3. /\ clock' = clock + 1 /\ disk' = [disk EXCEPT ![p] = clock + 1] /\ Announce(e)
      /\ UNCHANGED <<connected, contents, pending>>
  BY DEF Write
<1>4. e \in FileEvents /\ e.path = p /\ e.type # "unlink" /\ (e.type = "change" => disk[p] # 0)
  BY DEF FileEvents
<1>5. clock + 1 \in Nat /\ clock' \in Nat /\ clock' >= clock /\ clock + 1 <= clock' /\ clock + 1 >= clock
      /\ (e.type = "unlink" <=> clock + 1 = 0)
  BY <1>2, <1>3, <1>4
<1> HIDE DEF e
<1> QED
  BY <1>3, <1>4, <1>5, Announced

LEMMA DeleteFits ==
    ASSUME ContentFits, NEW p \in Files, Delete(p) PROVE ContentFits'
<1>1. FilesTyped
  BY DEF ContentFits
<1>2. clock \in Nat
  BY <1>1 DEF FilesTyped
<1> DEFINE e == [type |-> "unlink", path |-> p]
<1>3. /\ clock' = clock /\ disk' = [disk EXCEPT ![p] = 0] /\ Announce(e)
      /\ UNCHANGED <<connected, contents, pending>>
  BY DEF Delete
<1>4. e \in FileEvents /\ e.path = p /\ e.type = "unlink" /\ ~(e.type = "change")
  BY DEF FileEvents
<1>5. 0 \in Nat /\ clock' \in Nat /\ clock' >= clock /\ 0 <= clock' /\ ~(0 > 0)
  BY <1>2, <1>3
<1> HIDE DEF e
<1> QED
  BY <1>3, <1>4, <1>5, Announced

LEMMA DisconnectFits ==
    ASSUME ContentFits, Disconnect PROVE ContentFits'
<1>1. FilesTyped /\ ReadsAreOld /\ KnownFits /\ CopiesFit
  BY DEF ContentFits
<1>2. /\ connected' = FALSE /\ events' = <<>> /\ disk' = disk /\ clock' = clock
      /\ strays' = strays \cup {events[i].path : i \in DOMAIN events}
      /\ unheard' = unheard \cup {events[i].path : i \in DOMAIN events}
      /\ cache' = cache /\ missing' = missing /\ present' = present
      /\ loads' = loads /\ versions' = versions /\ timers' = timers /\ live' = live
      /\ hydration' = hydration /\ requests' = requests
  BY DEF Disconnect, contents, pending
<1>3. DOMAIN events' = {} /\ events' \in Seq(FileEvents)
  BY <1>2
<1>4. FilesTyped'
  BY <1>1, <1>2, <1>3 DEF FilesTyped
<1>5. ReadsAreOld'
  BY <1>1, <1>2 DEF ReadsAreOld, OldAs
<1>6. EventsFit'
  BY <1>3 DEF EventsFit
<1>7. \A q : LoadsStay(q) /\ LiveStays(q) /\ HydrationStays(q)
  BY <1>2 DEF LoadsStay, LiveStays, HydrationStays, InFlight
<1>8. KnownFits'
  BY <1>1, <1>2, <1>7, KnownStays DEF KnownFits, Told
<1>9. CopiesFit'
  BY <1>1, <1>2, <1>7, CopyStays DEF CopiesFit, Heard, Comes
<1> QED
  BY <1>4, <1>5, <1>6, <1>8, <1>9 DEF ContentFits

\* What is shown is about to be refreshed: no refresh under way is believed.
LEMMA CopyIsDue ==
    ASSUME NEW p \in Files, CopyFits(p), p \in timers', FilesTyped,
           disk'[p] = disk[p], p \in missing => p \in missing', cache'[p] = cache[p],
           Heard(p)' \/ (Heard(p) => Heard(p)'), live' = live, requests'[p] = requests[p] + 1,
           LoadsStay(p), HydrationStays(p)
    PROVE  CopyFits(p)'
<1>1. \A r \in live' : ~(r.path = p /\ r.version = requests'[p])
  BY DEF FilesTyped
<1>2. CASE Heard(p)'
  BY <1>2, CopyIsHeard
<1>3. CASE Heard(p) => Heard(p)'
  <2>1. LiveStays(p)
    BY <1>1 DEF LiveStays
  <2> QED
    BY <1>3, <2>1, CopyStays
<1> QED
  BY <1>2, <1>3

LEMMA ActiveAre ==
    ASSUME LayoutOK(layout) PROVE Active \subseteq Files
<1>1. layout.panes \in Seq(Panes)
  BY DEF LayoutOK, Layouts
<1>2. \A i \in DOMAIN layout.panes : layout.panes[i] \in Panes
  BY <1>1
<1>3. \A pane \in Panes : pane.active \in Files \cup {NoPath}
  BY DEF Panes
<1> QED
  BY <1>2, <1>3 DEF Active, ActivePaths

LEMMA ReconnectFits ==
    ASSUME ContentFits, LayoutOK(layout), Reconnect PROVE ContentFits'
<1>1. FilesTyped /\ ReadsAreOld /\ EventsFit /\ KnownFits /\ CopiesFit
  BY DEF ContentFits
<1>2. /\ connected' = TRUE /\ events' = events /\ disk' = disk /\ clock' = clock
      /\ strays' = strays /\ unheard' = unheard
      /\ cache' = cache /\ missing' = missing /\ present' = present
      /\ loads' = loads /\ versions' = versions /\ timers' = timers \cup Active /\ live' = live
      /\ hydration' = hydration
      /\ requests' = [p \in Files |-> IF p \in Active THEN requests[p] + 1 ELSE requests[p]]
  BY DEF Reconnect, contents
<1>3. Active \subseteq Files
  BY ActiveAre
<1>4. FilesTyped'
  <2>1. requests' \in [Files -> Nat] /\ \A p \in Files : requests[p] <= requests'[p]
    BY <1>1, <1>2 DEF FilesTyped
  <2>2. \A r \in live' : r.version <= requests'[r.path]
    BY <1>1, <1>2, <2>1, ReadsAre DEF FilesTyped
  <2> QED
    BY <1>1, <1>2, <1>3, <2>1, <2>2 DEF FilesTyped
<1>5. ReadsAreOld'
  BY <1>1, <1>2 DEF ReadsAreOld, OldAs
<1>6. EventsFit'
  BY <1>1, <1>2 DEF EventsFit
<1>7. KnownFits'
  BY <1>1, <1>2 DEF KnownFits, Told, InFlight
<1>8. CopiesFit'
  <2> SUFFICES ASSUME NEW q \in Files, q \notin strays' PROVE CopyFits(q)'
    BY DEF CopiesFit
  <2>1. CopyFits(q) /\ LoadsStay(q) /\ HydrationStays(q) /\ (Heard(q)' <=> Heard(q))
    BY <1>1, <1>2 DEF CopiesFit, LoadsStay, HydrationStays, InFlight, Heard
  <2>2. CASE q \in Active
    BY <1>1, <1>2, <2>1, <2>2, CopyIsDue
  <2>3. CASE q \notin Active
    BY <1>2, <2>1, <2>3, CopyStays DEF LiveStays, Comes
  <2> QED
    BY <2>2, <2>3
<1> QED
  BY <1>4, <1>5, <1>6, <1>7, <1>8 DEF ContentFits

-----------------------------------------------------------------------------
(* Events received *)

LEMMA HeardBefore ==
    ASSUME events \in Seq(FileEvents), events # <<>>, events' = Tail(events)
    PROVE  /\ events' \in Seq(FileEvents) /\ Len(events) \in Nat /\ 1 \in DOMAIN events /\ Head(events) = events[1]
           /\ DOMAIN events = 1..Len(events) /\ DOMAIN events' = 1..(Len(events) - 1)
           /\ \A i \in DOMAIN events' : i + 1 \in DOMAIN events /\ events'[i] = events[i + 1]
           /\ \A i \in DOMAIN events : i = 1 \/ (i - 1 \in DOMAIN events' /\ events[i] = events'[i - 1])
           /\ \A q : q # Head(events).path => (Heard(q)' <=> Heard(q)) /\ (Told(q)' <=> Told(q))
           /\ Head(events) \in FileEvents
           /\ Head(events).type = "change" => \A q : Told(q)' <=> Told(q)
<1>1. /\ DOMAIN events = 1..Len(events) /\ Len(events) \in Nat /\ Len(events) # 0 /\ Head(events) = events[1]
      /\ events' \in Seq(FileEvents) /\ DOMAIN events' = 1..(Len(events) - 1)
      /\ \A i \in 1..(Len(events) - 1) : events'[i] = events[i + 1]
  OBVIOUS
<1>2. 1 \in DOMAIN events /\ \A i \in DOMAIN events' : i + 1 \in DOMAIN events /\ events'[i] = events[i + 1]
  BY <1>1
<1>3. \A i \in DOMAIN events : i = 1 \/ (i - 1 \in DOMAIN events' /\ events[i] = events'[i - 1])
  BY <1>1
<1>7. ASSUME NEW q, Heard(q)' PROVE Heard(q)
  BY <1>2, <1>7 DEF Heard
<1>8. ASSUME NEW q, Told(q)' PROVE Told(q)
  BY <1>2, <1>8 DEF Told
<1>9. ASSUME NEW q, q # Head(events).path, Heard(q) PROVE Heard(q)'
  BY <1>1, <1>3, <1>9 DEF Heard
<1>10. ASSUME NEW q, Told(q), q # Head(events).path \/ Head(events).type = "change" PROVE Told(q)'
  BY <1>1, <1>3, <1>10 DEF Told
<1>4. \A q : q # Head(events).path => (Heard(q)' <=> Heard(q)) /\ (Told(q)' <=> Told(q))
  BY <1>7, <1>8, <1>9, <1>10
<1>5. Head(events).type = "change" => \A q : Told(q)' <=> Told(q)
  BY <1>8, <1>10
<1>6. Head(events) \in FileEvents
  OBVIOUS
<1> QED
  BY <1>1, <1>2, <1>3, <1>4, <1>5, <1>6

LEMMA FirstEvent ==
    ASSUME events \in Seq(FileEvents), events # <<>>, events' = Tail(events), EventsFit,
           NEW e \in FileEvents, e = Head(events)
    PROVE  /\ e.type = "unlink" /\ ~Told(e.path)' => disk[e.path] = 0
           /\ e.type = "add" /\ ~Told(e.path)' => disk[e.path] # 0
           /\ e.type = "change" /\ ~Heard(e.path)' => disk[e.path] # 0
<1> DEFINE later == {j \in DOMAIN events : j > 1 /\ events[j].path = e.path}
<1>1. /\ 1 \in DOMAIN events /\ e = events[1]
      /\ \A i \in DOMAIN events : i = 1 \/ (i - 1 \in DOMAIN events' /\ events[i] = events'[i - 1])
  BY HeardBefore
<1>2. IF e.type = "change" THEN later = {} => disk[e.path] # 0
      ELSE (\A j \in later : events[j].type = "change") => (e.type = "unlink" <=> disk[e.path] = 0)
  BY <1>1 DEF EventsFit
<1>3. \A j \in later : /\ j - 1 \in DOMAIN events' /\ events[j] = events'[j - 1]
                      /\ events[j].path = e.path
  BY <1>1
<1>4. e.type \in {"add", "change", "unlink"}
  BY DEF FileEvents
<1> HIDE DEF later
<1>5. ~Told(e.path)' => \A j \in later : events[j].type = "change"
  BY <1>3 DEF Told
<1>6. ~Heard(e.path)' => later = {}
  BY <1>3 DEF Heard
<1> QED
  BY <1>2, <1>4, <1>5, <1>6

LEMMA EventsGo ==
    ASSUME events \in Seq(FileEvents), events # <<>>, events' = Tail(events), EventsFit, disk' = disk
    PROVE  EventsFit'
<1> SUFFICES ASSUME NEW i \in DOMAIN events'
             PROVE  LET x == events'[i]
                        later == {j \in DOMAIN events' : j > i /\ events'[j].path = x.path}
                    IN  IF x.type = "change" THEN later = {} => disk'[x.path] # 0
                        ELSE (\A j \in later : events'[j].type = "change")
                                 => (x.type = "unlink" <=> disk'[x.path] = 0)
  BY DEF EventsFit
<1> DEFINE x == events'[i]
           after == {j \in DOMAIN events : j > i + 1 /\ events[j].path = x.path}
           later == {j \in DOMAIN events' : j > i /\ events'[j].path = x.path}
<1>1. /\ \A j \in DOMAIN events' : j + 1 \in DOMAIN events /\ events'[j] = events[j + 1]
      /\ \A j \in DOMAIN events : j = 1 \/ (j - 1 \in DOMAIN events' /\ events[j] = events'[j - 1])
      /\ DOMAIN events = 1..Len(events) /\ DOMAIN events' = 1..(Len(events) - 1) /\ Len(events) \in Nat
  BY HeardBefore
<1>2. IF x.type = "change" THEN after = {} => disk[x.path] # 0
      ELSE (\A j \in after : events[j].type = "change") => (x.type = "unlink" <=> disk[x.path] = 0)
  BY <1>1 DEF EventsFit
<1>3. \A j \in after : j - 1 \in later /\ events'[j - 1] = events[j]
  BY <1>1
<1>4. later = {} => after = {}
  BY <1>3
<1>5. (\A j \in later : events'[j].type = "change") => \A j \in after : events[j].type = "change"
  BY <1>3
<1> HIDE DEF x, later, after
<1>6. IF x.type = "change" THEN later = {} => disk'[x.path] # 0
      ELSE (\A j \in later : events'[j].type = "change") => (x.type = "unlink" <=> disk'[x.path] = 0)
  BY <1>2, <1>4, <1>5
<1> QED
  BY <1>6 DEF x, later

\* What receiving an event does to the files.
Receives(e) ==
    /\ events # <<>> /\ events' = Tail(events) /\ e = Head(events)
    /\ disk' = disk /\ clock' = clock /\ connected' = connected /\ connected
    /\ loads' = loads /\ live' = live /\ hydration' = hydration /\ unheard' = unheard
    /\ e.type # "change" => versions' = [versions EXCEPT ![e.path] = IF InFlight(e.path) # {} THEN @ + 1 ELSE @]
    /\ e.type = "change" => versions' = versions /\ missing' = missing /\ present' = present
    /\ e.type = "add" => missing' = missing \ {e.path} /\ present' = present \cup {e.path}
    /\ e.type = "unlink" => missing' = missing \cup {e.path} /\ present' = present \ {e.path}
    /\ e.type = "change" /\ e.path \notin Active => cache' = [cache EXCEPT ![e.path] = None]
    /\ e.type # "change" \/ e.path \in Active => cache' = cache
    /\ e.type = "unlink" \/ e.path \notin Active => timers' = timers /\ requests' = requests
    /\ e.type # "unlink" /\ e.path \in Active =>
           timers' = timers \cup {e.path} /\ requests' = [requests EXCEPT ![e.path] = @ + 1]
    /\ strays \subseteq strays'
    /\ e.path \notin strays' => ~LeftBehind(e)

LEMMA ReceiveIs ==
    ASSUME Receive, NEW e, e = Head(events), e \in FileEvents PROVE Receives(e)
  BY DEF FileEvents, Receive, Outdated, Refresh, ScheduleLiveFileRefresh, Receives

LEMMA ReceiveFits ==
    ASSUME ContentFits, Receive PROVE ContentFits'
<1>1. FilesTyped /\ ReadsAreOld /\ EventsFit /\ KnownFits /\ CopiesFit
  BY DEF ContentFits
<1>2. events \in Seq(FileEvents) /\ events # <<>> /\ events' = Tail(events) /\ disk' = disk
  BY <1>1 DEF Receive, FilesTyped
<1>3. Head(events) \in FileEvents
  BY <1>2
<1>4. PICK e \in FileEvents : e = Head(events)
  BY <1>3
<1> DEFINE p == e.path
<1>5. Receives(e)
  BY <1>4, ReceiveIs
<1>6. p \in Files /\ e.type \in {"add", "change", "unlink"}
  BY DEF FileEvents
<1>7. EventsFit' /\ events' \in Seq(FileEvents)
  BY <1>1, <1>2, EventsGo, HeardBefore
<1>8. /\ \A q : q # p => (Heard(q)' <=> Heard(q)) /\ (Told(q)' <=> Told(q))
      /\ e.type = "change" => \A q : Told(q)' <=> Told(q)
  BY <1>2, <1>4, HeardBefore
<1>9. /\ e.type = "unlink" /\ ~Told(p)' => disk[p] = 0
      /\ e.type = "add" /\ ~Told(p)' => disk[p] # 0
      /\ e.type = "change" /\ ~Heard(p)' => disk[p] # 0
  BY <1>1, <1>2, <1>4, FirstEvent
<1>10. ~Heard(p)' => ~Told(p)'
  BY DEF Heard, Told
<1>11. /\ versions' \in [Files -> Nat] /\ requests' \in [Files -> Nat]
       /\ \A q \in Files : versions[q] <= versions'[q] /\ requests[q] <= requests'[q]
       /\ \A q \in Files : q # p => versions'[q] = versions[q] /\ requests'[q] = requests[q]
       /\ e.type # "change" /\ InFlight(p) # {} => versions'[p] = versions[p] + 1
       /\ InFlight(p) = {} => versions'[p] = versions[p]
       /\ p \in Active /\ e.type # "unlink" => requests'[p] = requests[p] + 1 /\ p \in timers'
  <2>1. versions \in [Files -> Nat] /\ requests \in [Files -> Nat]
    BY <1>1 DEF FilesTyped
  <2>2. versions' = versions \/ (e.type # "change" /\ InFlight(p) # {} /\ versions' = [versions EXCEPT ![p] = versions[p] + 1])
    BY <1>5, <1>6, <2>1 DEF Receives
  <2>3. e.type # "change" /\ InFlight(p) # {} => versions' = [versions EXCEPT ![p] = versions[p] + 1]
    BY <1>5 DEF Receives
  <2>4. InFlight(p) = {} => versions'[p] = versions[p]
    BY <2>2
  <2>5. /\ versions' \in [Files -> Nat] /\ \A q \in Files : versions[q] <= versions'[q]
        /\ \A q \in Files : q # p => versions'[q] = versions[q]
        /\ e.type # "change" /\ InFlight(p) # {} => versions'[p] = versions[p] + 1
    BY <1>6, <2>1, <2>2, <2>3
  <2>6. requests' = requests \/ requests' = [requests EXCEPT ![p] = requests[p] + 1]
    BY <1>5 DEF Receives
  <2>7. p \in Active /\ e.type # "unlink" =>
            p \in timers' /\ requests' = [requests EXCEPT ![p] = requests[p] + 1]
    BY <1>5 DEF Receives
  <2>8. /\ requests' \in [Files -> Nat] /\ \A q \in Files : requests[q] <= requests'[q]
        /\ \A q \in Files : q # p => requests'[q] = requests[q]
        /\ p \in Active /\ e.type # "unlink" => requests'[p] = requests[p] + 1 /\ p \in timers'
    BY <1>6, <2>1, <2>6, <2>7
  <2> QED
    BY <2>4, <2>5, <2>8
<1>12. /\ cache' \in [Files -> Nat \cup {None}] /\ timers' \subseteq Files
       /\ \A q \in Files : q # p => /\ cache'[q] = cache[q] /\ (q \in timers' <=> q \in timers)
                                    /\ (q \in missing' <=> q \in missing)
                                    /\ (q \in present' <=> q \in present)
       /\ missing' \subseteq Files /\ present' \subseteq Files /\ missing' \cap present' = {}
  BY <1>1, <1>5, <1>6 DEF FilesTyped, Receives
<1>13. /\ loads' = loads /\ live' = live /\ hydration' = hydration /\ unheard' = unheard
       /\ clock' = clock /\ connected' = connected /\ connected = TRUE /\ strays \subseteq strays'
  BY <1>1, <1>5 DEF Receives, FilesTyped
<1>14. \A i \in DOMAIN loads : loads[i].path \in Files /\ loads[i].version \in Nat /\ loads[i].version <= versions[loads[i].path]
  BY <1>1, ReadsAre DEF FilesTyped
<1>15. \A r \in live : r.path \in Files /\ r.version \in Nat /\ r.version <= requests[r.path]
  BY <1>1, ReadsAre DEF FilesTyped
<1>16. FilesTyped'
  <2>1. \A i \in DOMAIN loads' : loads'[i].version > 0 /\ loads'[i].version <= versions'[loads'[i].path]
    BY <1>1, <1>11, <1>13, <1>14 DEF FilesTyped
  <2>2. \A r \in live' : r.version <= requests'[r.path]
    BY <1>1, <1>11, <1>13, <1>15 DEF FilesTyped
  <2>3. \A q \in Files : versions'[q] > 0 => \E i \in DOMAIN loads' : loads'[i].path = q
    <3> SUFFICES ASSUME NEW q \in Files, versions'[q] > 0 PROVE \E i \in DOMAIN loads : loads[i].path = q
      BY <1>13
    <3>1. InFlight(q) # {} \/ versions'[q] = versions[q]
      BY <1>11
    <3> QED
      BY <1>1, <3>1 DEF FilesTyped, InFlight
  <2>4. /\ disk' \in [Files -> Nat] /\ clock' \in Nat /\ connected' \in BOOLEAN
        /\ loads' \in Seq(Loads) /\ live' \subseteq Refreshes /\ hydration' \subseteq Fetches
    BY <1>1, <1>2, <1>13 DEF FilesTyped
  <2> QED
    BY <1>7, <1>11, <1>12, <1>13, <2>1, <2>2, <2>3, <2>4 DEF FilesTyped
<1>17. ReadsAreOld'
  BY <1>1, <1>2, <1>13 DEF ReadsAreOld, OldAs
<1>18. InFlight(p)' = InFlight(p) /\ (e.type # "change" => \A i \in InFlight(p) : loads[i].version # versions'[p])
  <2>1. InFlight(p)' = InFlight(p)
    BY <1>13 DEF InFlight
  <2>2. ASSUME NEW i \in InFlight(p), e.type # "change" PROVE loads[i].version # versions'[p]
    BY <1>1, <1>6, <1>11, <1>14, <2>2 DEF InFlight, FilesTyped
  <2> QED
    BY <2>1, <2>2
<1> HIDE DEF p
<1>19. \A q \in Files : q # p => LoadsStay(q) /\ LiveStays(q) /\ HydrationStays(q)
  BY <1>11, <1>13 DEF LoadsStay, LiveStays, HydrationStays, InFlight
<1>20. KnownFits'
  <2> SUFFICES ASSUME NEW q \in Files, q \notin unheard', ~Told(q)'
               PROVE  /\ q \in missing' => disk'[q] = 0
                      /\ q \in present' => disk'[q] # 0
                      /\ \A i \in InFlight(q)' : loads'[i].version = versions'[q] /\ loads'[i].read # Unread
                             => (loads'[i].read = 0 <=> disk'[q] = 0)
    BY DEF KnownFits
  <2>1. CASE q # p
    BY <1>1, <1>2, <1>8, <1>12, <1>13, <1>19, <2>1, KnownStays
  <2>2. CASE q = p /\ e.type = "change"
    BY <1>1, <1>2, <1>5, <1>8, <1>13, <2>2, KnownStays DEF Receives, LoadsStay, InFlight
  <2>3. CASE q = p /\ e.type # "change"
    BY <1>2, <1>5, <1>6, <1>9, <1>13, <1>18, <2>3 DEF Receives, p
  <2> QED
    BY <2>1, <2>2, <2>3
<1>21. CopiesFit'
  <2> SUFFICES ASSUME NEW q \in Files, q \notin strays' PROVE CopyFits(q)'
    BY DEF CopiesFit
  <2>1. CASE q # p
    BY <1>1, <1>2, <1>8, <1>11, <1>12, <1>13, <1>19, <2>1, CopyStays DEF CopiesFit, Comes
  <2>2. CASE q = p /\ Heard(p)'
    BY <2>2, CopyIsHeard
  <2>3. CASE q = p /\ ~Heard(p)'
    <3>1. ~LeftBehind(e)
      BY <1>5, <2>3 DEF Receives, p
    <3>2. CASE e.type = "unlink"
      BY <1>2, <1>5, <1>9, <1>10, <1>13, <1>18, <2>3, <3>2 DEF Receives, p, KnownGone, CopyFits, Right
    <3>3. CASE e.type # "unlink" /\ p \in Active
      <4>1. disk'[p] # 0 /\ p \in timers' /\ requests'[p] = requests[p] + 1
        BY <1>2, <1>6, <1>9, <1>10, <1>11, <2>3, <3>3
      <4>2. ASSUME NEW r \in live', r.path = p PROVE r.version # requests'[p]
        BY <1>1, <1>6, <1>13, <1>15, <4>1, <4>2 DEF FilesTyped
      <4> QED
        BY <2>3, <4>1, <4>2 DEF CopyFits, Right
    <3>4. CASE e.type # "unlink" /\ p \notin Active
      BY <1>1, <1>2, <1>5, <1>6, <1>9, <1>10, <1>13, <1>18, <2>3, <3>1, <3>4 DEF LeftBehind, p, Receives,
         FilesTyped, CopyFits
    <3> QED
      BY <3>2, <3>3, <3>4
  <2> QED
    BY <2>1, <2>2, <2>3
<1> QED
  BY <1>7, <1>16, <1>17, <1>20, <1>21 DEF ContentFits

-----------------------------------------------------------------------------
(* Loads *)

\* A load is begun: nothing has been read for it yet, and those before it are believed no more.
Begun(load) ==
    /\ load \in Loads /\ load.read = Unread /\ load.version = versions[load.path] + 1
    /\ loads' = Append(loads, load)
    /\ versions' = [versions EXCEPT ![load.path] = @ + 1]
    /\ disk' = disk /\ clock' = clock /\ events' = events /\ connected' = connected /\ unheard' = unheard
    /\ cache' = cache /\ missing' = missing /\ present' = present /\ timers' = timers /\ live' = live
    /\ hydration' = hydration /\ requests' = requests /\ strays' = strays

LEMMA BegunFits ==
    ASSUME ContentFits, NEW load, Begun(load) PROVE ContentFits'
<1> DEFINE p == load.path
<1>1. FilesTyped /\ ReadsAreOld /\ EventsFit /\ KnownFits /\ CopiesFit
  BY DEF ContentFits
<1>2. /\ load \in Loads /\ load.read = Unread /\ load.version = versions[p] + 1
      /\ loads' = Append(loads, load) /\ versions' = [versions EXCEPT ![p] = @ + 1]
      /\ disk' = disk /\ clock' = clock /\ events' = events /\ connected' = connected /\ unheard' = unheard
      /\ cache' = cache /\ missing' = missing /\ present' = present /\ timers' = timers /\ live' = live
      /\ hydration' = hydration /\ requests' = requests /\ strays' = strays
  BY DEF Begun
<1>3. p \in Files
  BY <1>2 DEF Loads
<1>4. loads \in Seq(Loads) /\ versions \in [Files -> Nat] /\ disk \in [Files -> Nat] /\ clock \in Nat
  BY <1>1 DEF FilesTyped
<1>5. /\ loads' \in Seq(Loads) /\ DOMAIN loads = 1..Len(loads) /\ Len(loads) \in Nat
      /\ DOMAIN loads' = 1..(Len(loads) + 1)
      /\ \A i \in 1..Len(loads) : loads'[i] = loads[i]
      /\ loads'[Len(loads) + 1] = load
  BY <1>2, <1>4, AppendIs
<1>6. \A i \in DOMAIN loads' : loads'[i] = load \/ (i \in DOMAIN loads /\ loads'[i] = loads[i])
  BY <1>5
<1>7. Len(loads) + 1 \in DOMAIN loads' /\ \A i \in DOMAIN loads : i \in DOMAIN loads' /\ loads'[i] = loads[i]
  BY <1>5
<1>8. /\ versions' \in [Files -> Nat] /\ versions'[p] = versions[p] + 1 /\ versions[p] \in Nat
      /\ \A q \in Files : q # p => versions'[q] = versions[q]
      /\ \A q \in Files : versions[q] <= versions'[q] /\ versions[q] \in Nat /\ versions'[q] \in Nat
  BY <1>2, <1>3, <1>4
<1>9. \A i \in DOMAIN loads : /\ loads[i].path \in Files /\ loads[i].version \in Nat
                              /\ loads[i].version <= versions[loads[i].path] /\ loads[i].version > 0
  BY <1>1, ReadsAre DEF FilesTyped
<1> HIDE DEF p
<1>10. FilesTyped'
  <2>1. \A i \in DOMAIN loads' : loads'[i].version > 0 /\ loads'[i].version <= versions'[loads'[i].path]
    <3> SUFFICES ASSUME NEW i \in DOMAIN loads'
                 PROVE  loads'[i].version > 0 /\ loads'[i].version <= versions'[loads'[i].path]
      OBVIOUS
    <3>1. CASE loads'[i] = load
      BY <1>2, <1>8, <3>1 DEF p
    <3>2. CASE i \in DOMAIN loads /\ loads'[i] = loads[i]
      BY <1>8, <1>9, <3>2
    <3> QED
      BY <1>6, <3>1, <3>2
  <2>2. \A q \in Files : versions'[q] > 0 => \E i \in DOMAIN loads' : loads'[i].path = q
    <3> SUFFICES ASSUME NEW q \in Files, versions'[q] > 0 PROVE \E i \in DOMAIN loads' : loads'[i].path = q
      OBVIOUS
    <3>1. CASE q = p
      BY <1>5, <1>7, <3>1 DEF p
    <3>2. CASE q # p
      BY <1>1, <1>7, <1>8, <3>2 DEF FilesTyped
    <3> QED
      BY <3>1, <3>2
  <2> QED
    BY <1>1, <1>2, <1>5, <1>8, <2>1, <2>2 DEF FilesTyped
<1>11. ReadsAreOld'
  <2>1. OldAs(p, Unread)
    BY <1>3, <1>4 DEF OldAs, Unread
  <2>2. \A i \in DOMAIN loads' : OldAs(loads'[i].path, loads'[i].read)
    BY <1>1, <1>2, <1>6, <2>1 DEF ReadsAreOld, p
  <2> QED
    BY <1>1, <1>2, <2>2 DEF ReadsAreOld, OldAs
<1>12. EventsFit' /\ (\A q : (Heard(q)' <=> Heard(q)) /\ (Told(q)' <=> Told(q)) /\ (Comes(q)' <=> Comes(q)))
  BY <1>1, <1>2 DEF EventsFit, Heard, Told, Comes
<1>13. \A q \in Files : LoadsStay(q)
  BY <1>2, <1>6, <1>8, <1>9 DEF LoadsStay, InFlight
<1>14. \A q \in Files : LiveStays(q) /\ HydrationStays(q)
  BY <1>2 DEF LiveStays, HydrationStays
<1>15. KnownFits'
  BY <1>1, <1>2, <1>12, <1>13, KnownStays DEF KnownFits
<1>16. CopiesFit'
  BY <1>1, <1>2, <1>12, <1>13, <1>14, CopyStays DEF CopiesFit
<1> QED
  BY <1>10, <1>11, <1>12, <1>15, <1>16 DEF ContentFits

LEMMA ServeLoadFits ==
    ASSUME ContentFits, NEW i \in DOMAIN loads, ServeLoad(i) PROVE ContentFits'
<1>1. FilesTyped /\ ReadsAreOld /\ EventsFit /\ KnownFits /\ CopiesFit
  BY DEF ContentFits
<1>3. loads \in Seq(Loads) /\ disk \in [Files -> Nat] /\ clock \in Nat
  BY <1>1 DEF FilesTyped
<1>14. loads[i] \in Loads /\ loads[i].path \in Files
  BY <1>1, ReadsAre
<1>15. PICK p \in Files : p = loads[i].path
  BY <1>14
<1>16. PICK read \in Nat : read = disk[p]
  BY <1>3
<1>2. /\ loads[i].read = Unread /\ loads' = [loads EXCEPT ![i].read = disk[loads[i].path]]
      /\ versions' = versions
      /\ disk' = disk /\ clock' = clock /\ events' = events /\ connected' = connected /\ unheard' = unheard
      /\ cache' = cache /\ missing' = missing /\ present' = present /\ timers' = timers /\ live' = live
      /\ hydration' = hydration /\ requests' = requests /\ strays' = strays
  BY DEF ServeLoad, disks, contents
<1>4. loads' = [loads EXCEPT ![i] = [loads[i] EXCEPT !.read = read]]
  BY <1>2, <1>15, <1>16
<1>17. \A j \in DOMAIN loads : loads[j] \in Loads
  BY <1>1, ReadsAre
<1>18. [loads[i] EXCEPT !.read = read] \in Loads
  BY <1>14, <1>16 DEF Loads
<1>5. /\ DOMAIN loads' = DOMAIN loads /\ loads' \in Seq(Loads)
      /\ loads'[i].path = p /\ loads'[i].read = read /\ loads'[i].version = loads[i].version
      /\ \A j \in DOMAIN loads : /\ j # i => loads'[j] = loads[j]
                                 /\ loads'[j].path = loads[j].path /\ loads'[j].version = loads[j].version
  <2>1. PICK load : load = [loads[i] EXCEPT !.read = read]
    OBVIOUS
  <2>2. load \in Loads /\ load.path = p /\ load.read = read /\ load.version = loads[i].version
    BY <1>14, <1>15, <1>18, <2>1 DEF Loads
  <2>3. loads' = [loads EXCEPT ![i] = load]
    BY <1>4, <2>1
  <2>4. DOMAIN loads' = DOMAIN loads /\ loads'[i] = load /\ \A j \in DOMAIN loads : j # i => loads'[j] = loads[j]
    BY <1>3, <2>3
  <2>5. loads' \in Seq(Loads)
    BY <1>3, <2>2, <2>3
  <2> QED
    BY <1>15, <2>2, <2>4, <2>5
<1>6. FilesTyped'
  BY <1>1, <1>2, <1>5, SMTT(60) DEF FilesTyped
<1>7. ReadsAreOld'
  <2>1. OldAs(p, read)
    <3>1. disk[p] <= clock
      BY <1>1 DEF ReadsAreOld
    <3> QED
      BY <1>3, <1>15, <1>16, <3>1 DEF OldAs
  <2>2. \A j \in DOMAIN loads' : OldAs(loads'[j].path, loads'[j].read)
    BY <1>1, <1>5, <2>1 DEF ReadsAreOld
  <2> QED
    BY <1>1, <1>2, <2>2 DEF ReadsAreOld, OldAs
<1>8. EventsFit' /\ (\A q : (Heard(q)' <=> Heard(q)) /\ (Told(q)' <=> Told(q)) /\ (Comes(q)' <=> Comes(q)))
  BY <1>1, <1>2 DEF EventsFit, Heard, Told, Comes
<1>9. \A q : InFlight(q)' = InFlight(q)
  BY <1>5 DEF InFlight
<1>10. \A q \in Files : q # p => LoadsStay(q)
  BY <1>2, <1>5, <1>9, <1>15 DEF LoadsStay, InFlight
<1>11. \A q \in Files : LiveStays(q) /\ HydrationStays(q)
  BY <1>2 DEF LiveStays, HydrationStays
<1>12. KnownFits'
  <2> SUFFICES ASSUME NEW q \in Files, q \notin unheard', ~Told(q)'
               PROVE  /\ q \in missing' => disk'[q] = 0
                      /\ q \in present' => disk'[q] # 0
                      /\ \A j \in InFlight(q)' : loads'[j].version = versions'[q] /\ loads'[j].read # Unread
                             => (loads'[j].read = 0 <=> disk'[q] = 0)
    BY DEF KnownFits
  <2>1. CASE q # p
    BY <1>1, <1>2, <1>8, <1>10, <2>1, KnownStays
  <2>2. CASE q = p
    <3>1. /\ q \in missing => disk[q] = 0
          /\ q \in present => disk[q] # 0
          /\ \A j \in InFlight(q) : loads[j].version = versions[q] /\ loads[j].read # Unread
                 => (loads[j].read = 0 <=> disk[q] = 0)
      BY <1>1, <1>2, <1>8 DEF KnownFits
    <3>2. ASSUME NEW j \in InFlight(q)', loads'[j].version = versions'[q], loads'[j].read # Unread
          PROVE  loads'[j].read = 0 <=> disk'[q] = 0
      BY <1>2, <1>5, <1>9, <1>16, <2>2, <3>1, <3>2 DEF InFlight
    <3> QED
      BY <1>2, <3>1, <3>2
  <2> QED
    BY <2>1, <2>2
<1>13. CopiesFit'
  <2> SUFFICES ASSUME NEW q \in Files, q \notin strays' PROVE CopyFits(q)'
    BY DEF CopiesFit
  <2>1. CopyFits(q)
    BY <1>1, <1>2 DEF CopiesFit
  <2>2. CASE q # p
    BY <1>2, <1>8, <1>10, <1>11, <2>1, <2>2, CopyStays
  <2>3. CASE q = p
    <3>1. read = disk'[p]
      BY <1>2, <1>16
    <3>2. ASSUME NEW j \in InFlight(p)', loads'[j].read > 0
          PROVE  /\ Right(p, loads[j].read)' \/ loads'[j].read < cache'[p]
                 /\ loads'[j].version = versions'[p] /\ disk'[p] = 0 => Heard(p)'
      <4>1. CASE j = i
        BY <1>5, <3>1, <3>2, <4>1 DEF Right
      <4>2. CASE j # i
        BY <1>2, <1>5, <1>8, <1>9, <2>1, <2>3, <3>2, <4>2 DEF InFlight, CopyFits, Right, KnownGone
      <4> QED
        BY <4>1, <4>2
    <3>3. disk'[p] = 0 /\ Unasked(p) => Unasked(p)'
      BY <1>2, <1>5, <1>9, <3>1 DEF Unasked, InFlight
    <3>4. cache'[p] # None => Right(p, cache[p])'
      BY <1>2, <1>8, <2>1, <2>3 DEF CopyFits, Right, KnownGone
    <3>5. \A f \in hydration' : f.path = p /\ f.read > 0 => Right(p, f.read)' \/ f.read < cache'[p]
      BY <1>2, <1>8, <2>1, <2>3 DEF CopyFits, Right, KnownGone
    <3>6. \A r \in live' : r.path = p /\ r.version = requests'[p] /\ r.read > 0 =>
              r.read = disk'[p] \/ KnownGone(p)' \/ Heard(p)'
      BY <1>2, <1>8, <2>1, <2>3 DEF CopyFits, KnownGone
    <3>7. disk'[p] = 0 => p \in missing' \/ Heard(p)' \/ Unasked(p)'
      BY <1>2, <1>8, <2>1, <2>3, <3>3 DEF CopyFits
    <3> QED
      BY <2>3, <3>2, <3>4, <3>5, <3>6, <3>7 DEF CopyFits
  <2> QED
    BY <2>2, <2>3
<1> QED
  BY <1>6, <1>7, <1>8, <1>12, <1>13 DEF ContentFits

\* A load that is over leaves the others as they were.
LEMMA FinishedIs ==
    ASSUME FilesTyped, NEW i \in DOMAIN loads, NEW p \in Files, p = loads[i].path, Finished(i)
    PROVE  /\ loads' \in Seq(Loads) /\ versions' \in [Files -> Nat]
           /\ \A k \in DOMAIN loads' : \E j \in DOMAIN loads : j # i /\ loads'[k] = loads[j]
           /\ \A q \in Files : LoadsStay(q)
           /\ \A q \in Files : q # p => versions'[q] = versions[q]
           /\ \A k \in DOMAIN loads' : loads'[k].version > 0 /\ loads'[k].version <= versions'[loads'[k].path]
           /\ \A q \in Files : versions'[q] > 0 => \E k \in DOMAIN loads' : loads'[k].path = q
<1>1. loads \in Seq(Loads) /\ versions \in [Files -> Nat]
  BY DEF FilesTyped
<1>2. loads' = RemoveAt(loads, i) /\ versions' = [versions EXCEPT ![p] = IF InFlight(p) = {i} THEN 0 ELSE @]
  BY DEF Finished
<1>3. /\ loads' \in Seq(Loads) /\ Len(loads') = Len(loads) - 1
      /\ \A j \in 1..(Len(loads) - 1) : loads'[j] = loads[IF j < i THEN j ELSE j + 1]
  BY <1>1, <1>2, RemoveAtIs
<1>4. /\ DOMAIN loads = 1..Len(loads) /\ Len(loads) \in Nat /\ DOMAIN loads' = 1..(Len(loads) - 1) /\ i \in 1..Len(loads)
  BY <1>1, <1>3
<1>5. ASSUME NEW k \in DOMAIN loads' PROVE \E j \in DOMAIN loads : j # i /\ loads'[k] = loads[j]
  <2>1. CASE k < i
    BY <1>3, <1>4, <2>1
  <2>2. CASE ~(k < i)
    BY <1>3, <1>4, <2>2
  <2> QED
    BY <2>1, <2>2
<1>6. ASSUME NEW j \in DOMAIN loads, j # i PROVE \E k \in DOMAIN loads' : loads'[k] = loads[j]
  <2>1. CASE j < i
    BY <1>3, <1>4, <2>1
  <2>2. CASE j > i
    <3>1. j - 1 \in 1..(Len(loads) - 1) /\ ~(j - 1 < i) /\ (j - 1) + 1 = j
      BY <1>4, <2>2
    <3>2. loads'[j - 1] = loads[j]
      BY <1>3, <3>1
    <3> QED
      BY <1>4, <3>1, <3>2
  <2> QED
    BY <1>4, <1>6, <2>1, <2>2
<1>7. /\ versions' \in [Files -> Nat]
      /\ \A q \in Files : q # p => versions'[q] = versions[q]
      /\ InFlight(p) = {i} => versions'[p] = 0
      /\ InFlight(p) # {i} => versions'[p] = versions[p]
  BY <1>1, <1>2
<1>8. ASSUME NEW k \in DOMAIN loads', NEW j \in DOMAIN loads, j # i, loads'[k] = loads[j]
      PROVE  versions'[loads[j].path] = versions[loads[j].path]
  BY <1>7, <1>8, ReadsAre DEF InFlight
<1>9. \A q \in Files : LoadsStay(q)
  BY <1>5, <1>8 DEF LoadsStay, InFlight
<1>10. \A k \in DOMAIN loads' : loads'[k].version > 0 /\ loads'[k].version <= versions'[loads'[k].path]
  BY <1>5, <1>8 DEF FilesTyped
<1>11. \A q \in Files : versions'[q] > 0 => \E k \in DOMAIN loads' : loads'[k].path = q
  <2> SUFFICES ASSUME NEW q \in Files, versions'[q] > 0 PROVE \E k \in DOMAIN loads' : loads'[k].path = q
    OBVIOUS
  <2>1. versions[q] > 0 /\ (q = p => InFlight(p) # {i})
    BY <1>7
  <2>2. PICK j \in DOMAIN loads : loads[j].path = q
    BY <2>1 DEF FilesTyped
  <2>3. \E n \in DOMAIN loads : n # i /\ loads[n].path = q
    BY <2>1, <2>2 DEF InFlight
  <2> QED
    BY <1>6, <2>3
<1> QED
  BY <1>3, <1>5, <1>7, <1>9, <1>10, <1>11

LEMMA LoadedFits ==
    ASSUME ContentFits, NEW i \in DOMAIN loads, Loaded(i) PROVE ContentFits'
<1>1. FilesTyped /\ ReadsAreOld /\ EventsFit /\ KnownFits /\ CopiesFit
  BY DEF ContentFits
<1>2. loads[i] \in Loads /\ loads[i].path \in Files /\ loads[i].read \in Nat \cup {Unread} /\ loads[i].read > 0
  BY <1>1, ReadsAre DEF Loaded
<1>3. PICK p \in Files : p = loads[i].path
  BY <1>2
<1>4. PICK read \in Nat \ {0} : read = loads[i].read
  BY <1>2 DEF Unread
<1>5. /\ disk' = disk /\ clock' = clock /\ events' = events /\ connected' = connected /\ unheard' = unheard
      /\ cache' = [cache EXCEPT ![p] = read] /\ timers' = timers /\ live' = live
      /\ hydration' = hydration /\ requests' = requests
      /\ versions[p] = loads[i].version => missing' = missing \ {p} /\ present' = present \cup {p}
      /\ versions[p] # loads[i].version => missing' = missing /\ present' = present
      /\ Finished(i) /\ Followed(p, read)
  BY <1>3, <1>4 DEF Loaded, disks
<1>6. /\ loads' \in Seq(Loads) /\ versions' \in [Files -> Nat]
      /\ \A k \in DOMAIN loads' : \E j \in DOMAIN loads : j # i /\ loads'[k] = loads[j]
      /\ \A q \in Files : LoadsStay(q)
      /\ \A q \in Files : q # p => versions'[q] = versions[q]
      /\ \A k \in DOMAIN loads' : loads'[k].version > 0 /\ loads'[k].version <= versions'[loads'[k].path]
      /\ \A q \in Files : versions'[q] > 0 => \E k \in DOMAIN loads' : loads'[k].path = q
  BY <1>1, <1>3, <1>5, FinishedIs
<1>7. /\ cache' \in [Files -> Nat \cup {None}] /\ cache'[p] = read /\ cache[p] \in Nat \cup {None}
      /\ \A q \in Files : q # p => cache'[q] = cache[q]
      /\ missing' \subseteq Files /\ present' \subseteq Files /\ missing' \cap present' = {}
      /\ disk[p] \in Nat
  BY <1>1, <1>5 DEF FilesTyped
<1>8. FilesTyped'
  BY <1>1, <1>5, <1>6, <1>7 DEF FilesTyped
<1>9. ReadsAreOld'
  BY <1>1, <1>5, <1>6 DEF ReadsAreOld, OldAs
<1>10. EventsFit' /\ (\A q : (Heard(q)' <=> Heard(q)) /\ (Told(q)' <=> Told(q)) /\ (Comes(q)' <=> Comes(q)))
  BY <1>1, <1>5 DEF EventsFit, Heard, Told, Comes
<1>11. \A q \in Files : LiveStays(q) /\ HydrationStays(q)
  BY <1>5 DEF LiveStays, HydrationStays
<1>12. i \in InFlight(p)
  BY <1>3 DEF InFlight
<1>13. KnownFits'
  <2> SUFFICES ASSUME NEW q \in Files, q \notin unheard', ~Told(q)'
               PROVE  /\ q \in missing' => disk'[q] = 0
                      /\ q \in present' => disk'[q] # 0
                      /\ \A k \in InFlight(q)' : loads'[k].version = versions'[q] /\ loads'[k].read # Unread
                             => (loads'[k].read = 0 <=> disk'[q] = 0)
    BY DEF KnownFits
  <2>1. ~Told(q) /\ q \notin unheard /\ disk'[q] = disk[q]
    BY <1>5, <1>10
  <2>2. CASE q # p \/ versions[p] # loads[i].version
    BY <1>1, <1>5, <1>6, <2>1, <2>2, KnownStays
  <2>3. CASE q = p /\ versions[p] = loads[i].version
    <3>1. disk[p] # 0
      BY <1>1, <1>2, <1>4, <1>12, <2>1, <2>3 DEF KnownFits, Unread
    <3>2. q \in missing' => disk'[q] = 0
      BY <1>5, <2>3
    <3>3. ASSUME NEW k \in InFlight(q)', loads'[k].version = versions'[q], loads'[k].read # Unread
          PROVE  loads'[k].read = 0 <=> disk'[q] = 0
      BY <1>1, <1>6, <2>1, <3>3 DEF LoadsStay, KnownFits
    <3> QED
      BY <1>5, <2>3, <3>1, <3>2, <3>3
  <2> QED
    BY <2>2, <2>3
<1>14. CopiesFit'
  <2> SUFFICES ASSUME NEW q \in Files, q \notin strays' PROVE CopyFits(q)'
    BY DEF CopiesFit
  <2>1. CASE q # p
    BY <1>1, <1>5, <1>6, <1>7, <1>10, <1>11, <2>1, CopyStays DEF CopiesFit, Followed
  <2>2. CASE q = p
    <3>1. ~(read < cache[p])
      BY <1>5, <2>2 DEF Followed, Overtaken
    <3>2. cache[p] <= read /\ (\A x \in Nat \cup {Unread} : x < cache[p] => x < cache'[p])
      BY <1>4, <1>7, <3>1 DEF None, Unread
    <3>3. CASE Settled(p, read)
      <4>1. /\ read = disk[p]
            /\ \A j \in InFlight(p) : loads[j].read \in {Unread, disk[p]}
            /\ \A r \in live : r.path = p => r.read \in {Unread, disk[p]}
        BY <3>3 DEF Settled, Corrected
      <4>2. disk'[p] > 0 /\ disk'[p] = cache'[p]
        BY <1>5, <1>7, <4>1
      <4>3. ASSUME NEW k \in InFlight(p)', loads'[k].read > 0 PROVE loads'[k].read = disk'[p]
        BY <1>5, <1>6, <4>1, <4>3 DEF LoadsStay, Unread
      <4>4. ASSUME NEW f \in hydration', f.path = p, f.read > 0 PROVE f.read = disk'[p] \/ f.read < cache'[p]
        BY <1>1, <1>5, <1>7, <4>2, <4>4, ReadsAre DEF ReadsAreOld, OldAs, Unread
      <4>5. \A r \in live' : r.path = p /\ r.read > 0 => r.read = disk'[p]
        BY <1>5, <4>1 DEF Unread
      <4> QED
        BY <2>2, <4>2, <4>3, <4>4, <4>5 DEF CopyFits, Right
    <3>4. CASE ~Settled(p, read)
      <4>1. CopyFits(p)
        BY <1>1, <1>5, <2>2, <3>4 DEF Followed, CopiesFit
      <4>2. /\ Right(p, read)
            /\ loads[i].version = versions[p] /\ disk[p] = 0 => Heard(p)
            /\ disk[p] = 0 => p \in missing \/ Heard(p)
        BY <1>2, <1>4, <1>12, <3>1, <4>1 DEF Unasked, CopyFits
      <4>3. KnownGone(p) => KnownGone(p)' \/ Heard(p)'
        BY <1>5, <1>10, <4>2 DEF KnownGone
      <4>4. ASSUME NEW x, Right(p, x)
            PROVE  x = disk'[p] \/ KnownGone(p)' \/ Heard(p)' \/ p \in timers' \/ Comes(p)'
        BY <1>5, <1>10, <4>3, <4>4 DEF Right
      <4>5. cache'[p] # None => Right(p, cache[p])'
        BY <1>7, <4>2, <4>4 DEF Right
      <4>6. ASSUME NEW k \in InFlight(p)', loads'[k].read > 0
            PROVE  /\ Right(p, loads[k].read)' \/ loads'[k].read < cache'[p]
                   /\ loads'[k].version = versions'[p] /\ disk'[p] = 0 => Heard(p)'
        <5>1. PICK j \in InFlight(p) : /\ loads[j].read = loads'[k].read
                                       /\ loads'[k].version = versions'[p] => loads[j].version = versions[p]
          BY <1>6, <4>6 DEF LoadsStay, Unread
        <5>2. loads[j].read \in Nat \cup {Unread}
          BY <1>1, ReadsAre DEF InFlight
        <5>3. /\ Right(p, loads[j].read) \/ loads[j].read < cache[p]
              /\ loads[j].version = versions[p] /\ disk[p] = 0 => Heard(p)
          BY <4>1, <4>6, <5>1 DEF CopyFits
        <5>4. Right(p, loads[j].read) => Right(p, loads[k].read)'
          BY <4>4, <5>1 DEF Right
        <5> QED
          BY <1>5, <1>10, <3>2, <5>1, <5>2, <5>3, <5>4
      <4>7. ASSUME NEW f \in hydration', f.path = p, f.read > 0
            PROVE  Right(p, f.read)' \/ f.read < cache'[p]
        BY <1>1, <1>5, <3>2, <4>1, <4>4, <4>7, ReadsAre DEF CopyFits, Right
      <4>8. \A r \in live' : r.path = p /\ r.version = requests'[p] /\ r.read > 0 =>
                r.read = disk'[p] \/ KnownGone(p)' \/ Heard(p)'
        BY <1>5, <1>10, <4>1, <4>3 DEF CopyFits
      <4>9. disk'[p] = 0 => p \in missing' \/ Heard(p)'
        BY <1>5, <1>10, <4>2
      <4> QED
        BY <2>2, <4>5, <4>6, <4>7, <4>8, <4>9 DEF CopyFits
    <3> QED
      BY <3>3, <3>4
  <2> QED
    BY <2>1, <2>2
<1> QED
  BY <1>8, <1>9, <1>10, <1>13, <1>14 DEF ContentFits

LEMMA LoadFailedFits ==
    ASSUME ContentFits, NEW i \in DOMAIN loads, LoadFailed(i) PROVE ContentFits'
<1>1. FilesTyped /\ ReadsAreOld /\ EventsFit /\ KnownFits /\ CopiesFit
  BY DEF ContentFits
<1>2. loads[i].path \in Files
  BY <1>1, ReadsAre
<1>3. PICK p \in Files : p = loads[i].path
  BY <1>2
<1>4. /\ disk' = disk /\ clock' = clock /\ events' = events /\ connected' = connected /\ unheard' = unheard
      /\ cache' = cache /\ timers' = timers /\ live' = live /\ hydration' = hydration
      /\ requests' = requests /\ strays' = strays /\ Finished(i)
  BY DEF LoadFailed, disks
<1>5. \/ missing' = missing /\ present' = present
      \/ /\ loads[i].read = 0 /\ versions[p] = loads[i].version
         /\ missing' = missing \cup {p} /\ present' = present \ {p}
  BY <1>3 DEF LoadFailed
<1>6. /\ loads' \in Seq(Loads) /\ versions' \in [Files -> Nat]
      /\ \A k \in DOMAIN loads' : \E j \in DOMAIN loads : j # i /\ loads'[k] = loads[j]
      /\ \A q \in Files : LoadsStay(q)
      /\ \A q \in Files : q # p => versions'[q] = versions[q]
      /\ \A k \in DOMAIN loads' : loads'[k].version > 0 /\ loads'[k].version <= versions'[loads'[k].path]
      /\ \A q \in Files : versions'[q] > 0 => \E k \in DOMAIN loads' : loads'[k].path = q
  BY <1>1, <1>3, <1>4, FinishedIs
<1>7. missing' \subseteq Files /\ present' \subseteq Files /\ missing' \cap present' = {}
  BY <1>1, <1>5 DEF FilesTyped
<1>8. FilesTyped'
  BY <1>1, <1>4, <1>6, <1>7 DEF FilesTyped
<1>9. ReadsAreOld'
  BY <1>1, <1>4, <1>6 DEF ReadsAreOld, OldAs
<1>10. EventsFit' /\ (\A q : (Heard(q)' <=> Heard(q)) /\ (Told(q)' <=> Told(q)) /\ (Comes(q)' <=> Comes(q)))
  BY <1>1, <1>4 DEF EventsFit, Heard, Told, Comes
<1>11. \A q \in Files : LiveStays(q) /\ HydrationStays(q)
  BY <1>4 DEF LiveStays, HydrationStays
<1>12. i \in InFlight(p)
  BY <1>3 DEF InFlight
<1>13. KnownFits'
  <2> SUFFICES ASSUME NEW q \in Files, q \notin unheard', ~Told(q)'
               PROVE  /\ q \in missing' => disk'[q] = 0
                      /\ q \in present' => disk'[q] # 0
                      /\ \A k \in InFlight(q)' : loads'[k].version = versions'[q] /\ loads'[k].read # Unread
                             => (loads'[k].read = 0 <=> disk'[q] = 0)
    BY DEF KnownFits
  <2>1. ~Told(q) /\ q \notin unheard /\ disk'[q] = disk[q]
    BY <1>4, <1>10
  <2>2. CASE q \in missing' => q \in missing
    BY <1>1, <1>5, <1>6, <2>1, <2>2, KnownStays
  <2>3. CASE q \in missing' /\ q \notin missing
    <3>1. q = p /\ loads[i].read = 0 /\ versions[p] = loads[i].version /\ q \notin present'
      BY <1>5, <2>3
    <3>2. disk[p] = 0
      BY <1>1, <1>12, <2>1, <3>1 DEF KnownFits, Unread
    <3>3. ASSUME NEW k \in InFlight(q)', loads'[k].version = versions'[q], loads'[k].read # Unread
          PROVE  loads'[k].read = 0 <=> disk'[q] = 0
      BY <1>1, <1>6, <2>1, <3>3 DEF LoadsStay, KnownFits
    <3> QED
      BY <2>1, <3>1, <3>2, <3>3
  <2> QED
    BY <2>2, <2>3
<1>14. CopiesFit'
  BY <1>1, <1>4, <1>5, <1>6, <1>10, <1>11, CopyStays DEF CopiesFit
<1> QED
  BY <1>8, <1>9, <1>10, <1>13, <1>14 DEF ContentFits

-----------------------------------------------------------------------------
(* Live refreshes and the restored files *)

\* The steps that are about neither the disk, nor events, nor loads, nor what is known of a file.
Aside ==
    /\ disk' = disk /\ clock' = clock /\ events' = events /\ connected' = connected /\ unheard' = unheard
    /\ loads' = loads /\ versions' = versions /\ missing' = missing /\ present' = present
    /\ requests' = requests

LEMMA AsideFits ==
    ASSUME ContentFits, Aside
    PROVE  /\ EventsFit' /\ KnownFits'
           /\ \A q \in Files : LoadsStay(q)
           /\ \A q : (Heard(q)' <=> Heard(q)) /\ (KnownGone(q)' <=> KnownGone(q)) /\ InFlight(q)' = InFlight(q)
           /\ \A q, read : OldAs(q, read) <=> read <= clock' /\ (disk'[q] > 0 => read <= disk'[q])
  BY DEF ContentFits, Aside, EventsFit, KnownFits, Told, InFlight, LoadsStay, Heard, KnownGone, OldAs

LEMMA LiveTimerFits ==
    ASSUME ContentFits, NEW p \in Files, LiveTimer(p) PROVE ContentFits'
<1>1. FilesTyped /\ ReadsAreOld /\ CopiesFit
  BY DEF ContentFits
<1>2. PICK n \in Nat : n = requests[p]
  BY <1>1 DEF FilesTyped
<1>3. PICK r \in Refreshes : r = [path |-> p, version |-> n, read |-> Unread]
  BY DEF Refreshes
<1>4. /\ Aside /\ strays' = strays /\ cache' = cache /\ hydration' = hydration
      /\ timers' = timers \ {p} /\ live' = live \cup {r}
  BY <1>2, <1>3 DEF LiveTimer, Aside, disks, contents
<1>5. EventsFit' /\ KnownFits' /\ \A q \in Files : LoadsStay(q)
  BY <1>4, AsideFits
<1>6. FilesTyped'
  BY <1>1, <1>2, <1>3, <1>4 DEF FilesTyped, Aside
<1>7. ReadsAreOld'
  <2>1. OldAs(p, Unread)
    BY <1>1 DEF FilesTyped, OldAs, Unread
  <2> QED
    BY <1>1, <1>3, <1>4, <2>1 DEF ReadsAreOld, Aside, OldAs
<1>8. CopiesFit'
  <2> SUFFICES ASSUME NEW q \in Files, q \notin strays' PROVE CopyFits(q)'
    BY DEF CopiesFit
  <2>1. CopyFits(q)
    BY <1>1, <1>4 DEF CopiesFit
  <2>2. LiveStays(q) /\ HydrationStays(q)
    BY <1>3, <1>4 DEF LiveStays, HydrationStays, Aside, Unread
  <2>3. Comes(q) => Comes(q)'
    BY <1>4 DEF Comes, Aside
  <2>4. q \in timers => q \in timers' \/ Comes(q)'
    BY <1>2, <1>3, <1>4 DEF Comes, Aside
  <2>5. disk'[q] = disk[q] /\ (q \in missing => q \in missing') /\ (Heard(q) => Heard(q)')
    BY <1>4 DEF Aside, Heard
  <2> QED
    BY <1>4, <1>5, <2>1, <2>2, <2>3, <2>4, <2>5, CopyStays
<1> QED
  BY <1>5, <1>6, <1>7, <1>8 DEF ContentFits

LEMMA ServeLiveFits ==
    ASSUME ContentFits, NEW request \in live, ServeLive(request) PROVE ContentFits'
<1>1. FilesTyped /\ ReadsAreOld /\ CopiesFit
  BY DEF ContentFits
<1>2. live \subseteq Refreshes /\ disk \in [Files -> Nat] /\ clock \in Nat
  BY <1>1 DEF FilesTyped
<1>3. PICK p \in Files : p = request.path
  BY <1>2 DEF Refreshes
<1>4. PICK read \in Nat : read = disk[p]
  BY <1>2
<1>5. PICK r \in Refreshes : r = [path |-> p, version |-> request.version, read |-> read]
  BY <1>2 DEF Refreshes
<1>6. [request EXCEPT !.read = disk[request.path]] = r
  BY <1>2, <1>3, <1>4, <1>5 DEF Refreshes
<1>7. /\ Aside /\ strays' = strays /\ cache' = cache /\ hydration' = hydration
      /\ timers' = timers /\ live' = (live \ {request}) \cup {r} /\ request.read = Unread
  BY <1>6 DEF ServeLive, Aside, disks, contents
<1>8. r.path = p /\ r.version = request.version /\ r.read = read
  BY <1>5
<1>9. EventsFit' /\ KnownFits' /\ \A q \in Files : LoadsStay(q)
  BY <1>7, AsideFits
<1>10. \A q : (Heard(q)' <=> Heard(q)) /\ (KnownGone(q)' <=> KnownGone(q)) /\ InFlight(q)' = InFlight(q)
  BY <1>7, AsideFits
<1>11. FilesTyped'
  BY <1>1, <1>3, <1>7, <1>8 DEF FilesTyped, Aside
<1>12. ReadsAreOld'
  <2>1. OldAs(p, read)
    <3>1. disk[p] <= clock
      BY <1>1 DEF ReadsAreOld
    <3> QED
      BY <1>2, <1>4, <3>1 DEF OldAs
  <2> QED
    BY <1>1, <1>7, <1>8, <2>1 DEF ReadsAreOld, Aside, OldAs
<1>13. CopiesFit'
  <2> SUFFICES ASSUME NEW q \in Files, q \notin strays' PROVE CopyFits(q)'
    BY DEF CopiesFit
  <2>1. CopyFits(q)
    BY <1>1, <1>7 DEF CopiesFit
  <2>2. HydrationStays(q) /\ LoadsStay(q)
    BY <1>7, <1>9 DEF HydrationStays
  <2>3. disk'[q] = disk[q] /\ (q \in missing => q \in missing') /\ (Heard(q) => Heard(q)') /\ requests'[q] = requests[q]
    BY <1>7, <1>10 DEF Aside
  <2>4. CASE q # p
    BY <1>3, <1>7, <1>8, <2>1, <2>2, <2>3, <2>4, CopyStays DEF LiveStays, Comes
  <2>5. CASE q = p /\ read = 0
    <3>1. LiveStays(p)
      BY <1>7, <1>8, <2>3, <2>5 DEF LiveStays
    <3>2. CASE Heard(p)
      BY <1>10, <2>5, <3>2, CopyIsHeard
    <3>3. CASE p \in missing
      BY <1>4, <1>7, <1>10, <2>1, <2>5, <3>3 DEF KnownGone, CopyFits, Aside, Right
    <3>4. CASE Unasked(p)
      BY <1>7, <1>10, <2>5, <3>1, <3>4 DEF Unasked, LiveStays, Aside, CopyFits
    <3> QED
      BY <1>4, <2>1, <2>5, <3>2, <3>3, <3>4 DEF CopyFits
  <2>6. CASE q = p /\ read > 0
    <3>1. Comes(p) => Comes(p)'
      <4>1. ASSUME Comes(p) PROVE Comes(p)'
        BY <1>4, <1>7, <1>8, <2>3, <2>6, <4>1 DEF Comes
      <4> QED
        BY <4>1
    <3>2. \A x : Right(p, x) => x = disk'[p] \/ KnownGone(p)' \/ Heard(p)' \/ p \in timers' \/ Comes(p)'
      BY <1>7, <1>10, <2>3, <2>6, <3>1 DEF Right
    <3>3. cache'[p] # None => Right(p, cache[p])'
      BY <1>7, <2>1, <2>6, <3>2 DEF CopyFits, Right
    <3>4. ASSUME NEW k \in InFlight(p)', loads'[k].read > 0
          PROVE  /\ Right(p, loads[k].read)' \/ loads'[k].read < cache'[p]
                 /\ loads'[k].version = versions'[p] /\ disk'[p] = 0 => Heard(p)'
      BY <1>4, <1>7, <1>10, <2>1, <2>3, <2>6, <3>2, <3>4 DEF Aside, CopyFits, Right
    <3>5. ASSUME NEW f \in hydration', f.path = p, f.read > 0
          PROVE  Right(p, f.read)' \/ f.read < cache'[p]
      BY <1>7, <2>1, <2>6, <3>2, <3>5 DEF CopyFits, Right
    <3>6. \A x \in live' : x.path = p /\ x.version = requests'[p] /\ x.read > 0 =>
              x.read = disk'[p] \/ KnownGone(p)' \/ Heard(p)'
      BY <1>4, <1>7, <1>8, <1>10, <2>1, <2>3, <2>6 DEF CopyFits
    <3>7. disk'[p] # 0
      BY <1>4, <2>3, <2>6
    <3> QED
      BY <2>6, <3>3, <3>4, <3>5, <3>6, <3>7 DEF CopyFits
  <2> QED
    BY <2>4, <2>5, <2>6
<1> QED
  BY <1>9, <1>11, <1>12, <1>13 DEF ContentFits

\* The answer that is applied is right, or the file is known to be gone, or more is heard of it.
LEMMA RefreshLiveFileFits ==
    ASSUME ContentFits, NEW request \in live, RefreshLiveFile(request) PROVE ContentFits'
<1>1. FilesTyped /\ ReadsAreOld /\ CopiesFit
  BY DEF ContentFits
<1>2. live \subseteq Refreshes /\ disk \in [Files -> Nat] /\ clock \in Nat /\ cache \in [Files -> Nat \cup {None}]
  BY <1>1 DEF FilesTyped
<1>3. PICK p \in Files : p = request.path
  BY <1>2 DEF Refreshes
<1>4. PICK read \in Nat : read = request.read
  BY <1>2 DEF RefreshLiveFile, Refreshes
<1>5. /\ Aside /\ hydration' = hydration /\ timers' = timers /\ live' = live \ {request}
  BY DEF RefreshLiveFile, Aside, disks
<1>6. EventsFit' /\ KnownFits' /\ \A q \in Files : LoadsStay(q)
  BY <1>5, AsideFits
<1>7. \A q : (Heard(q)' <=> Heard(q)) /\ (KnownGone(q)' <=> KnownGone(q)) /\ InFlight(q)' = InFlight(q)
  BY <1>5, AsideFits
<1>8. /\ disk' = disk /\ missing' = missing /\ requests' = requests /\ loads' = loads /\ versions' = versions
      /\ events' = events
  BY <1>5 DEF Aside
<1>9. ReadsAreOld'
  BY <1>1, <1>5 DEF ReadsAreOld, Aside, OldAs
<1>10. \A q \in Files : LiveStays(q) /\ HydrationStays(q)
  BY <1>5, <1>8 DEF LiveStays, HydrationStays
<1>11. \A q \in Files : q # p => (Comes(q) => Comes(q)')
  BY <1>3, <1>5, <1>8 DEF Comes
<1>12. CASE ~(read > 0 /\ requests[p] = request.version)
  <2>1. cache' = cache /\ strays' = strays
    BY <1>3, <1>4, <1>12 DEF RefreshLiveFile, ShouldApplyLiveRefresh
  <2>2. FilesTyped'
    BY <1>1, <1>5, <2>1 DEF FilesTyped, Aside
  <2>3. Comes(p) => Comes(p)'
    BY <1>4, <1>5, <1>8, <1>12 DEF Unread, Comes
  <2>4. CopiesFit'
    BY <1>1, <1>5, <1>6, <1>7, <1>8, <1>10, <1>11, <2>1, <2>3, CopyStays DEF CopiesFit
  <2> QED
    BY <1>6, <1>9, <2>2, <2>4 DEF ContentFits
<1>13. CASE read > 0 /\ requests[p] = request.version
  <2>1. /\ cache' = [cache EXCEPT ![p] = read]
        /\ strays' = IF Settled(p, read) THEN strays \ {p} ELSE strays
    BY <1>3, <1>4, <1>13 DEF RefreshLiveFile, ShouldApplyLiveRefresh
  <2>2. FilesTyped'
    BY <1>1, <1>4, <1>5, <2>1 DEF FilesTyped, Aside
  <2>3. cache'[p] = read /\ \A q \in Files : q # p => cache'[q] = cache[q]
    BY <1>2, <2>1
  <2>4. CopiesFit'
    <3> SUFFICES ASSUME NEW q \in Files, q \notin strays' PROVE CopyFits(q)'
      BY DEF CopiesFit
    <3>1. CASE q # p
      BY <1>1, <1>5, <1>6, <1>7, <1>8, <1>10, <1>11, <2>1, <2>3, <3>1, CopyStays DEF CopiesFit
    <3>2. CASE q = p /\ Heard(p)
      BY <1>7, <3>2, CopyIsHeard
    <3>3. CASE q = p /\ read = disk[p] /\ (Settled(p, read) \/ CopyFits(p))
      <4>1. ASSUME NEW x \in Nat, OldAs(p, x) PROVE x = disk'[p] \/ x < cache'[p]
        BY <1>8, <1>13, <2>3, <3>3, <4>1 DEF OldAs
      <4>2. disk'[p] # 0 /\ cache'[p] = disk'[p]
        BY <1>8, <1>13, <2>3, <3>3
      <4>3. ASSUME NEW k \in InFlight(p)', loads'[k].read > 0
            PROVE  loads'[k].read = disk'[p] \/ loads'[k].read < cache'[p]
        BY <1>1, <1>8, <4>1, <4>3, ReadsAre DEF InFlight, ReadsAreOld, Unread
      <4>4. ASSUME NEW f \in hydration', f.path = p, f.read > 0
            PROVE  f.read = disk'[p] \/ f.read < cache'[p]
        BY <1>1, <1>5, <4>1, <4>4, ReadsAre DEF ReadsAreOld, Unread
      <4>5. \A x \in live' : x.path = p /\ x.version = requests'[p] /\ x.read > 0 =>
                x.read = disk'[p] \/ KnownGone(p)' \/ Heard(p)'
        BY <1>5, <1>7, <1>8, <3>3 DEF Settled, Corrected, Unread, CopyFits
      <4> QED
        BY <3>3, <4>2, <4>3, <4>4, <4>5 DEF CopyFits, Right
    <3>4. CASE q = p /\ ~Heard(p) /\ read # disk[p]
      BY <1>1, <1>3, <1>4, <1>7, <1>8, <1>13, <2>1, <3>4 DEF Settled, Corrected, CopiesFit, CopyFits, KnownGone,
         Right
    <3>5. ~Settled(p, read) /\ q = p => CopyFits(p)
      BY <1>1, <2>1 DEF CopiesFit
    <3> QED
      BY <3>1, <3>2, <3>3, <3>4, <3>5
  <2> QED
    BY <1>6, <1>9, <2>2, <2>4 DEF ContentFits
<1> QED
  BY <1>12, <1>13

LEMMA RefreshFailedFits ==
    ASSUME ContentFits, NEW request \in live, RefreshFailed(request) PROVE ContentFits'
<1>1. FilesTyped /\ ReadsAreOld /\ CopiesFit
  BY DEF ContentFits
<1>2. /\ Aside /\ hydration' = hydration /\ timers' = timers /\ live' = live \ {request} /\ cache' = cache
      /\ strays' = strays \cup {request.path}
  BY DEF RefreshFailed, Aside, disks, contents
<1>3. EventsFit' /\ KnownFits' /\ \A q \in Files : LoadsStay(q)
  BY <1>2, AsideFits
<1>4. FilesTyped'
  BY <1>1, <1>2 DEF FilesTyped, Aside
<1>5. ReadsAreOld'
  BY <1>1, <1>2 DEF ReadsAreOld, Aside, OldAs
<1>6. CopiesFit'
  BY <1>1, <1>2, <1>3, CopyStays DEF CopiesFit, LiveStays, HydrationStays, Aside, Comes, Heard
<1> QED
  BY <1>3, <1>4, <1>5, <1>6 DEF ContentFits

LEMMA ServeHydrationFits ==
    ASSUME ContentFits, NEW fetch \in hydration, ServeHydration(fetch) PROVE ContentFits'
<1>1. FilesTyped /\ ReadsAreOld /\ CopiesFit
  BY DEF ContentFits
<1>2. hydration \subseteq Fetches /\ disk \in [Files -> Nat] /\ clock \in Nat
  BY <1>1 DEF FilesTyped
<1>3. PICK p \in Files : p = fetch.path
  BY <1>2 DEF Fetches
<1>4. PICK read \in Nat : read = disk[p]
  BY <1>2
<1>5. PICK g \in Fetches : g = [path |-> p, read |-> read]
  BY DEF Fetches
<1>6. [fetch EXCEPT !.read = disk[fetch.path]] = g
  BY <1>2, <1>3, <1>4, <1>5 DEF Fetches
<1>7. /\ Aside /\ strays' = strays /\ cache' = cache /\ live' = live
      /\ timers' = timers /\ hydration' = (hydration \ {fetch}) \cup {g}
  BY <1>6 DEF ServeHydration, Aside, disks, contents
<1>8. g.path = p /\ g.read = read
  BY <1>5
<1>9. EventsFit' /\ KnownFits' /\ \A q \in Files : LoadsStay(q)
  BY <1>7, AsideFits
<1>10. \A q : (Heard(q)' <=> Heard(q)) /\ (KnownGone(q)' <=> KnownGone(q)) /\ InFlight(q)' = InFlight(q)
  BY <1>7, AsideFits
<1>11. FilesTyped'
  BY <1>1, <1>7 DEF FilesTyped, Aside
<1>12. ReadsAreOld'
  <2>1. OldAs(p, read)
    <3>1. disk[p] <= clock
      BY <1>1 DEF ReadsAreOld
    <3> QED
      BY <1>2, <1>4, <3>1 DEF OldAs
  <2> QED
    BY <1>1, <1>7, <1>8, <2>1 DEF ReadsAreOld, Aside, OldAs
<1>13. CopiesFit'
  <2> SUFFICES ASSUME NEW q \in Files, q \notin strays' PROVE CopyFits(q)'
    BY DEF CopiesFit
  <2>1. CopyFits(q)
    BY <1>1, <1>7 DEF CopiesFit
  <2>2. LiveStays(q) /\ LoadsStay(q) /\ (Comes(q) => Comes(q)')
    BY <1>7, <1>9 DEF LiveStays, Comes, Aside
  <2>3. disk'[q] = disk[q] /\ (q \in missing => q \in missing') /\ (Heard(q) => Heard(q)')
    BY <1>7, <1>10 DEF Aside
  <2>4. CASE q # p \/ read = 0
    BY <1>7, <1>8, <2>1, <2>2, <2>3, <2>4, CopyStays DEF HydrationStays
  <2>5. CASE q = p /\ read > 0
    <3>1. \A x : Right(p, x) => x = disk'[p] \/ KnownGone(p)' \/ Heard(p)' \/ p \in timers' \/ Comes(p)'
      BY <1>7, <1>10, <2>2, <2>3, <2>5 DEF Right
    <3>2. cache'[p] # None => Right(p, cache[p])'
      BY <1>7, <2>1, <2>5, <3>1 DEF CopyFits, Right
    <3>3. ASSUME NEW k \in InFlight(p)', loads'[k].read > 0
          PROVE  /\ Right(p, loads[k].read)' \/ loads'[k].read < cache'[p]
                 /\ loads'[k].version = versions'[p] /\ disk'[p] = 0 => Heard(p)'
      BY <1>4, <1>7, <1>10, <2>1, <2>3, <2>5, <3>1, <3>3 DEF Aside, CopyFits, Right
    <3>4. ASSUME NEW f \in hydration', f.path = p, f.read > 0
          PROVE  Right(p, f.read)' \/ f.read < cache'[p]
      <4>1. CASE f = g
        BY <1>4, <1>8, <2>3, <2>5, <4>1 DEF Right
      <4>2. CASE f # g
        BY <1>7, <2>1, <2>5, <3>1, <3>4, <4>2 DEF CopyFits, Right
      <4> QED
        BY <4>1, <4>2
    <3>5. \A x \in live' : x.path = p /\ x.version = requests'[p] /\ x.read > 0 =>
              x.read = disk'[p] \/ KnownGone(p)' \/ Heard(p)'
      BY <1>7, <1>10, <2>1, <2>3, <2>5 DEF CopyFits, Aside
    <3>6. disk'[p] # 0
      BY <1>4, <2>3, <2>5
    <3> QED
      BY <2>5, <3>2, <3>3, <3>4, <3>5, <3>6 DEF CopyFits
  <2> QED
    BY <1>4, <2>4, <2>5
<1> QED
  BY <1>9, <1>11, <1>12, <1>13 DEF ContentFits

LEMMA HydrateFits ==
    ASSUME ContentFits, HydrateRestoredFiles PROVE ContentFits'
<1>1. FilesTyped /\ ReadsAreOld /\ CopiesFit
  BY DEF ContentFits
<1>2. hydration \subseteq Fetches /\ cache \in [Files -> Nat \cup {None}]
  BY <1>1 DEF FilesTyped
<1>3. /\ Aside /\ live' = live /\ timers' = timers /\ hydration' = {}
  BY DEF HydrateRestoredFiles, Aside, disks
<1>4. EventsFit' /\ KnownFits' /\ \A q \in Files : LoadsStay(q)
  BY <1>3, AsideFits
<1>5. \A q : (Heard(q)' <=> Heard(q)) /\ (KnownGone(q)' <=> KnownGone(q)) /\ InFlight(q)' = InFlight(q)
  BY <1>3, AsideFits
<1>6. \A q \in Files : LiveStays(q) /\ HydrationStays(q) /\ (Comes(q) => Comes(q)')
  BY <1>3 DEF LiveStays, HydrationStays, Comes, Aside
<1>7. \A q \in Files : disk'[q] = disk[q] /\ (q \in missing => q \in missing') /\ (Heard(q) => Heard(q)')
  BY <1>3, <1>5 DEF Aside
<1>8. ReadsAreOld'
  BY <1>1, <1>3 DEF ReadsAreOld, Aside, OldAs
<1>9. CASE cache' = cache
  <2>1. strays' = strays
    BY <1>9 DEF HydrateRestoredFiles
  <2>2. FilesTyped'
    BY <1>1, <1>3, <1>9 DEF FilesTyped, Aside
  <2>3. CopiesFit'
    BY <1>1, <1>3, <1>4, <1>6, <1>7, <1>9, <2>1, CopyStays DEF CopiesFit
  <2> QED
    BY <1>4, <1>8, <2>2, <2>3 DEF ContentFits
<1>10. CASE cache' # cache
  <2> DEFINE Fetch(p) == CHOOSE fetch \in hydration : fetch.path = p
             fetched == {fetch.path : fetch \in hydration}
  <2>1. /\ \A fetch \in hydration : fetch.read > 0
        /\ cache' = [p \in Files |-> IF p \in fetched THEN Fetch(p).read ELSE cache[p]]
        /\ strays' = strays \cup {p \in fetched : Overtaken(p, Fetch(p).read)}
    BY <1>10 DEF HydrateRestoredFiles
  <2>2. \A p \in fetched : Fetch(p) \in hydration /\ Fetch(p).path = p
    OBVIOUS
  <2>3. \A p \in fetched : Fetch(p).read \in Nat /\ Fetch(p).read > 0
    BY <1>1, <2>1, <2>2, ReadsAre DEF Unread
  <2>4. fetched \subseteq Files
    BY <1>2 DEF Fetches
  <2> HIDE DEF Fetch, fetched
  <2>5. /\ \A p \in fetched : cache'[p] = Fetch(p).read
        /\ \A p \in Files \ fetched : cache'[p] = cache[p]
        /\ cache' \in [Files -> Nat \cup {None}]
    BY <1>2, <2>1, <2>3, <2>4
  <2>6. FilesTyped'
    BY <1>1, <1>3, <2>5 DEF FilesTyped, Aside
  <2>7. CopiesFit'
    <3> SUFFICES ASSUME NEW q \in Files, q \notin strays' PROVE CopyFits(q)'
      BY DEF CopiesFit
    <3>1. CopyFits(q)
      BY <1>1, <2>1 DEF CopiesFit
    <3>2. CASE q \notin fetched
      BY <1>3, <1>4, <1>6, <1>7, <2>5, <3>1, <3>2, CopyStays
    <3>3. CASE q \in fetched
      <4>1. PICK f \in hydration : f = Fetch(q) /\ f.path = q
        BY <2>2, <3>3
      <4>2. f.read \in Nat /\ f.read > 0 /\ cache'[q] = f.read /\ ~(f.read < cache[q])
        BY <2>1, <2>3, <2>5, <3>3, <4>1 DEF Overtaken
      <4>3. cache[q] \in Nat \cup {None}
        BY <1>2
      <4>4. Right(q, f.read)
        BY <3>1, <4>1, <4>2 DEF CopyFits
      <4>5. \A x : Right(q, x) => x = disk'[q] \/ KnownGone(q)' \/ Heard(q)' \/ q \in timers' \/ Comes(q)'
        BY <1>3, <1>5, <1>6, <1>7 DEF Right
      <4>6. cache'[q] # None => Right(q, cache[q])'
        BY <4>2, <4>4, <4>5 DEF Right
      <4>7. ASSUME NEW k \in InFlight(q)', loads'[k].read > 0
            PROVE  /\ Right(q, loads[k].read)' \/ loads'[k].read < cache'[q]
                   /\ loads'[k].version = versions'[q] /\ disk'[q] = 0 => Heard(q)'
        <5>1. k \in InFlight(q) /\ loads' = loads /\ versions' = versions
          BY <1>3, <1>5 DEF Aside
        <5>2. /\ Right(q, loads[k].read) \/ loads[k].read < cache[q]
              /\ loads[k].version = versions[q] /\ disk[q] = 0 => Heard(q)
          BY <3>1, <4>7, <5>1 DEF CopyFits
        <5>3. Right(q, loads[k].read) => Right(q, loads[k].read)'
          BY <4>5, <5>1 DEF Right
        <5>4. loads[k].read \in Nat \cup {Unread}
          BY <1>1, <5>1, ReadsAre DEF InFlight
        <5>5. loads[k].read < cache[q] => loads[k].read < cache'[q]
          BY <4>2, <4>3, <5>4 DEF None, Unread
        <5> QED
          BY <1>7, <5>1, <5>2, <5>3, <5>5
      <4>8. \A x \in live' : x.path = q /\ x.version = requests'[q] /\ x.read > 0 =>
                x.read = disk'[q] \/ KnownGone(q)' \/ Heard(q)'
        BY <1>3, <1>5, <1>7, <3>1 DEF CopyFits, Aside
      <4>9. disk'[q] = 0 => q \in missing' \/ Heard(q)'
        BY <1>7, <3>1, <4>1, <4>2 DEF Unasked, CopyFits
      <4> QED
        BY <1>3, <4>6, <4>7, <4>8, <4>9 DEF CopyFits
    <3> QED
      BY <3>2, <3>3
  <2> QED
    BY <1>4, <1>8, <2>6, <2>7 DEF ContentFits
<1> QED
  BY <1>9, <1>10

-----------------------------------------------------------------------------
(* Those of a sequence that are wanted *)

\* A set of natural numbers that has 0, and with each number the next one, has all of them.
LEMMA SetInduction ==
    ASSUME NEW A, 0 \in A, \A n \in Nat : n \in A => n + 1 \in A
    PROVE  Nat \subseteq A
<1> DEFINE R == OpToRel(<, Nat)
           T == Nat \ A
<1>1. IsWellFoundedOn(R, Nat)
  BY NatLessThanWellFounded DEF OpToRel
<1>2. R = {ss \in Nat \X Nat : ss[1] < ss[2]}
  BY DEF OpToRel
<1> SUFFICES ASSUME T # {} PROVE FALSE
  OBVIOUS
<1> HIDE DEF R, T
<1>3. T \subseteq Nat
  BY DEF T
<1>4. PICK n \in T : \A m \in T : ~ (<<m, n>> \in R)
  BY <1>1, <1>3, WFMin
<1>5. n \in Nat /\ n # 0 /\ n - 1 \in Nat
  BY <1>3 DEF T
<1>6. n - 1 \in A
  <2>1. <<n - 1, n>> \in R
    BY <1>5, <1>2
  <2> QED
    BY <1>4, <2>1, <1>5 DEF T
<1> QED
  BY <1>4, <1>5, <1>6 DEF T

\* The sequence q has, in their order, those of the first n elements of ss that are wanted.
Picks(ss, wanted, n, q) ==
    \E f \in [1..Len(q) -> 1..n] :
        /\ \A i, j \in 1..Len(q) : i < j => f[i] < f[j]
        /\ \A k \in 1..Len(q) : q[k] = ss[f[k]]
        /\ \A i \in 1..n : ss[i] \in wanted <=> \E k \in 1..Len(q) : f[k] = i

LEMMA PicksNext ==
    ASSUME NEW S, NEW ss \in Seq(S), NEW wanted, NEW n \in 0..(Len(ss) - 1), NEW q \in Seq(S),
           Picks(ss, wanted, n, q)
    PROVE  LET r == IF ss[n + 1] \in wanted THEN Append(q, ss[n + 1]) ELSE q
           IN  r \in Seq(S) /\ Picks(ss, wanted, n + 1, r)
<1>1. n \in Nat /\ n + 1 \in 1..Len(ss) /\ ss[n + 1] \in S /\ Len(q) \in Nat
  OBVIOUS
<1>2. PICK f \in [1..Len(q) -> 1..n] :
        /\ \A i, j \in 1..Len(q) : i < j => f[i] < f[j]
        /\ \A k \in 1..Len(q) : q[k] = ss[f[k]]
        /\ \A i \in 1..n : ss[i] \in wanted <=> \E k \in 1..Len(q) : f[k] = i
  BY DEF Picks
<1>3. CASE ss[n + 1] \in wanted
  <2> DEFINE r == Append(q, ss[n + 1])
             g == [k \in 1..(Len(q) + 1) |-> IF k = Len(q) + 1 THEN n + 1 ELSE f[k]]
  <2>1. r \in Seq(S) /\ Len(r) = Len(q) + 1 /\ r[Len(q) + 1] = ss[n + 1]
        /\ \A k \in 1..Len(q) : r[k] = q[k]
    BY <1>1
  <2> HIDE DEF r
  <2>2. \A k \in 1..Len(q) : f[k] \in 1..n
    BY <1>2
  <2>3. g \in [1..Len(r) -> 1..(n + 1)]
    BY <1>1, <2>1, <2>2
  <2>4. \A i, j \in 1..Len(r) : i < j => g[i] < g[j]
    <3> SUFFICES ASSUME NEW i \in 1..Len(r), NEW j \in 1..Len(r), i < j PROVE g[i] < g[j]
      OBVIOUS
    <3>1. i \in 1..Len(q) /\ g[i] = f[i] /\ f[i] \in 1..n
      BY <1>1, <2>1, <2>2
    <3>2. CASE j = Len(q) + 1
      BY <1>1, <2>1, <3>1, <3>2
    <3>3. CASE j # Len(q) + 1
      BY <1>1, <1>2, <2>1, <3>1, <3>3
    <3> QED
      BY <3>2, <3>3
  <2>5. \A k \in 1..Len(r) : r[k] = ss[g[k]]
    BY <1>1, <1>2, <2>1
  <2>6. \A i \in 1..(n + 1) : ss[i] \in wanted <=> \E k \in 1..Len(r) : g[k] = i
    <3> SUFFICES ASSUME NEW i \in 1..(n + 1)
                 PROVE  ss[i] \in wanted <=> \E k \in 1..Len(r) : g[k] = i
      OBVIOUS
    <3>1. CASE i = n + 1
      BY <3>1, <1>1, <1>3, <2>1
    <3>2. CASE i # n + 1
      BY <1>1, <1>2, <2>1, <3>2
    <3> QED
      BY <3>1, <3>2
  <2> HIDE DEF g
  <2>7. Picks(ss, wanted, n + 1, r)
    BY <2>3, <2>4, <2>5, <2>6 DEF Picks
  <2> QED
    BY <1>3, <2>1, <2>7 DEF r
<1>4. CASE ss[n + 1] \notin wanted
  <2>1. f \in [1..Len(q) -> 1..(n + 1)]
    BY <1>1, <1>2
  <2>2. \A k \in 1..Len(q) : f[k] # n + 1
    BY <1>1, <1>2
  <2>3. \A i \in 1..(n + 1) : ss[i] \in wanted <=> \E k \in 1..Len(q) : f[k] = i
    BY <1>1, <1>2, <1>4, <2>2
  <2>4. Picks(ss, wanted, n + 1, q)
    BY <2>1, <2>3, <1>2 DEF Picks
  <2> QED
    BY <1>4, <2>4
<1> QED
  BY <1>3, <1>4

\* Among is defined by recursion over the length; both that there is such a function and what
\* it computes are shown by induction.
LEMMA AmongPicks ==
    ASSUME NEW S, NEW ss \in Seq(S), NEW wanted
    PROVE  Among(ss, wanted) \in Seq(S) /\ Picks(ss, wanted, Len(ss), Among(ss, wanted))
<1> DEFINE Step(g, m) ==
               IF m = 0 THEN <<>> ELSE IF ss[m] \in wanted THEN Append(g[m - 1], ss[m]) ELSE g[m - 1]
           upTo == CHOOSE g : g = [m \in 0..Len(ss) |-> Step(g, m)]
           A == {n \in Nat : \E g : g = [m \in 0..n |-> Step(g, m)]}
           B == {n \in Nat : n <= Len(ss) => upTo[n] \in Seq(S) /\ Picks(ss, wanted, n, upTo[n])}
<1>0. Len(ss) \in Nat
  OBVIOUS
<1>1. Among(ss, wanted) = upTo[Len(ss)]
  BY DEF Among
<1>2. 0 \in A
  <2>1. [m \in 0..0 |-> <<>>] = [m \in 0..0 |-> Step([i \in 0..0 |-> <<>>], m)]
    OBVIOUS
  <2> QED
    BY <2>1
<1>3. \A n \in Nat : n \in A => n + 1 \in A
  <2> SUFFICES ASSUME NEW n \in Nat, n \in A PROVE n + 1 \in A
    OBVIOUS
  <2>1. PICK g : g = [m \in 0..n |-> Step(g, m)]
    OBVIOUS
  <2> DEFINE h == [m \in 0..(n + 1) |-> IF m = n + 1 THEN Step(g, m) ELSE g[m]]
  <2>2. \A m \in 0..(n + 1) : h[m] = Step(h, m)
    <3> SUFFICES ASSUME NEW m \in 0..(n + 1) PROVE h[m] = Step(h, m)
      OBVIOUS
    <3>1. m = 0 \/ (m - 1 \in 0..n /\ h[m - 1] = g[m - 1])
      OBVIOUS
    <3>2. Step(h, m) = Step(g, m)
      BY <3>1
    <3>3. m = n + 1 \/ g[m] = Step(g, m)
      <4>1. \A i \in 0..n : g[i] = [k \in 0..n |-> Step(g, k)][i]
        BY <2>1
      <4>2. \A i \in 0..n : g[i] = Step(g, i)
        BY <4>1
      <4> QED
        BY <4>2
    <3> QED
      BY <3>2, <3>3
  <2>3. h = [m \in 0..(n + 1) |-> Step(h, m)]
    BY <2>2
  <2> HIDE DEF h
  <2>4. \E k : k = [m \in 0..(n + 1) |-> Step(k, m)]
    BY <2>3
  <2>5. n + 1 \in Nat
    OBVIOUS
  <2> HIDE DEF Step
  <2> QED
    BY <2>4, <2>5
<1>4. Len(ss) \in A
  BY <1>0, <1>2, <1>3, SetInduction
<1>5. upTo = [m \in 0..Len(ss) |-> Step(upTo, m)]
  BY <1>4
<1> HIDE DEF upTo
<1>6. 0 \in B
  <2>1. upTo[0] = <<>>
    BY <1>0, <1>5
  <2>2. Len(<<>>) = 0 /\ 1..0 = {} /\ [i \in 1..0 |-> 0] \in [1..0 -> 1..0]
    OBVIOUS
  <2>3. Picks(ss, wanted, 0, <<>>)
    BY <2>2 DEF Picks
  <2>4. <<>> \in Seq(S)
    OBVIOUS
  <2> QED
    BY <2>1, <2>3, <2>4
<1>7. \A n \in Nat : n \in B => n + 1 \in B
  <2> SUFFICES ASSUME NEW n \in Nat, n \in B, n + 1 <= Len(ss)
               PROVE  upTo[n + 1] \in Seq(S) /\ Picks(ss, wanted, n + 1, upTo[n + 1])
    OBVIOUS
  <2>1. n \in 0..(Len(ss) - 1) /\ n + 1 \in 0..Len(ss) /\ n + 1 # 0 /\ (n + 1) - 1 = n
    BY <1>0
  <2>2. upTo[n] \in Seq(S) /\ Picks(ss, wanted, n, upTo[n])
    BY <1>0
  <2>3. upTo[n + 1] = Step(upTo, n + 1)
    BY <1>5, <2>1
  <2>4. upTo[n + 1] = IF ss[n + 1] \in wanted THEN Append(upTo[n], ss[n + 1]) ELSE upTo[n]
    BY <2>1, <2>3
  <2> QED
    BY <2>1, <2>2, <2>4, PicksNext
<1>8. Len(ss) \in B
  BY <1>0, <1>6, <1>7, SetInduction
<1> QED
  BY <1>0, <1>1, <1>8


\* What is left of a sequence: its elements, each at a place of its own, in their order.
LEMMA AmongIs ==
    ASSUME NEW S, NEW ss \in Seq(S), NEW wanted, NEW q, q = Among(ss, wanted)
    PROVE  /\ q \in Seq(S) /\ DOMAIN q = 1..Len(q) /\ Len(q) \in Nat
           /\ \E f \in [DOMAIN q -> DOMAIN ss] : /\ \A i, j \in DOMAIN q : f[i] = f[j] => i = j
                                              /\ \A k \in DOMAIN q : q[k] = ss[f[k]]
           /\ \A k \in DOMAIN q : q[k] \in wanted /\ q[k] \in S
           /\ \A i \in DOMAIN ss : ss[i] \in wanted => \E k \in DOMAIN q : q[k] = ss[i]
           /\ ToSet(q) = ToSet(ss) \cap wanted
<1>1. q \in Seq(S) /\ Picks(ss, wanted, Len(ss), q)
  BY AmongPicks
<1>2. DOMAIN ss = 1..Len(ss) /\ Len(ss) \in Nat /\ DOMAIN q = 1..Len(q) /\ Len(q) \in Nat
  BY <1>1
<1>3. PICK f \in [DOMAIN q -> DOMAIN ss] :
          /\ \A i, j \in DOMAIN q : i < j => f[i] < f[j]
          /\ \A k \in DOMAIN q : q[k] = ss[f[k]]
          /\ \A i \in DOMAIN ss : ss[i] \in wanted <=> \E k \in DOMAIN q : f[k] = i
  <2>1. PICK f \in [1..Len(q) -> 1..Len(ss)] :
            /\ \A i, j \in 1..Len(q) : i < j => f[i] < f[j]
            /\ \A k \in 1..Len(q) : q[k] = ss[f[k]]
            /\ \A i \in 1..Len(ss) : ss[i] \in wanted <=> \E k \in 1..Len(q) : f[k] = i
    BY <1>1 DEF Picks
  <2>2. 1..Len(q) = DOMAIN q /\ 1..Len(ss) = DOMAIN ss
    BY <1>2
  <2>3. f \in [DOMAIN q -> DOMAIN ss]
    BY <2>1, <2>2
  <2>4. /\ \A i, j \in DOMAIN q : i < j => f[i] < f[j]
        /\ \A k \in DOMAIN q : q[k] = ss[f[k]]
    BY <2>1, <2>2
  <2>5. \A i \in DOMAIN ss : ss[i] \in wanted <=> \E k \in DOMAIN q : f[k] = i
    BY <2>1, <2>2
  <2> QED
    BY <2>3, <2>4, <2>5
<1>4. ASSUME NEW i \in DOMAIN q, NEW j \in DOMAIN q, f[i] = f[j] PROVE i = j
  <2>1. f[i] \in Nat /\ f[j] \in Nat /\ i \in Nat /\ j \in Nat
    BY <1>2, <1>3
  <2>2. ~(i < j) /\ ~(j < i)
    BY <1>3, <1>4, <2>1
  <2> QED
    BY <2>1, <2>2
<1>5. \A k \in DOMAIN q : f[k] \in DOMAIN ss /\ q[k] = ss[f[k]] /\ q[k] \in wanted
  BY <1>3
<1>6. \A k \in DOMAIN q : q[k] \in S
  BY <1>1
<1>7. \A i \in DOMAIN ss : ss[i] \in wanted => \E k \in DOMAIN q : q[k] = ss[i]
  BY <1>3
<1>8. ToSet(q) = ToSet(ss) \cap wanted
  BY <1>5, <1>7, ToSetIs
<1> QED
  BY <1>1, <1>2, <1>3, <1>4, <1>5, <1>6, <1>7, <1>8

LEMMA WithoutIs ==
    ASSUME NEW S, NEW ss \in Seq(S), NEW unwanted, NEW q, q = Without(ss, unwanted)
    PROVE  /\ q \in Seq(S) /\ DOMAIN q = 1..Len(q) /\ Len(q) \in Nat
           /\ \E f \in [DOMAIN q -> DOMAIN ss] : /\ \A i, j \in DOMAIN q : f[i] = f[j] => i = j
                                              /\ \A k \in DOMAIN q : q[k] = ss[f[k]]
           /\ \A k \in DOMAIN q : q[k] \notin unwanted /\ q[k] \in S /\ q[k] \in ToSet(ss)
           /\ \A i \in DOMAIN ss : ss[i] \notin unwanted => \E k \in DOMAIN q : q[k] = ss[i]
<1>1. PICK wanted : wanted = ToSet(ss) \ unwanted
  OBVIOUS
<1>2. q = Among(ss, wanted)
  BY <1>1 DEF Without
<1>3. /\ q \in Seq(S) /\ DOMAIN q = 1..Len(q) /\ Len(q) \in Nat
      /\ \E f \in [DOMAIN q -> DOMAIN ss] : /\ \A i, j \in DOMAIN q : f[i] = f[j] => i = j
                                         /\ \A k \in DOMAIN q : q[k] = ss[f[k]]
      /\ \A k \in DOMAIN q : q[k] \in wanted /\ q[k] \in S
      /\ \A i \in DOMAIN ss : ss[i] \in wanted => \E k \in DOMAIN q : q[k] = ss[i]
  BY <1>2, AmongIs
<1>4. \A i \in DOMAIN ss : ss[i] \in ToSet(ss)
  BY ToSetIs
<1> QED
  BY <1>1, <1>3, <1>4

-----------------------------------------------------------------------------
(* Tabs *)

\* Tabs that come from other tabs, each from one of its own: a preview from a preview of its pane.
LEMMA TabsFrom ==
    ASSUME NEW ts, TabsOK(ts), NEW us \in Seq(Tabs), NEW f \in [DOMAIN us -> DOMAIN ts],
           \A i, j \in DOMAIN us : f[i] = f[j] => i = j,
           \A i \in DOMAIN us : us[i].preview => ts[f[i]].preview /\ ts[f[i]].pane = us[i].pane
    PROVE  TabsOK(us)
  BY DEF TabsOK

LEMMA AmongTabs ==
    ASSUME NEW ts, TabsOK(ts), NEW wanted PROVE TabsOK(Among(ts, wanted))
<1>1. ts \in Seq(Tabs)
  BY DEF TabsOK
<1>2. PICK q : q = Among(ts, wanted)
  OBVIOUS
<1>3. q \in Seq(Tabs)
  BY <1>1, <1>2, AmongIs
<1>4. PICK f \in [DOMAIN q -> DOMAIN ts] : /\ \A i, j \in DOMAIN q : f[i] = f[j] => i = j
                                          /\ \A k \in DOMAIN q : q[k] = ts[f[k]]
  BY <1>1, <1>2, AmongIs, SMTT(60)
<1> QED
  BY <1>2, <1>3, <1>4, TabsFrom

LEMMA WithoutTabs ==
    ASSUME NEW ts, TabsOK(ts), NEW unwanted PROVE TabsOK(Without(ts, unwanted))
  BY AmongTabs DEF Without

\* Tabs that change in their places.
LEMMA MappedTabs ==
    ASSUME NEW ts, TabsOK(ts), NEW us, us = [i \in DOMAIN ts |-> us[i]],
           \A i \in DOMAIN ts : us[i] \in Tabs /\ (us[i].preview => ts[i].preview /\ us[i].pane = ts[i].pane)
    PROVE  TabsOK(us)
<1>1. ts \in Seq(Tabs) /\ DOMAIN ts = 1..Len(ts) /\ Len(ts) \in Nat
  BY DEF TabsOK
<1>2. us \in Seq(Tabs) /\ DOMAIN us = DOMAIN ts
  BY <1>1
<1>3. PICK f \in [DOMAIN us -> DOMAIN ts] : \A i \in DOMAIN us : f[i] = i
  <2>1. [i \in DOMAIN us |-> i] \in [DOMAIN us -> DOMAIN ts]
    BY <1>2
  <2> QED
    BY <2>1
<1> QED
  BY <1>2, <1>3, TabsFrom

LEMMA MarkedTabs ==
    ASSUME NEW ts, TabsOK(ts), NEW p, NEW changed \in BOOLEAN, NEW removed \in BOOLEAN
    PROVE  TabsOK(MarkTab(ts, p, changed, removed))
<1>1. PICK us : us = MarkTab(ts, p, changed, removed)
  OBVIOUS
<1>2. us = [i \in DOMAIN ts |-> IF ts[i].path = p THEN [ts[i] EXCEPT !.changed = changed, !.removed = removed]
                               ELSE ts[i]]
  BY <1>1 DEF MarkTab, MapTabs
<1>3. us = [i \in DOMAIN ts |-> us[i]]
  BY <1>2
<1>4. \A i \in DOMAIN ts : ts[i] \in Tabs
  BY DEF TabsOK
<1>5. \A tab \in Tabs : [tab EXCEPT !.changed = changed, !.removed = removed] \in Tabs
         /\ [tab EXCEPT !.changed = changed, !.removed = removed].preview = tab.preview
         /\ [tab EXCEPT !.changed = changed, !.removed = removed].pane = tab.pane
  BY DEF Tabs
<1>6. \A i \in DOMAIN ts : us[i] \in Tabs /\ us[i].preview = ts[i].preview /\ us[i].pane = ts[i].pane
  BY <1>2, <1>4, <1>5
<1>7. TabsOK(us)
  BY <1>3, <1>6, MappedTabs
<1> QED
  BY <1>1, <1>7

LEMMA PromotedTabs ==
    ASSUME NEW ts, TabsOK(ts), NEW p, NEW pane PROVE TabsOK(PromoteOpenTab(ts, p, pane))
<1>1. PICK us : us = PromoteOpenTab(ts, p, pane)
  OBVIOUS
<1>2. us = [i \in DOMAIN ts |-> IF Is(ts[i], p, pane) THEN [ts[i] EXCEPT !.preview = FALSE] ELSE ts[i]]
  BY <1>1 DEF PromoteOpenTab, MapTabs
<1>3. us = [i \in DOMAIN ts |-> us[i]]
  BY <1>2
<1>4. \A i \in DOMAIN ts : ts[i] \in Tabs
  BY DEF TabsOK
<1>5. \A tab \in Tabs : [tab EXCEPT !.preview = FALSE] \in Tabs /\ ~[tab EXCEPT !.preview = FALSE].preview
  BY DEF Tabs
<1>6. \A i \in DOMAIN ts : us[i] \in Tabs /\ (us[i].preview => ts[i].preview /\ us[i].pane = ts[i].pane)
  BY <1>2, <1>4, <1>5
<1>7. TabsOK(us)
  BY <1>3, <1>6, MappedTabs
<1> QED
  BY <1>1, <1>7

LEMMA MinIs ==
    ASSUME NEW I, I \subseteq Nat, I # {} PROVE Min(I) \in I /\ \A y \in I : Min(I) <= y
<1> DEFINE R == OpToRel(<, Nat)
<1>1. IsWellFoundedOn(R, Nat)
  BY NatLessThanWellFounded DEF OpToRel
<1>2. R = {ss \in Nat \X Nat : ss[1] < ss[2]}
  BY DEF OpToRel
<1> HIDE DEF R
<1>3. PICK x \in I : \A y \in I : ~ (<<y, x>> \in R)
  BY <1>1, WFMin
<1>4. \A y \in I : x <= y
  <2> SUFFICES ASSUME NEW y \in I, ~(x <= y) PROVE FALSE
    OBVIOUS
  <2>1. x \in Nat /\ y \in Nat /\ y < x
    OBVIOUS
  <2>2. <<y, x>> \in R
    BY <1>2, <2>1
  <2> QED
    BY <1>3, <2>2
<1> QED
  BY <1>4 DEF Min

\* Where the first of a sequence is that is looked for.
Earliest(I) == IF I # {} THEN Min(I) ELSE 0

LEMMA EarliestIs ==
    ASSUME NEW I, I \subseteq Nat \ {0}
    PROVE  Earliest(I) \in Nat /\ (Earliest(I) = 0 <=> I = {}) /\ (I # {} => Earliest(I) \in I)
  BY MinIs DEF Earliest

LEMMA InsertAtIs ==
    ASSUME NEW T, NEW s \in Seq(T), NEW i \in 1..(Len(s) + 1), NEW e \in T, NEW t, t = InsertAt(s, i, e)
    PROVE  /\ t \in Seq(T) /\ Len(t) = Len(s) + 1 /\ DOMAIN t = 1..(Len(s) + 1) /\ i \in DOMAIN t
           /\ t[i] = e
           /\ \A j \in DOMAIN t : j < i => j \in DOMAIN s /\ t[j] = s[j]
           /\ \A j \in DOMAIN t : j > i => j - 1 \in DOMAIN s /\ t[j] = s[j - 1]
<1> DEFINE front == SubSeq(s, 1, i - 1)
           back == SubSeq(s, i, Len(s))
<1>1. Len(s) \in Nat /\ i \in Nat /\ DOMAIN s = 1..Len(s) /\ i >= 1 /\ i <= Len(s) + 1
  OBVIOUS
<1>2. front \in Seq(T) /\ Len(front) = i - 1 /\ \A j \in 1..(i - 1) : front[j] = s[j]
  BY <1>1
<1>3. back \in Seq(T) /\ Len(back) = Len(s) - i + 1 /\ \A j \in 1..(Len(s) - i + 1) : back[j] = s[i + j - 1]
  BY <1>1
<1>4. t = (front \o <<e>>) \o back
  BY DEF InsertAt
<1> HIDE DEF front, back
<1> DEFINE u == front \o <<e>>
<1>5. u \in Seq(T) /\ Len(u) = i /\ u[i] = e /\ \A j \in 1..(i - 1) : u[j] = s[j]
  <2>1. u \in Seq(T) /\ Len(u) = Len(front) + 1
    BY <1>2
  <2>2. \A j \in 1..(Len(front) + 1) : u[j] = IF j <= Len(front) THEN front[j] ELSE e
    BY <1>2
  <2> HIDE DEF u
  <2> QED
    BY <1>1, <1>2, <2>1, <2>2
<1> HIDE DEF u
<1>6. t \in Seq(T) /\ Len(t) = Len(u) + Len(back)
      /\ (\A j \in 1..Len(u) : t[j] = u[j])
      /\ \A k \in (Len(u) + 1)..(Len(u) + Len(back)) : t[k] = back[k - Len(u)]
  <2>1. t = u \o back
    BY <1>4 DEF u
  <2>2. u \in Seq(T) /\ back \in Seq(T)
    BY <1>3, <1>5
  <2> QED
    BY <2>1, <2>2
<1>7. Len(t) = Len(s) + 1 /\ DOMAIN t = 1..(Len(s) + 1) /\ i \in DOMAIN t
  BY <1>1, <1>3, <1>5, <1>6
<1>8. t[i] = e
  BY <1>1, <1>3, <1>5, <1>6
<1>9. ASSUME NEW j \in DOMAIN t, j < i PROVE j \in DOMAIN s /\ t[j] = s[j]
  BY <1>1, <1>3, <1>5, <1>6, <1>7, <1>9
<1>10. ASSUME NEW j \in DOMAIN t, j > i PROVE j - 1 \in DOMAIN s /\ t[j] = s[j - 1]
  BY <1>1, <1>3, <1>5, <1>6, <1>7, <1>10
<1> QED
  BY <1>6, <1>7, <1>8, <1>9, <1>10

\* A tab that is put among others is the only preview of its pane, if it is one.
LEMMA InsertedTab ==
    ASSUME NEW ts, TabsOK(ts), NEW tab \in Tabs, NEW n \in 1..(Len(ts) + 1),
           tab.preview => \A k \in DOMAIN ts : ts[k].preview => ts[k].pane # tab.pane
    PROVE  TabsOK(InsertAt(ts, n, tab))
<1>1. ts \in Seq(Tabs)
  BY DEF TabsOK
<1>2. PICK us : us = InsertAt(ts, n, tab)
  OBVIOUS
<1>3. /\ us \in Seq(Tabs) /\ us[n] = tab /\ DOMAIN us = 1..(Len(ts) + 1) /\ Len(ts) \in Nat /\ n \in Nat
      /\ \A j \in DOMAIN us : j < n => j \in DOMAIN ts /\ us[j] = ts[j]
      /\ \A j \in DOMAIN us : j > n => j - 1 \in DOMAIN ts /\ us[j] = ts[j - 1]
  BY <1>1, <1>2, InsertAtIs
<1>4. \A j, k \in DOMAIN ts : ts[j].preview /\ ts[k].preview /\ ts[j].pane = ts[k].pane => j = k
  BY DEF TabsOK
<1> DEFINE from(j) == IF j < n THEN j ELSE j - 1
<1>5. \A j \in DOMAIN us : j # n => from(j) \in DOMAIN ts /\ us[j] = ts[from(j)]
  BY <1>3
<1>6. \A j, k \in DOMAIN us : j # n /\ k # n /\ from(j) = from(k) => j = k
  BY <1>3
<1> HIDE DEF from
<1>7. ASSUME NEW j \in DOMAIN us, NEW k \in DOMAIN us, us[j].preview, us[k].preview, us[j].pane = us[k].pane
      PROVE  j = k
  <2>1. CASE j = n /\ k # n
    BY <1>3, <1>5, <1>7, <2>1
  <2>2. CASE j # n /\ k = n
    BY <1>3, <1>5, <1>7, <2>2
  <2>3. CASE j # n /\ k # n
    BY <1>4, <1>5, <1>6, <1>7, <2>3
  <2> QED
    BY <2>1, <2>2, <2>3
<1>8. TabsOK(us)
  BY <1>3, <1>7 DEF TabsOK
<1> QED
  BY <1>2, <1>8

LEMMA AppendedTab ==
    ASSUME NEW ts, TabsOK(ts), NEW tab \in Tabs,
           tab.preview => \A k \in DOMAIN ts : ts[k].preview => ts[k].pane # tab.pane
    PROVE  TabsOK(Append(ts, tab))
  BY AppendIs DEF TabsOK

LEMMA UpsertedTabs ==
    ASSUME NEW ts, TabsOK(ts), NEW p \in Files, NEW pane \in Nat, NEW mode \in Modes
    PROVE  TabsOK(UpsertOpenTab(ts, p, pane, mode))
<1> DEFINE opened == Tab(p, pane, mode = "preview")
           I == {i \in 1..Len(ts) : ts[i].pane = pane /\ ts[i].preview}
           previous == Earliest(I)
           fresh == [i \in DOMAIN ts |->
                        IF ~Is(ts[i], p, pane) THEN ts[i]
                        ELSE [ts[i] EXCEPT !.changed = FALSE, !.removed = FALSE,
                                           !.preview = mode # "normal" /\ ts[i].preview]]
<1>1. /\ ts \in Seq(Tabs) /\ DOMAIN ts = 1..Len(ts) /\ Len(ts) \in Nat
      /\ \A i \in DOMAIN ts : ts[i] \in Tabs
  BY DEF TabsOK
<1>2. opened \in Tabs /\ opened.pane = pane /\ (opened.preview <=> mode = "preview")
  BY DEF Tab, Tabs, Modes
<1>3. UpsertOpenTab(ts, p, pane, mode) =
          IF \E i \in DOMAIN ts : Is(ts[i], p, pane) THEN fresh
          ELSE IF mode = "preview" /\ previous # 0 THEN [ts EXCEPT ![previous] = opened]
          ELSE Append(ts, opened)
  BY DEF UpsertOpenTab, First, SelectInSeq, MapTabs, Earliest
<1>4. TabsOK(fresh)
  <2>1. \A tab \in Tabs :
            LET new == [tab EXCEPT !.changed = FALSE, !.removed = FALSE, !.preview = mode # "normal" /\ tab.preview]
            IN  new \in Tabs /\ new.pane = tab.pane /\ (new.preview => tab.preview)
    BY DEF Tabs
  <2>2. \A i \in DOMAIN ts : fresh[i] \in Tabs /\ (fresh[i].preview => ts[i].preview /\ fresh[i].pane = ts[i].pane)
    BY <1>1, <2>1
  <2>3. fresh = [i \in DOMAIN ts |-> fresh[i]]
    OBVIOUS
  <2> HIDE DEF fresh
  <2> QED
    BY <2>2, <2>3, MappedTabs
<1>5. /\ previous = 0 <=> I = {}
      /\ previous # 0 => previous \in DOMAIN ts /\ ts[previous].pane = pane /\ ts[previous].preview
  <2>1. I \subseteq Nat \ {0}
    BY <1>1
  <2>2. previous \in Nat /\ (previous = 0 <=> I = {}) /\ (I # {} => previous \in I)
    BY <2>1, EarliestIs
  <2> QED
    BY <1>1, <2>2
<1>6. (I = {}) => \A k \in DOMAIN ts : ts[k].preview => ts[k].pane # opened.pane
  BY <1>1, <1>2
<1> HIDE DEF opened, I, fresh
<1>7. CASE mode = "preview" /\ previous # 0
  <2> DEFINE us == [ts EXCEPT ![previous] = opened]
  <2>1. us = [i \in DOMAIN ts |-> us[i]]
    OBVIOUS
  <2>2. \A i \in DOMAIN ts : us[i] \in Tabs /\ (us[i].preview => ts[i].preview /\ us[i].pane = ts[i].pane)
    BY <1>1, <1>2, <1>5, <1>7
  <2> HIDE DEF us
  <2>3. TabsOK(us)
    BY <2>1, <2>2, MappedTabs
  <2> QED
    BY <1>3, <1>4, <1>7, <2>3 DEF us
<1>8. CASE ~(mode = "preview" /\ previous # 0)
  BY <1>2, <1>3, <1>4, <1>5, <1>6, <1>8, AppendedTab
<1> QED
  BY <1>7, <1>8

LEMMA MovedTabs ==
    ASSUME NEW ts, TabsOK(ts), NEW p, NEW from, NEW to \in Nat, NEW before
    PROVE  TabsOK(MoveOpenTab(ts, p, from, to, before))
<1> DEFINE I == {i \in 1..Len(ts) : Is(ts[i], p, from)}
           found == Earliest(I)
           moved == [ts[found] EXCEPT !.pane = to]
           others == Without(ts, {tab \in ToSet(ts) : Is(tab, p, from)})
           rest == IF moved.preview THEN Without(others, {tab \in In(others, to) : tab.preview}) ELSE others
           J == {i \in 1..Len(rest) : Is(rest[i], before, to)}
           index == Earliest(J)
<1>1. MoveOpenTab(ts, p, from, to, before) =
          IF found = 0 THEN ts
          ELSE IF before = NoPath \/ index = 0 THEN Append(rest, moved)
          ELSE InsertAt(rest, index, moved)
  BY DEF MoveOpenTab, First, SelectInSeq, Earliest
<1>2. CASE found = 0
  BY <1>1, <1>2
<1>3. CASE found # 0
  <2>1. ts \in Seq(Tabs) /\ DOMAIN ts = 1..Len(ts) /\ Len(ts) \in Nat
    BY DEF TabsOK
  <2>2. I \subseteq Nat \ {0} /\ I \subseteq DOMAIN ts
    BY <2>1
  <2>3. found \in DOMAIN ts
    BY <1>3, <2>2, EarliestIs
  <2>4. ts[found] \in Tabs
    BY <2>1, <2>3
  <2>5. moved \in Tabs /\ moved.pane = to
    BY <2>4 DEF Tabs
  <2>6. TabsOK(others)
    BY WithoutTabs
  <2> HIDE DEF I, moved, others
  <2>7. TabsOK(rest)
    BY <2>6, WithoutTabs
  <2>8. moved.preview => \A k \in DOMAIN rest : rest[k].preview => rest[k].pane # moved.pane
    BY <2>5, <2>6, WithoutIs DEF TabsOK, In
  <2> HIDE DEF rest
  <2>9. index \in Nat /\ (index # 0 => index \in 1..(Len(rest) + 1))
    BY <2>7, EarliestIs DEF TabsOK
  <2> HIDE DEF J
  <2>10. TabsOK(Append(rest, moved))
    BY <2>5, <2>7, <2>8, AppendedTab
  <2>11. index # 0 => TabsOK(InsertAt(rest, index, moved))
    BY <2>5, <2>7, <2>8, <2>9, InsertedTab
  <2> QED
    BY <1>1, <1>3, <2>10, <2>11
<1> QED
  BY <1>2, <1>3

\* What is left of the tabs when some are closed.
LeftOK(left) == TabsOK(left.tabs) /\ left.active \in Files \cup {NoPath}

LEMMA PathsAre ==
    ASSUME NEW ts, TabsOK(ts), NEW pane
    PROVE  /\ TabsOK(InPane(ts, pane)) /\ FirstPath(ts) \in Files \cup {NoPath}
           /\ Paths(ts) \subseteq Files /\ Paths(InPane(ts, pane)) \subseteq Files
           /\ FirstPath(InPane(ts, pane)) \in Files \cup {NoPath}
           /\ \A i \in DOMAIN ts : ts[i].path \in Files
           /\ \A i \in DOMAIN InPane(ts, pane) : InPane(ts, pane)[i].path \in Files
<1>1. ASSUME NEW us, TabsOK(us)
      PROVE  /\ FirstPath(us) \in Files \cup {NoPath} /\ Paths(us) \subseteq Files
             /\ \A i \in DOMAIN us : us[i].path \in Files
  <2>1. us \in Seq(Tabs) /\ DOMAIN us = 1..Len(us) /\ Len(us) \in Nat
    BY <1>1 DEF TabsOK
  <2>2. \A i \in DOMAIN us : us[i].path \in Files
    <3>1. \A i \in DOMAIN us : us[i] \in Tabs
      BY <2>1
    <3> QED
      BY <3>1 DEF Tabs
  <2>3. us # <<>> => 1 \in DOMAIN us
    BY <2>1
  <2> QED
    BY <2>2, <2>3 DEF FirstPath, Paths
<1>2. TabsOK(InPane(ts, pane))
  BY AmongTabs DEF InPane
<1>3. PICK us : us = InPane(ts, pane)
  OBVIOUS
<1>4. TabsOK(us)
  BY <1>2, <1>3
<1> QED
  BY <1>1, <1>2, <1>3, <1>4

LEMMA ClosedTabs ==
    ASSUME NEW ts, TabsOK(ts), NEW p, NEW active \in Files \cup {NoPath}, NEW pane
    PROVE  /\ LeftOK(CloseOpenTab(ts, p, active, pane)) /\ LeftOK(CloseOtherOpenTabs(ts, active, pane))
           /\ LeftOK(CloseTabsToRight(ts, active, pane)) /\ LeftOK(CloseUnchangedTabs(ts, active, pane))
           /\ LeftOK(ClosePreviewTabs(ts, active, pane))
<1>1. ASSUME NEW us, TabsOK(us), NEW x \in Files \cup {NoPath} PROVE LeftOK(Left(us, x))
  BY <1>1 DEF LeftOK, Left
<1>2. \A unwanted : TabsOK(Without(ts, unwanted))
  BY WithoutTabs
<1>3. LeftOK(CloseOpenTab(ts, p, active, pane))
  BY <1>1, <1>2, PathsAre DEF CloseOpenTab
<1>4. LeftOK(CloseOtherOpenTabs(ts, active, pane))
  BY <1>1, <1>2 DEF CloseOtherOpenTabs
<1>5. LeftOK(CloseTabsToRight(ts, active, pane))
  BY <1>1, <1>2 DEF CloseTabsToRight
<1>6. \A closing : LeftOK(CloseTabsBy(ts, active, pane, closing))
  BY <1>1, <1>2, PathsAre DEF CloseTabsBy
<1> QED
  BY <1>3, <1>4, <1>5, <1>6 DEF CloseUnchangedTabs, ClosePreviewTabs

-----------------------------------------------------------------------------
(* Panes *)

Shown == Files \cup {NoPath}

LEMMA PanesAre ==
    ASSUME NEW l, LayoutOK(l)
    PROVE  /\ l.panes \in Seq(Panes) /\ l.focus \in Nat /\ l.next \in Nat
           /\ DOMAIN l.panes = 1..Len(l.panes) /\ Len(l.panes) \in Nat /\ 1 \in DOMAIN l.panes
           /\ \A i \in DOMAIN l.panes : l.panes[i] \in Panes /\ l.panes[i].id \in Nat /\ l.panes[i].active \in Shown
           /\ PaneIds(l) \subseteq Nat /\ ActivePaths(l) \subseteq Files
           /\ l = [panes |-> l.panes, focus |-> l.focus, next |-> l.next]
<1>1. l.panes \in Seq(Panes) /\ l.focus \in Nat /\ l.next \in Nat /\ l.panes # <<>>
      /\ l = [panes |-> l.panes, focus |-> l.focus, next |-> l.next]
  BY DEF LayoutOK, Layouts
<1>2. DOMAIN l.panes = 1..Len(l.panes) /\ Len(l.panes) \in Nat /\ 1 \in DOMAIN l.panes
      /\ \A i \in DOMAIN l.panes : l.panes[i] \in Panes
  BY <1>1
<1>3. \A pane \in Panes : pane.id \in Nat /\ pane.active \in Shown
  BY DEF Panes, Shown
<1>4. \A i \in DOMAIN l.panes : l.panes[i] \in Panes /\ l.panes[i].id \in Nat /\ l.panes[i].active \in Shown
  BY <1>2, <1>3
<1>5. PaneIds(l) \subseteq Nat /\ ActivePaths(l) \subseteq Files
  BY <1>4 DEF PaneIds, ActivePaths, Shown
<1> QED
  BY <1>1, <1>2, <1>4, <1>5

LEMMA PaneAtIs ==
    ASSUME NEW l, LayoutOK(l), NEW id
    PROVE  /\ PaneAt(l, id) \in Nat /\ (PaneAt(l, id) # 0 => PaneAt(l, id) \in DOMAIN l.panes)
           /\ id \in PaneIds(l) => PaneAt(l, id) \in DOMAIN l.panes /\ l.panes[PaneAt(l, id)].id = id
<1> DEFINE I == {i \in 1..Len(l.panes) : l.panes[i].id = id}
<1>1. PaneAt(l, id) = Earliest(I)
  BY DEF PaneAt, First, SelectInSeq, Earliest
<1>2. DOMAIN l.panes = 1..Len(l.panes) /\ Len(l.panes) \in Nat
  BY PanesAre
<1>3. I \subseteq Nat \ {0} /\ I \subseteq DOMAIN l.panes /\ (\A i \in I : l.panes[i].id = id)
  BY <1>2
<1>4. id \in PaneIds(l) => I # {}
  BY <1>2 DEF PaneIds
<1> HIDE DEF I
<1>5. Earliest(I) \in Nat /\ (Earliest(I) = 0 <=> I = {}) /\ (I # {} => Earliest(I) \in I)
  BY <1>3, EarliestIs
<1> QED
  BY <1>1, <1>3, <1>4, <1>5

LEMMA ShownAre ==
    ASSUME NEW l, LayoutOK(l), NEW id
    PROVE  ActiveIn(l, id) \in Shown /\ ActivePane(l) \in Panes /\ SelectedPath(l) \in Shown
<1>1. \A i \in DOMAIN l.panes : l.panes[i] \in Panes /\ l.panes[i].active \in Shown
  BY PanesAre
<1>2. ActiveIn(l, id) \in Shown
  BY <1>1, PaneAtIs DEF ActiveIn, Shown
<1>3. ActivePane(l) \in Panes
  BY <1>1, PanesAre, PaneAtIs DEF ActivePane
<1>4. SelectedPath(l) \in Shown
  BY <1>3 DEF SelectedPath, Panes, Shown
<1> QED
  BY <1>2, <1>3, <1>4

LEMMA LayoutIs ==
    ASSUME NEW panes \in Seq(Panes), panes # <<>>, NEW focus \in Nat, NEW next \in Nat,
           NEW l, l = [panes |-> panes, focus |-> focus, next |-> next]
    PROVE  LayoutOK(l)
  BY DEF LayoutOK, Layouts

LEMMA InitialIs == LayoutOK(InitialLayout) /\ ActivePaths(InitialLayout) = {}
<1>1. PICK pane : pane = [id |-> 0, active |-> NoPath]
  OBVIOUS
<1>2. pane \in Panes /\ <<pane>> \in Seq(Panes) /\ <<pane>> # <<>>
  BY <1>1 DEF Panes
<1>3. PICK l : l = InitialLayout
  OBVIOUS
<1>4. l = [panes |-> <<pane>>, focus |-> 0, next |-> 1]
  BY <1>1, <1>3 DEF InitialLayout
<1>5. LayoutOK(l)
  BY <1>2, <1>4, LayoutIs
<1>6. ActivePaths(l) = {}
  BY <1>1, <1>4 DEF ActivePaths
<1> QED
  BY <1>3, <1>5, <1>6

LEMMA SetPaneOK ==
    ASSUME NEW l, LayoutOK(l), NEW id \in Nat, NEW path \in Shown
    PROVE  LayoutOK(SetPaneActivePath(l, id, path))
<1>1. PICK panes : panes = [i \in DOMAIN l.panes |-> IF l.panes[i].id = id THEN [l.panes[i] EXCEPT !.active = path]
                                                     ELSE l.panes[i]]
  OBVIOUS
<1>2. /\ l = [panes |-> l.panes, focus |-> l.focus, next |-> l.next] /\ l.next \in Nat
      /\ DOMAIN l.panes = 1..Len(l.panes) /\ Len(l.panes) \in Nat /\ 1 \in DOMAIN l.panes
      /\ \A i \in DOMAIN l.panes : l.panes[i] \in Panes
  BY PanesAre
<1>3. \A pane \in Panes : [pane EXCEPT !.active = path] \in Panes
  BY DEF Panes, Shown
<1>4. panes \in [1..Len(l.panes) -> Panes]
  BY <1>1, <1>2, <1>3
<1>5. panes \in Seq(Panes) /\ panes # <<>>
  BY <1>2, <1>4
<1>6. PICK m : m = SetPaneActivePath(l, id, path)
  OBVIOUS
<1>7. m = [l EXCEPT !.focus = id, !.panes = panes]
  BY <1>1, <1>2, <1>6 DEF SetPaneActivePath
<1>8. m = [panes |-> panes, focus |-> id, next |-> l.next]
  BY <1>2, <1>7
<1>9. LayoutOK(m)
  BY <1>2, <1>5, <1>8, LayoutIs
<1> QED
  BY <1>6, <1>9

LEMMA SplitOK ==
    ASSUME NEW l, LayoutOK(l), NEW id, NEW placement PROVE LayoutOK(SplitEditorPane(l, id, placement))
<1> DEFINE at == PaneAt(l, id)
           new == [id |-> l.next, active |-> l.panes[at].active]
           place == IF placement = "before" THEN at ELSE at + 1
<1>1. at \in Nat /\ (at # 0 => at \in DOMAIN l.panes)
  BY PaneAtIs
<1>2. /\ l.panes \in Seq(Panes) /\ l.next \in Nat /\ DOMAIN l.panes = 1..Len(l.panes) /\ Len(l.panes) \in Nat
      /\ \A i \in DOMAIN l.panes : l.panes[i] \in Panes /\ l.panes[i].active \in Shown
  BY PanesAre
<1>3. CASE at = 0
  BY <1>3 DEF SplitEditorPane
<1>4. CASE at # 0
  <2>1. new \in Panes
    BY <1>1, <1>2, <1>4 DEF Panes, Shown
  <2>2. place \in 1..(Len(l.panes) + 1)
    BY <1>1, <1>2, <1>4
  <2>3. PICK n \in 1..(Len(l.panes) + 1), pane \in Panes : n = place /\ pane = new
    BY <2>1, <2>2
  <2>4. PICK panes : panes = InsertAt(l.panes, n, pane)
    OBVIOUS
  <2>5. panes \in Seq(Panes) /\ Len(panes) = Len(l.panes) + 1
    BY <1>2, <2>4, InsertAtIs
  <2>6. panes # <<>> /\ pane.id \in Nat /\ l.next + 1 \in Nat
    BY <1>2, <2>5 DEF Panes
  <2>7. PICK m : m = SplitEditorPane(l, id, placement)
    OBVIOUS
  <2>8. m = [panes |-> panes, focus |-> pane.id, next |-> l.next + 1]
    BY <1>4, <2>3, <2>4, <2>7 DEF SplitEditorPane
  <2>9. LayoutOK(m)
    BY <2>5, <2>6, <2>8, LayoutIs
  <2> QED
    BY <2>7, <2>9
<1> QED
  BY <1>3, <1>4

LEMMA ClosePaneOK ==
    ASSUME NEW l, LayoutOK(l), NEW id, NEW hasTabs PROVE LayoutOK(ClosePaneIfEmpty(l, id, hasTabs))
<1>1. PICK rest, unwanted : /\ unwanted = {pane \in ToSet(l.panes) : pane.id = id}
                            /\ rest = Without(l.panes, unwanted)
  OBVIOUS
<1>2. /\ l = [panes |-> l.panes, focus |-> l.focus, next |-> l.next] /\ l.next \in Nat
      /\ l.panes \in Seq(Panes)
  BY PanesAre
<1>3. rest \in Seq(Panes)
  BY <1>1, <1>2, WithoutIs
<1>4. PICK m : m = ClosePaneIfEmpty(l, id, hasTabs)
  OBVIOUS
<1>5. m = l \/ (rest # <<>> /\ m = [l EXCEPT !.panes = rest, !.focus = rest[1].id])
  BY <1>1, <1>4 DEF ClosePaneIfEmpty
<1>6. CASE rest # <<>> /\ m = [l EXCEPT !.panes = rest, !.focus = rest[1].id]
  <2>1. rest[1] \in Panes
    BY <1>3, <1>6
  <2>2. rest[1].id \in Nat
    BY <2>1 DEF Panes
  <2>3. m = [panes |-> rest, focus |-> rest[1].id, next |-> l.next]
    BY <1>2, <1>6
  <2>4. LayoutOK(m)
    BY <1>2, <1>3, <1>6, <2>2, <2>3, LayoutIs
  <2> QED
    BY <1>4, <2>4
<1> QED
  BY <1>4, <1>5, <1>6

-----------------------------------------------------------------------------
(* Sessions *)

LEMMA NextPaneNumberIs ==
    ASSUME NEW panes \in Seq(Panes), NEW m, m = NextPaneNumberFor(panes)
    PROVE  m \in Nat /\ \A i \in DOMAIN panes : panes[i].id < m
<1> DEFINE S(n) == {1} \cup {panes[i].id + 1 : i \in 1..n}
           A == {n \in Nat : n <= Len(panes) => \E x \in S(n) : \A y \in S(n) : x >= y}
<1>1. /\ DOMAIN panes = 1..Len(panes) /\ Len(panes) \in Nat
      /\ \A i \in 1..Len(panes) : panes[i] \in Panes
  OBVIOUS
<1>2. \A i \in 1..Len(panes) : panes[i].id \in Nat
  BY <1>1 DEF Panes
<1>3. 0 \in A
  <2>1. S(0) = {1}
    OBVIOUS
  <2> QED
    BY <2>1
<1> HIDE DEF S
<1>4. \A n \in Nat : n \in A => n + 1 \in A
  <2> SUFFICES ASSUME NEW n \in Nat, n \in A PROVE n + 1 \in A
    OBVIOUS
  <2> SUFFICES ASSUME n + 1 <= Len(panes) PROVE \E x \in S(n + 1) : \A y \in S(n + 1) : x >= y
    OBVIOUS
  <2>1. n <= Len(panes) /\ n + 1 \in 1..Len(panes) /\ panes[n + 1].id + 1 \in Nat
    BY <1>1, <1>2
  <2>2. PICK x \in S(n) : \A y \in S(n) : x >= y
    BY <2>1
  <2>3. S(n + 1) = S(n) \cup {panes[n + 1].id + 1}
    BY DEF S
  <2>4. \A y \in S(n + 1) : y \in Nat
    BY <1>1, <1>2, <2>1 DEF S
  <2>5. x \in S(n + 1) /\ panes[n + 1].id + 1 \in S(n + 1)
    BY <2>3
  <2>6. CASE x >= panes[n + 1].id + 1
    BY <2>2, <2>3, <2>5, <2>6
  <2>7. CASE ~(x >= panes[n + 1].id + 1)
    <3>1. \A y \in S(n) : panes[n + 1].id + 1 >= y
      BY <2>1, <2>2, <2>3, <2>4, <2>5, <2>7
    <3>2. panes[n + 1].id + 1 >= panes[n + 1].id + 1
      BY <2>1
    <3> QED
      BY <2>3, <2>5, <3>1, <3>2
  <2> QED
    BY <2>6, <2>7
<1>5. Nat \subseteq A
  <2> HIDE DEF A
  <2> QED
    BY <1>3, <1>4, SetInduction
<1>6. \E x \in S(Len(panes)) : \A y \in S(Len(panes)) : x >= y
  BY <1>1, <1>5
<1>7. S(Len(panes)) = {1} \cup {pane.id + 1 : pane \in ToSet(panes)}
  BY <1>1, ToSetIs DEF S
<1>8. m = Max(S(Len(panes)))
  BY <1>7 DEF NextPaneNumberFor
<1>9. S(Len(panes)) \subseteq Nat /\ \A i \in 1..Len(panes) : panes[i].id + 1 \in S(Len(panes))
  BY <1>2 DEF S
<1>10. m \in S(Len(panes)) /\ \A y \in S(Len(panes)) : m >= y
  BY <1>6, <1>8 DEF Max
<1>11. \A i \in 1..Len(panes) : m >= panes[i].id + 1 /\ m \in Nat
  BY <1>9, <1>10
<1> QED
  BY <1>1, <1>2, <1>9, <1>10, <1>11

\* What a session that is restored looks like.
Sound(ts, l) ==
    /\ \A i, j \in DOMAIN l.panes : l.panes[i].id = l.panes[j].id => i = j
    /\ \A i \in DOMAIN l.panes : l.panes[i].id < l.next
    /\ l.focus \in PaneIds(l)
    /\ \A i \in DOMAIN l.panes : l.panes[i].active = FirstPath(ts)
          \/ l.panes[i].active \in Paths(InPane(ts, l.panes[i].id))
Housed(ts, l) ==
    /\ \A i \in DOMAIN ts : ts[i].pane \in PaneIds(l)
    /\ \A i, j \in DOMAIN l.panes : l.panes[i].id = l.panes[j].id => i = j

LEMMA InitialIsSound == \A ts : FirstPath(ts) = NoPath => Sound(ts, InitialLayout)
  BY DEF InitialLayout, PaneIds, Sound

LEMMA SanitizedPane ==
    ASSUME NEW ts, TabsOK(ts), NEW pane \in Panes, NEW new, new = SanitizePane(pane, ts)
    PROVE  /\ new \in Panes /\ new.id = pane.id
           /\ InPane(ts, pane.id) # <<>> => new.active \in Paths(InPane(ts, new.id))
<1>1. PICK own : own = InPane(ts, pane.id)
  OBVIOUS
<1>2. TabsOK(own) /\ FirstPath(own) \in Shown
  BY <1>1, PathsAre DEF Shown
<1>3. new = IF pane.active \in Paths(own) THEN pane ELSE [pane EXCEPT !.active = FirstPath(own)]
  BY <1>1 DEF SanitizePane
<1>4. new \in Panes /\ new.id = pane.id /\ (new.active = FirstPath(own) \/ new.active \in Paths(own))
  BY <1>2, <1>3 DEF Panes, Shown
<1>5. own # <<>> => FirstPath(own) \in Paths(own)
  BY <1>2 DEF TabsOK, FirstPath, Paths
<1> QED
  BY <1>1, <1>4, <1>5

\* A pane has tabs if there is one of its own.
LEMMA InPaneIs ==
    ASSUME NEW ts, TabsOK(ts), NEW i \in DOMAIN ts PROVE InPane(ts, ts[i].pane) # <<>>
  BY ToSetIs, AmongIs DEF TabsOK, In, InPane

LEMMA SanitizedIs ==
    ASSUME NEW ts, TabsOK(ts), NEW l, LayoutOK(l), NEW m, m = SanitizeLayout(l, ts)
    PROVE  LayoutOK(m) /\ (Housed(ts, l) => Sound(ts, m))
<1>1. CASE ts = <<>>
  BY <1>1, InitialIs, InitialIsSound DEF SanitizeLayout, FirstPath
<1>2. CASE ts # <<>>
  <2>1. PICK unwanted, kept : /\ unwanted = {pane \in ToSet(l.panes) : InPane(ts, pane.id) = <<>>}
                              /\ kept = Without(l.panes, unwanted)
    OBVIOUS
  <2>2. PICK panes : panes = [i \in DOMAIN kept |-> SanitizePane(kept[i], ts)]
    OBVIOUS
  <2>3. PICK least : least = NextPaneNumberFor(panes)
    OBVIOUS
  <2>4. m = IF panes = <<>> THEN LayoutFromTabs(ts)
            ELSE [panes |-> panes,
                  focus |-> IF \E i \in DOMAIN panes : panes[i].id = l.focus THEN l.focus ELSE panes[1].id,
                  next |-> IF l.next > least THEN l.next ELSE least]
    BY <1>2, <2>1, <2>2, <2>3 DEF SanitizeLayout
  <2>5. l.panes \in Seq(Panes) /\ l.next \in Nat /\ l.focus \in Nat
        /\ \A i \in DOMAIN l.panes : l.panes[i] \in Panes /\ l.panes[i].id \in Nat
    BY PanesAre
  <2>15. PICK ps \in Seq(Panes) : ps = l.panes
    BY <2>5
  <2>16. kept = Without(ps, unwanted)
    BY <2>1, <2>15
  <2>17. /\ kept \in Seq(Panes) /\ DOMAIN kept = 1..Len(kept) /\ Len(kept) \in Nat
         /\ \A k \in DOMAIN kept : kept[k] \notin unwanted /\ kept[k] \in Panes /\ kept[k] \in ToSet(ps)
         /\ \A i \in DOMAIN ps : ps[i] \notin unwanted => \E k \in DOMAIN kept : kept[k] = ps[i]
    BY <2>16, WithoutIs
  <2>18. \E f \in [DOMAIN kept -> DOMAIN ps] : /\ \A i, j \in DOMAIN kept : f[i] = f[j] => i = j
                                            /\ \A k \in DOMAIN kept : kept[k] = ps[f[k]]
    BY <2>16, WithoutIs, SMTT(60)
  <2>6. /\ kept \in Seq(Panes) /\ DOMAIN kept = 1..Len(kept) /\ Len(kept) \in Nat
        /\ \A k \in DOMAIN kept : kept[k] \notin unwanted /\ kept[k] \in Panes /\ kept[k] \in ToSet(l.panes)
        /\ \A i \in DOMAIN l.panes : l.panes[i] \notin unwanted => \E k \in DOMAIN kept : kept[k] = l.panes[i]
    BY <2>15, <2>17
  <2>7. PICK f \in [DOMAIN kept -> DOMAIN l.panes] : /\ \A i, j \in DOMAIN kept : f[i] = f[j] => i = j
                                                     /\ \A k \in DOMAIN kept : kept[k] = l.panes[f[k]]
    BY <2>15, <2>18
  <2>8. \A k \in DOMAIN kept : InPane(ts, kept[k].id) # <<>>
    BY <2>1, <2>6
  <2>9. \A k \in DOMAIN kept : /\ panes[k] \in Panes /\ panes[k].id = kept[k].id
                               /\ panes[k].active \in Paths(InPane(ts, panes[k].id))
    BY <2>2, <2>6, <2>8, SanitizedPane
  <2>10. panes \in Seq(Panes) /\ DOMAIN panes = DOMAIN kept
    BY <2>2, <2>6, <2>9
  <2>11. least \in Nat /\ \A i \in DOMAIN panes : panes[i].id < least
    BY <2>3, <2>10, NextPaneNumberIs
  <2>12. ts \in Seq(Tabs) /\ 1 \in DOMAIN ts /\ ts[1] \in Tabs
    <3>1. ts \in Seq(Tabs)
      BY DEF TabsOK
    <3> QED
      BY <1>2, <3>1
  <2>13. CASE panes = <<>>
    <3>1. PICK pane : pane = [id |-> ts[1].pane, active |-> ts[1].path]
      OBVIOUS
    <3>2. pane \in Panes /\ <<pane>> \in Seq(Panes) /\ <<pane>> # <<>> /\ ts[1].pane \in Nat
      BY <2>12, <3>1 DEF Panes, Tabs
    <3>3. m = [panes |-> <<pane>>, focus |-> ts[1].pane, next |-> 1]
      BY <2>4, <2>13, <3>1 DEF LayoutFromTabs
    <3>4. LayoutOK(m)
      BY <3>2, <3>3, LayoutIs
    <3>5. ~Housed(ts, l)
      BY <2>1, <2>6, <2>10, <2>12, <2>13, InPaneIs DEF Housed, PaneIds
    <3> QED
      BY <3>4, <3>5
  <2>14. CASE panes # <<>>
    <3>1. 1 \in DOMAIN panes /\ \A i \in DOMAIN panes : panes[i].id \in Nat
      <4>1. \A i \in DOMAIN panes : panes[i] \in Panes
        BY <2>10
      <4> QED
        BY <2>10, <2>14, <4>1 DEF Panes
    <3>2. PICK focus : focus = IF \E i \in DOMAIN panes : panes[i].id = l.focus THEN l.focus ELSE panes[1].id
      OBVIOUS
    <3>3. PICK next : next = IF l.next > least THEN l.next ELSE least
      OBVIOUS
    <3>4. focus \in Nat /\ next \in Nat /\ next >= least /\ \E i \in DOMAIN panes : panes[i].id = focus
      BY <2>5, <2>11, <3>1, <3>2, <3>3
    <3>5. m = [panes |-> panes, focus |-> focus, next |-> next]
      BY <2>4, <2>14, <3>2, <3>3
    <3>6. LayoutOK(m)
      BY <2>10, <2>14, <3>4, <3>5, LayoutIs
    <3>7. \A i \in DOMAIN panes : panes[i].id < next
      BY <2>11, <3>1, <3>4
    <3>8. focus \in PaneIds(m)
      BY <3>4, <3>5 DEF PaneIds
    <3>9. Housed(ts, l) => \A i, j \in DOMAIN panes : panes[i].id = panes[j].id => i = j
      BY <2>7, <2>9, <2>10 DEF Housed
    <3>10. \A i \in DOMAIN panes : panes[i].active \in Paths(InPane(ts, panes[i].id))
      BY <2>9, <2>10
    <3>11. m.panes = panes /\ m.focus = focus /\ m.next = next
      BY <3>5
    <3> QED
      BY <3>6, <3>7, <3>8, <3>9, <3>10, <3>11 DEF Sound
  <2> QED
    BY <2>13, <2>14
<1> QED
  BY <1>1, <1>2

-----------------------------------------------------------------------------
(* What the user does *)

EditorFits == TabsOK(tabs) /\ LayoutOK(layout)

LEMMA TabsAre ==
    ASSUME EditorFits, NEW tab \in ToSet(tabs)
    PROVE  tab \in Tabs /\ tab.path \in Files /\ tab.pane \in Nat
<1>1. \A i \in DOMAIN tabs : tabs[i] \in Tabs
  BY DEF EditorFits, TabsOK
<1>2. tab \in Tabs
  BY <1>1, ToSetIs
<1> QED
  BY <1>2 DEF Tabs

LEMMA RestFits ==
    ASSUME ContentFits, UNCHANGED <<disks, contents, pending, strays>> PROVE ContentFits'
<1>1. FilesTyped /\ ReadsAreOld /\ CopiesFit
  BY DEF ContentFits
<1>2. /\ Aside /\ cache' = cache /\ timers' = timers /\ live' = live /\ hydration' = hydration /\ strays' = strays
  BY DEF Aside, disks, contents, pending
<1>3. EventsFit' /\ KnownFits' /\ \A q \in Files : LoadsStay(q)
  BY <1>2, AsideFits
<1>4. FilesTyped'
  BY <1>1, <1>2 DEF FilesTyped, Aside
<1>5. ReadsAreOld'
  BY <1>1, <1>2 DEF ReadsAreOld, Aside, OldAs
<1>6. CopiesFit'
  BY <1>1, <1>2, <1>3, CopyStays DEF CopiesFit, LiveStays, HydrationStays, Comes, Aside, Heard
<1> QED
  BY <1>3, <1>4, <1>5, <1>6 DEF ContentFits

LEMMA StartLoadFits ==
    ASSUME ContentFits, NEW p \in Files, NEW pane \in Nat, NEW mode \in Modes, NEW review \in BOOLEAN,
           NEW after, LayoutOK(after), StartLoad(p, pane, mode, review, after),
           UNCHANGED <<disks, contents, timers, live, hydration, requests, strays>>
    PROVE  ContentFits' /\ LayoutOK(layout')
<1>1. FilesTyped
  BY DEF ContentFits
<1>2. PICK load : load = Load(p, pane, mode, review)
  OBVIOUS
<1>3. versions[p] + 1 \in Nat
  BY <1>1 DEF FilesTyped
<1>4. load \in Loads /\ load.path = p /\ load.read = Unread /\ load.version = versions[p] + 1
  BY <1>2, <1>3 DEF Load, Loads
<1>5. Begun(load)
  BY <1>2, <1>4 DEF StartLoad, Begun, disks, contents
<1>6. ContentFits'
  BY <1>5, BegunFits
<1>7. LayoutOK(SetPaneActivePath(after, pane, p))
  BY SetPaneOK DEF Shown
<1> QED
  BY <1>6, <1>7 DEF StartLoad

LEMMA ShowNextFits ==
    ASSUME EditorFits, ContentFits, NEW left, LeftOK(left), NEW pane \in Nat, ShowNext(left, pane)
    PROVE  TabsOK(tabs') /\ LayoutOK(layout') /\ ContentFits'
<1>1. left.active \in Shown /\ TabsOK(left.tabs)
  BY DEF LeftOK, Shown
<1>2. PICK l : l = SetPaneActivePath(layout, pane, left.active)
  OBVIOUS
<1>3. LayoutOK(l)
  BY <1>1, <1>2, SetPaneOK DEF EditorFits
<1>4. PICK next : next = ClosePaneIfEmpty(l, pane, InPane(left.tabs, pane) # <<>>)
  OBVIOUS
<1>5. LayoutOK(next)
  BY <1>3, <1>4, ClosePaneOK
<1>6. /\ tabs' = left.tabs
      /\ IF left.active # NoPath /\ cache[left.active] = None
         THEN StartLoad(left.active, pane, "preserve", FALSE, next)
         ELSE layout' = next /\ UNCHANGED <<loads, versions>>
      /\ UNCHANGED <<disks, contents, timers, live, hydration, requests, strays>>
  BY <1>2, <1>4 DEF ShowNext
<1>7. CASE left.active # NoPath /\ cache[left.active] = None
  BY <1>1, <1>5, <1>6, <1>7, StartLoadFits DEF Shown, Modes
<1>8. CASE ~(left.active # NoPath /\ cache[left.active] = None)
  BY <1>1, <1>5, <1>6, <1>8, RestFits DEF pending
<1> QED
  BY <1>7, <1>8

LEMMA OpenFileFits ==
    ASSUME EditorFits, ContentFits, NEW p \in Files, NEW mode \in Modes, NEW review \in BOOLEAN,
           OpenFile(p, mode, review)
    PROVE  EditorFits' /\ ContentFits'
  BY PanesAre, StartLoadFits DEF EditorFits, OpenFile

LEMMA ActivateTabFits ==
    ASSUME EditorFits, ContentFits, NEW tab \in ToSet(tabs), ActivateTab(tab)
    PROVE  EditorFits' /\ ContentFits'
<1>1. tab.path \in Files /\ tab.pane \in Nat /\ "preserve" \in Modes
  BY TabsAre DEF Modes
<1>2. PICK after : after = layout
  OBVIOUS
<1>3. LayoutOK(after)
  BY <1>2 DEF EditorFits
<1>4. tabs' = tabs /\ UNCHANGED <<disks, contents, timers, live, hydration, requests, strays>>
  BY DEF ActivateTab
<1>5. CASE tab.removed
  BY <1>1, <1>2, <1>3, <1>4, <1>5, SetPaneOK, RestFits DEF ActivateTab, pending, Shown, EditorFits
<1>6. CASE ~tab.removed
  BY <1>1, <1>2, <1>3, <1>4, <1>6, StartLoadFits DEF ActivateTab, EditorFits
<1> QED
  BY <1>5, <1>6

LEMMA CloseTabFits ==
    ASSUME EditorFits, ContentFits, NEW tab \in ToSet(tabs), CloseTab(tab)
    PROVE  EditorFits' /\ ContentFits'
  BY TabsAre, ShownAre, ClosedTabs, ShowNextFits DEF EditorFits, Shown, CloseTab

LEMMA CloseActiveFits ==
    ASSUME EditorFits, ContentFits, CloseActive PROVE EditorFits' /\ ContentFits'
  BY PanesAre, ShownAre, ClosedTabs, ShowNextFits DEF EditorFits, Shown, CloseActive

LEMMA CleanupFits ==
    ASSUME EditorFits, ContentFits, NEW pane \in PaneIds(layout), Cleanup(pane)
    PROVE  EditorFits' /\ ContentFits'
<1>1. PICK active : active = ActiveIn(layout, pane)
  OBVIOUS
<1>2. active \in Files \cup {NoPath} /\ pane \in Nat
  BY <1>1, ShownAre, PanesAre DEF EditorFits, Shown
<1>3. PICK left : /\ left \in {CloseOtherOpenTabs(tabs, active, pane), CloseTabsToRight(tabs, active, pane),
                               CloseUnchangedTabs(tabs, active, pane), ClosePreviewTabs(tabs, active, pane)}
                  /\ ShowNext(left, pane)
  BY <1>1 DEF Cleanup
<1>4. LeftOK(left)
  BY <1>2, <1>3, ClosedTabs DEF EditorFits
<1> QED
  BY <1>2, <1>3, <1>4, ShowNextFits DEF EditorFits

LEMMA MoveTabFits ==
    ASSUME EditorFits, ContentFits, NEW tab \in ToSet(tabs), NEW pane \in PaneIds(layout), NEW before,
           MoveTab(tab, pane, before)
    PROVE  EditorFits' /\ ContentFits'
<1>1. tab.path \in Files /\ pane \in Nat /\ "preserve" \in Modes
  BY TabsAre, PanesAre DEF EditorFits, Modes
<1>2. PICK next : next = SetPaneActivePath(layout, pane, tab.path)
  OBVIOUS
<1>3. LayoutOK(next)
  BY <1>1, <1>2, SetPaneOK DEF EditorFits, Shown
<1>4. TabsOK(tabs')
  BY <1>1, MovedTabs DEF EditorFits, MoveTab
<1>5. UNCHANGED <<disks, contents, timers, live, hydration, requests, strays>>
  BY DEF MoveTab
<1>6. CASE cache[tab.path] = None
  BY <1>1, <1>2, <1>3, <1>4, <1>5, <1>6, StartLoadFits DEF MoveTab, EditorFits
<1>7. CASE cache[tab.path] # None
  BY <1>2, <1>3, <1>4, <1>5, <1>7, RestFits DEF MoveTab, pending, EditorFits
<1> QED
  BY <1>6, <1>7

LEMMA SplitTabFits ==
    ASSUME EditorFits, ContentFits, NEW tab \in ToSet(tabs), NEW pane, NEW placement,
           SplitTab(tab, pane, placement)
    PROVE  EditorFits' /\ ContentFits'
<1>1. tab.path \in Files /\ layout.next \in Nat /\ "normal" \in Modes
  BY TabsAre, PanesAre DEF EditorFits, Modes
<1>2. PICK l : l = SplitEditorPane(layout, pane, placement)
  OBVIOUS
<1>3. LayoutOK(l)
  BY <1>2, SplitOK DEF EditorFits
<1>4. PICK next : next = SetPaneActivePath(l, layout.next, tab.path)
  OBVIOUS
<1>5. LayoutOK(next)
  BY <1>1, <1>3, <1>4, SetPaneOK DEF Shown
<1>6. UNCHANGED <<disks, contents, timers, live, hydration, requests, strays>>
  BY DEF SplitTab
<1>7. CASE cache[tab.path] # None
  BY <1>1, <1>2, <1>4, <1>5, <1>6, <1>7, UpsertedTabs, RestFits DEF SplitTab, pending, EditorFits
<1>8. CASE cache[tab.path] = None
  BY <1>1, <1>2, <1>4, <1>5, <1>6, <1>8, StartLoadFits DEF SplitTab, EditorFits
<1> QED
  BY <1>7, <1>8

LEMMA PromoteTabFits ==
    ASSUME EditorFits, ContentFits, NEW tab, PromoteTab(tab) PROVE EditorFits' /\ ContentFits'
  BY PromotedTabs, RestFits DEF EditorFits, PromoteTab

LEMMA FocusPaneFits ==
    ASSUME EditorFits, ContentFits, NEW pane \in PaneIds(layout), FocusPane(pane)
    PROVE  EditorFits' /\ ContentFits'
  BY PanesAre, LayoutIs, RestFits DEF EditorFits, LayoutOK, FocusPane

-----------------------------------------------------------------------------
(* The page *)

LEMMA SessionIs ==
    ASSUME NEW ts, TabsOK(ts), NEW l, LayoutOK(l),
           NEW s, s = RestoreWorkspaceSession(BuildWorkspaceSession(ts, l))
    PROVE  /\ TabsOK(s.tabs) /\ LayoutOK(s.layout)
           /\ Housed(ts, l) => Sound(s.tabs, s.layout)
<1>1. PICK unwanted, kept : /\ unwanted = {tab \in ToSet(ts) : tab.preview}
                            /\ kept = Without(ts, unwanted)
  OBVIOUS
<1>2. ts \in Seq(Tabs)
  BY DEF TabsOK
<1>3. /\ kept \in Seq(Tabs) /\ DOMAIN kept = 1..Len(kept) /\ Len(kept) \in Nat
      /\ \A k \in DOMAIN kept : kept[k] \in Tabs /\ kept[k] \in ToSet(ts)
  BY <1>1, <1>2, WithoutIs
<1>4. TabsOK(kept)
  BY <1>1, WithoutTabs
<1>5. PICK stored : stored = [i \in DOMAIN kept |-> Tab(kept[i].path, kept[i].pane, FALSE)]
  OBVIOUS
<1>6. \A tab \in Tabs : LET new == Tab(tab.path, tab.pane, FALSE)
                        IN  new \in Tabs /\ ~new.preview /\ new.pane = tab.pane
  BY DEF Tabs, Tab
<1>7. \A i \in DOMAIN kept : stored[i] \in Tabs /\ ~stored[i].preview /\ stored[i].pane = kept[i].pane
  BY <1>3, <1>5, <1>6
<1>8. stored = [i \in DOMAIN kept |-> stored[i]] /\ DOMAIN stored = DOMAIN kept
  BY <1>5
<1>9. TabsOK(stored)
  BY <1>4, <1>7, <1>8, MappedTabs
<1>10. PICK from : from = IF kept # <<>> THEN l ELSE InitialLayout
  OBVIOUS
<1>11. LayoutOK(from)
  BY <1>10, InitialIs
<1>12. PICK built : built = BuildWorkspaceSession(ts, l)
  OBVIOUS
<1>13. built.tabs = stored /\ built.layout = from
  BY <1>1, <1>5, <1>10, <1>12 DEF BuildWorkspaceSession, MapTabs
<1>14. PICK m : m = SanitizeLayout(from, stored)
  OBVIOUS
<1>15. s.tabs = stored /\ s.layout = m
  BY <1>12, <1>13, <1>14 DEF RestoreWorkspaceSession
<1>16. LayoutOK(m) /\ (Housed(stored, from) => Sound(stored, m))
  BY <1>9, <1>11, <1>14, SanitizedIs
<1>17. ASSUME Housed(ts, l) PROVE Sound(stored, m)
  <2>1. CASE kept = <<>>
    BY <1>8, <1>9, <1>14, <2>1, InitialIsSound DEF TabsOK, SanitizeLayout, FirstPath
  <2>2. CASE kept # <<>>
    <3>1. \A i \in DOMAIN stored : stored[i].pane \in PaneIds(l)
      BY <1>3, <1>7, <1>8, <1>17, ToSetIs DEF Housed
    <3>2. Housed(stored, from)
      BY <1>10, <1>17, <2>2, <3>1 DEF Housed
    <3> QED
      BY <1>16, <3>2
  <2> QED
    BY <2>1, <2>2
<1> QED
  BY <1>9, <1>15, <1>16, <1>17

LEMMA OnlyActiveIs ==
    ASSUME NEW s, TabsOK(s.tabs), LayoutOK(s.layout), NEW t, t = RestoreOnlyActiveWorkspaceTab(s)
    PROVE  TabsOK(t.tabs) /\ LayoutOK(t.layout)
<1>1. TabsOK(<<>>)
  BY DEF TabsOK
<1>2. PICK pane : pane = ActivePane(s.layout)
  OBVIOUS
<1>3. CASE \E i \in DOMAIN s.tabs : Is(s.tabs[i], pane.active, pane.id)
  <2>1. pane.active \in Files
    BY <1>3, PathsAre DEF Is
  <2>2. PICK tab : tab = Tab(pane.active, 0, FALSE)
    OBVIOUS
  <2>3. tab \in Tabs /\ ~tab.preview
    BY <2>1, <2>2 DEF Tab, Tabs
  <2>4. PICK us : us = <<tab>>
    OBVIOUS
  <2>5. us \in Seq(Tabs) /\ DOMAIN us = {1}
    BY <2>3, <2>4
  <2>6. TabsOK(us)
    BY <2>5 DEF TabsOK
  <2>7. LayoutOK(SetPaneActivePath(InitialLayout, 0, pane.active))
    BY <2>1, InitialIs, SetPaneOK DEF Shown
  <2>8. t.tabs = us /\ t.layout = SetPaneActivePath(InitialLayout, 0, pane.active)
    BY <1>2, <1>3, <2>2, <2>4 DEF RestoreOnlyActiveWorkspaceTab
  <2> QED
    BY <2>6, <2>7, <2>8
<1>4. CASE ~\E i \in DOMAIN s.tabs : Is(s.tabs[i], pane.active, pane.id)
  BY <1>1, <1>2, <1>4, InitialIs DEF RestoreOnlyActiveWorkspaceTab
<1> QED
  BY <1>3, <1>4

LEMMA ReloadFits ==
    ASSUME EditorFits, ContentFits, Reload PROVE EditorFits' /\ ContentFits'
<1>1. FilesTyped /\ ReadsAreOld
  BY DEF ContentFits
<1>2. PICK session : session = RestoreWorkspaceSession(BuildWorkspaceSession(tabs, layout))
  OBVIOUS
<1>3. PICK s \in {session, RestoreOnlyActiveWorkspaceTab(session), [tabs |-> <<>>, layout |-> InitialLayout]} :
          /\ tabs' = s.tabs /\ layout' = s.layout
          /\ hydration' = [path : ActivePaths(s.layout), read : {Unread}]
  BY <1>2 DEF Reload
<1>4. TabsOK(session.tabs) /\ LayoutOK(session.layout)
  BY <1>2, SessionIs DEF EditorFits
<1>5. TabsOK(s.tabs) /\ LayoutOK(s.layout)
  <2>1. CASE s = session
    BY <1>4, <2>1
  <2>2. CASE s = RestoreOnlyActiveWorkspaceTab(session)
    BY <1>4, <2>2, OnlyActiveIs
  <2>3. CASE s = [tabs |-> <<>>, layout |-> InitialLayout]
    <3>1. TabsOK(<<>>)
      BY DEF TabsOK
    <3> QED
      BY <2>3, <3>1, InitialIs
  <2> QED
    BY <1>3, <2>1, <2>2, <2>3
<1>6. ActivePaths(s.layout) \subseteq Files
  BY <1>5, PanesAre
<1>7. /\ cache' = [p \in Files |-> None] /\ loads' = <<>> /\ versions' = [p \in Files |-> 0]
      /\ timers' = {} /\ live' = {} /\ requests' = [p \in Files |-> 0]
      /\ missing' = {} /\ present' = {} /\ strays' = {} /\ unheard' = {}
      /\ events' = <<>> /\ connected' = TRUE /\ disk' = disk /\ clock' = clock
  BY DEF Reload
<1>8. DOMAIN loads' = {} /\ DOMAIN events' = {} /\ loads' \in Seq(Loads) /\ events' \in Seq(FileEvents)
  BY <1>7
<1>9. hydration' \subseteq Fetches /\ \A f \in hydration' : f.path \in Files /\ f.read = Unread
  BY <1>3, <1>6 DEF Fetches
<1>10. FilesTyped'
  BY <1>1, <1>7, <1>8, <1>9 DEF FilesTyped
<1>11. ReadsAreOld'
  BY <1>1, <1>7, <1>8, <1>9 DEF FilesTyped, Unread, ReadsAreOld, OldAs
<1>12. EventsFit'
  BY <1>8 DEF EventsFit
<1>13. KnownFits'
  BY <1>7, <1>8 DEF KnownFits, InFlight
<1>14. CopiesFit'
  BY <1>7, <1>8, <1>9 DEF CopiesFit, InFlight, Unread, Unasked, CopyFits
<1> QED
  BY <1>3, <1>5, <1>10, <1>11, <1>12, <1>13, <1>14 DEF EditorFits, ContentFits

LEMMA ReceiveKeepsEditor ==
    ASSUME EditorFits, Receive PROVE EditorFits'
  BY MarkedTabs DEF Receive, EditorFits, MarkTabRemoved, MarkTabChanged, Refresh

LEMMA LoadedKeepsEditor ==
    ASSUME EditorFits, FilesTyped, NEW i \in DOMAIN loads, Loaded(i) PROVE EditorFits'
  BY ReadsAre, UpsertedTabs, SetPaneOK DEF Loaded, EditorFits, Shown

LEMMA RefreshLiveFileKeepsEditor ==
    ASSUME EditorFits, NEW request, RefreshLiveFile(request) PROVE EditorFits'
  BY MarkedTabs DEF RefreshLiveFile, EditorFits, MarkTabLoaded

-----------------------------------------------------------------------------
(* The invariant *)

LEMMA FilesStart == Init => FilesInv
  BY InitialIs DEF Init, TabsOK, FilesTyped, ReadsAreOld, EventsFit, KnownFits, InFlight, CopiesFit, CopyFits,
     FilesInv, ContentFits

LEMMA FilesKeep == FilesInv /\ Next => FilesInv'
<1> SUFFICES ASSUME FilesInv, Next PROVE FilesInv'
  OBVIOUS
<1>1. EditorFits /\ ContentFits /\ FilesTyped
  BY DEF FilesInv, EditorFits, ContentFits
<1> SUFFICES EditorFits' /\ ContentFits'
  BY DEF FilesInv, EditorFits
<1>2. ASSUME UNCHANGED shown PROVE EditorFits'
  BY <1>1, <1>2 DEF EditorFits, shown
<1>3. ASSUME NEW p \in Files, Write(p) PROVE EditorFits' /\ ContentFits'
  BY <1>1, <1>2, <1>3, WriteFits DEF Write
<1>4. ASSUME NEW p \in Files, Delete(p) PROVE EditorFits' /\ ContentFits'
  BY <1>1, <1>2, <1>4, DeleteFits DEF Delete
<1>5. ASSUME NEW p \in Files, LiveTimer(p) PROVE EditorFits' /\ ContentFits'
  BY <1>1, <1>2, <1>5, LiveTimerFits DEF LiveTimer
<1>6. ASSUME Disconnect PROVE EditorFits' /\ ContentFits'
  BY <1>1, <1>2, <1>6, DisconnectFits DEF Disconnect
<1>7. ASSUME Reconnect PROVE EditorFits' /\ ContentFits'
  BY <1>1, <1>2, <1>7, ReconnectFits DEF Reconnect, EditorFits
<1>8. ASSUME Receive PROVE EditorFits' /\ ContentFits'
  BY <1>1, <1>8, ReceiveFits, ReceiveKeepsEditor
<1>9. ASSUME Reload PROVE EditorFits' /\ ContentFits'
  BY <1>1, <1>9, ReloadFits
<1>10. ASSUME NEW p \in Files, NEW mode \in Modes, NEW review \in BOOLEAN, OpenFile(p, mode, review)
       PROVE  EditorFits' /\ ContentFits'
  BY <1>1, <1>10, OpenFileFits
<1>11. ASSUME CloseActive PROVE EditorFits' /\ ContentFits'
  BY <1>1, <1>11, CloseActiveFits
<1>12. ASSUME NEW fetch \in hydration, ServeHydration(fetch) PROVE EditorFits' /\ ContentFits'
  BY <1>1, <1>2, <1>12, ServeHydrationFits DEF ServeHydration
<1>13. ASSUME HydrateRestoredFiles PROVE EditorFits' /\ ContentFits'
  BY <1>1, <1>2, <1>13, HydrateFits DEF HydrateRestoredFiles
<1>14. ASSUME NEW i \in DOMAIN loads, ServeLoad(i) PROVE EditorFits' /\ ContentFits'
  BY <1>1, <1>2, <1>14, ServeLoadFits DEF ServeLoad
<1>15. ASSUME NEW i \in DOMAIN loads, Loaded(i) PROVE EditorFits' /\ ContentFits'
  BY <1>1, <1>15, LoadedFits, LoadedKeepsEditor
<1>16. ASSUME NEW i \in DOMAIN loads, LoadFailed(i) PROVE EditorFits' /\ ContentFits'
  BY <1>1, <1>2, <1>16, LoadFailedFits DEF LoadFailed
<1>17. ASSUME NEW request \in live, ServeLive(request) PROVE EditorFits' /\ ContentFits'
  BY <1>1, <1>2, <1>17, ServeLiveFits DEF ServeLive
<1>18. ASSUME NEW request \in live, RefreshLiveFile(request) PROVE EditorFits' /\ ContentFits'
  BY <1>1, <1>18, RefreshLiveFileFits, RefreshLiveFileKeepsEditor
<1>19. ASSUME NEW request \in live, RefreshFailed(request) PROVE EditorFits' /\ ContentFits'
  BY <1>1, <1>2, <1>19, RefreshFailedFits DEF RefreshFailed
<1>20. ASSUME NEW tab \in ToSet(tabs), ActivateTab(tab) \/ CloseTab(tab) \/ PromoteTab(tab)
       PROVE  EditorFits' /\ ContentFits'
  BY <1>1, <1>20, ActivateTabFits, CloseTabFits, PromoteTabFits
<1>21. ASSUME NEW tab \in ToSet(tabs), NEW pane \in PaneIds(layout), NEW before, MoveTab(tab, pane, before)
       PROVE  EditorFits' /\ ContentFits'
  BY <1>1, <1>21, MoveTabFits
<1>22. ASSUME NEW tab \in ToSet(tabs), NEW pane, NEW placement, SplitTab(tab, pane, placement)
       PROVE  EditorFits' /\ ContentFits'
  BY <1>1, <1>22, SplitTabFits
<1>23. ASSUME NEW pane \in PaneIds(layout), FocusPane(pane) PROVE EditorFits' /\ ContentFits'
  BY <1>1, <1>23, FocusPaneFits
<1>24. ASSUME NEW pane \in PaneIds(layout), Cleanup(pane) PROVE EditorFits' /\ ContentFits'
  BY <1>1, <1>24, CleanupFits
<1> QED
  BY <1>3, <1>4, <1>5, <1>6, <1>7, <1>8, <1>9, <1>10, <1>11, <1>12, <1>13, <1>14, <1>15, <1>16, <1>17,
     <1>18, <1>19, <1>20, <1>21, <1>22, <1>23, <1>24
  DEF Next

LEMMA FilesStutter == FilesInv /\ UNCHANGED vars => FilesInv'
  BY RestFits DEF vars, shown, FilesInv

\* As many panes as names: each has its own.
LEMMA OwnNames ==
    ASSUME NEW l, LayoutOK(l), Cardinality(PaneIds(l)) = Len(l.panes)
    PROVE  \A i, j \in DOMAIN l.panes : l.panes[i].id = l.panes[j].id => i = j
<1> DEFINE name == [i \in DOMAIN l.panes |-> l.panes[i].id]
<1>1. DOMAIN l.panes = 1..Len(l.panes) /\ Len(l.panes) \in Nat
  BY PanesAre
<1>2. IsFiniteSet(DOMAIN l.panes) /\ Cardinality(DOMAIN l.panes) = Len(l.panes)
  BY <1>1, FS_Interval
<1>3. name \in Surjection(DOMAIN l.panes, PaneIds(l))
  BY DEF PaneIds, Surjection
<1>4. name \in Injection(DOMAIN l.panes, PaneIds(l))
  <2> HIDE DEF name
  <2> QED
    BY <1>2, <1>3, FS_SurjSameCardinalityImpliesInj
<1>5. \A i, j \in DOMAIN l.panes : name[i] = name[j] => i = j
  BY <1>4 DEF Injection, IsInjective
<1> QED
  BY <1>5

LEMMA FilesInvImplies == FilesInv => EditorIsRight
<1> SUFFICES ASSUME FilesInv PROVE EditorIsRight
  OBVIOUS
<1>1. EditorFits /\ FilesTyped /\ KnownFits /\ CopiesFit
  BY DEF FilesInv, EditorFits, ContentFits
<1>2. TypeOK
  <2>1. \A p \in Files : versions[p] > 0 <=> \E i \in DOMAIN loads : loads[i].path = p
    <3> SUFFICES ASSUME NEW p \in Files, NEW i \in DOMAIN loads, loads[i].path = p PROVE versions[p] > 0
      BY <1>1 DEF FilesTyped
    <3>1. loads[i].version \in Nat /\ loads[i].version > 0 /\ loads[i].version <= versions[p] /\ versions[p] \in Nat
      BY <1>1, ReadsAre DEF FilesTyped
    <3> QED
      BY <3>1
  <2>2. layout.panes \in Seq(Panes) /\ layout.panes # <<>> /\ tabs \in Seq(Tabs)
    BY <1>1 DEF EditorFits, TabsOK, LayoutOK, Layouts
  <2> QED
    BY <1>1, <2>1, <2>2 DEF TypeOK, FilesTyped, Panes, Tabs
<1>3. ASSUME Quiet
      PROVE  \A p : ~Heard(p) /\ ~Told(p) /\ InFlight(p) = {} /\ ~(p \in timers) /\ ~Comes(p)
  BY <1>3 DEF Quiet, Heard, Told, InFlight, Comes
<1>4. MissingIsRight
  BY <1>1, <1>3 DEF MissingIsRight, FilesTyped, KnownFits
<1>5. ShownIsCurrent
  BY <1>1, <1>3, ActiveAre DEF ShownIsCurrent, EditorFits, CopiesFit, CopyFits, Right, KnownGone
<1>6. OnePreviewPerPane
  BY <1>1 DEF OnePreviewPerPane, EditorFits, TabsOK
<1>7. SessionsRestore
  BY <1>1, SessionIs, OwnNames DEF EditorFits, Housed, SessionsRestore, Sound
<1> QED
  BY <1>2, <1>4, <1>5, <1>6, <1>7 DEF EditorIsRight

\* A file that is shown is shown as it is, or is known to be gone, once nothing is on its way, for any
\* files and whatever order changes, loads, refreshes and events come in; and the editor it is shown
\* in can be restored (WorkbenchContainer.tsx).
THEOREM EditorStaysRight == MCSpec => []EditorIsRight
<1>1. MCInit => FilesInv
  BY FilesStart DEF MCInit
<1>2. FilesInv /\ [MCNext]_<<vars, commentVars, concern>> => FilesInv'
  BY FilesKeep, FilesStutter DEF MCNext
<1>3. FilesInv => EditorIsRight
  BY FilesInvImplies
<1> QED
  BY <1>1, <1>2, <1>3, PTL DEF MCSpec

=============================================================================
