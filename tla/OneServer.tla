------------------------------ MODULE OneServer ------------------------------
(***************************************************************************)
(* Theorems about CommentStore when every call is handled by one server,   *)
(* as its mutex assumes.  Whatever crashes or fails, nothing a client was  *)
(* promised gets lost and no body goes back to an older text; and as long  *)
(* as nothing fails, the journal announces what the comments hold, every   *)
(* request counts once, and the store implements ReviewBoard.              *)
(***************************************************************************)
EXTENDS CommentStoreProofs

\* One process owns the data directory.
SoleServer == \A c, d \in Calls : Home[c] = Home[d]

-----------------------------------------------------------------------------
(* The inductive invariant *)

OneAtATime == \A c, d \in Calls : Busy(c) /\ Busy(d) => c = d

\* Ids and texts come from the stamp, and an id names one row.
CommentsStamped(rows) ==
    \A m \in rows : m.id[1] <= stamp /\ m.id[2] <= stamp /\ m.text <= stamp
DraftsStamped(rows) ==
    \A d \in rows : 0 < d.id /\ d.id <= stamp /\ d.text <= stamp
OneRowEach(rows) == \A r, s \in rows : r.id = s.id => r = s

FilesInOrder ==
    /\ CommentsStamped(comments) /\ OneRowEach(comments)
    /\ DraftsStamped(drafts) /\ OneRowEach(drafts)

\* Comments that are stored or were deleted.
Recorded == Ids(comments) \cup Tombstones

CommentOps == {"create", "reply", "publish", "update"}

\* The call is still going to replace comments.jsonl, or comment-drafts.jsonl.
RewritesComments(c) ==
    \/ pc[c] \in {"comments", "renameComments"}
    \/ pc[c] = "journal" /\ job[c].op \in {"publish", "update"}
RewritesDrafts(c) ==
    \/ pc[c] \in {"drafts", "renameDrafts"}
    \/ RewritesComments(c) /\ job[c].op = "publish"

\* Which operations reach which step.
StepsFit(c) ==
    /\ pc[c] \in {"idle", "checked"} =>
          job[c].op = "none" /\ job[c].makes = {} /\ job[c].saves = {}
    /\ pc[c] \in {"comments", "renameComments"} => job[c].op \in CommentOps
    /\ pc[c] = "journal" => job[c].op \in CommentOps \cup {"delete"}
    /\ pc[c] \in {"drafts", "renameDrafts"} => job[c].op \in {"publish", "draft"}

\* What is going to replace comments.jsonl keeps every comment that is not
\* deleted, with its text or a newer one, and adds what the call makes.
CommentsReady(c) ==
    /\ Ids(comments) \subseteq Ids(job[c].comments) \cup Tombstones
    /\ job[c].makes \subseteq Ids(job[c].comments)
    /\ CommentsStamped(job[c].comments) /\ OneRowEach(job[c].comments)
    /\ \A m \in comments, n \in job[c].comments : m.id = n.id => m.text <= n.text
    /\ \A n \in job[c].comments :
          \/ n.id \in Ids(comments) \/ n.id[2] = 0
          \/ job[c].op = "publish" /\ \E d \in drafts : d.id = n.id[2] /\ d.text = n.text

Coming(c) == IF RewritesComments(c) THEN Ids(job[c].comments) ELSE {}

\* What is going to replace comment-drafts.jsonl keeps every draft that was not
\* discarded or published, with its text or a newer one.
DraftsReady(c) ==
    /\ \A d \in drafts :
          \/ d.id \in Ids(job[c].drafts) \cup discarded
          \/ \E i \in Recorded \cup Coming(c) : i[2] = d.id
    /\ job[c].saves \subseteq Ids(job[c].drafts)
    /\ DraftsStamped(job[c].drafts) /\ OneRowEach(job[c].drafts)
    /\ \A d \in drafts, e \in job[c].drafts : d.id = e.id => d.text <= e.text

CallInOrder(c) ==
    /\ StepsFit(c)
    /\ pc[c] = "renameComments" => commentsTmp = {job[c].comments}
    /\ pc[c] = "renameDrafts" => draftsTmp = {job[c].drafts}
    /\ RewritesComments(c) => CommentsReady(c)
    /\ ~RewritesComments(c) => job[c].makes \subseteq Recorded
    /\ RewritesDrafts(c) => DraftsReady(c)
    /\ ~RewritesDrafts(c) => job[c].saves \subseteq Ids(drafts)

AnswersHold ==
    /\ confirmed \subseteq Recorded
    /\ \A d \in saved : d \in discarded \/ Kept(d)

KeepInv ==
    /\ TypeOK
    /\ OneAtATime
    /\ FilesInOrder
    /\ AnswersHold
    /\ \A c \in Calls : CallInOrder(c)

-----------------------------------------------------------------------------
(* Lemmas on calls *)

\* A call outside the store promises nothing that a step could break.
LEMMA WaitingInOrder ==
  ASSUME NEW c \in Calls, pc'[c] \in {"idle", "checked"}, job'[c].op = "none",
         job'[c].makes = {}, job'[c].saves = {}
  PROVE  CallInOrder(c)'
  BY DEF CallInOrder, StepsFit, RewritesComments, RewritesDrafts

\* While one call is inside the store the others wait, and stay in order.
LEMMA OthersInOrder ==
  ASSUME KeepInv, NEW c \in Calls, NEW d \in Calls, d # c,
         \/ Busy(c)
         \/ \A e \in Calls : ~Busy(e),
         job'[d] = job[d], pc'[d] = pc[d]
  PROVE  CallInOrder(d)' /\ ~Busy(d) /\ ~Busy(d)'
  <1>1. ~Busy(d) /\ ~Busy(d)'
    BY DEF KeepInv, OneAtATime, Busy
  <1>2. pc[d] \in {"idle", "checked"}
    BY <1>1 DEF Busy
  <1>3. job[d].op = "none" /\ job[d].makes = {} /\ job[d].saves = {}
    BY <1>2 DEF KeepInv, CallInOrder, StepsFit
  <1>4. QED
    BY <1>1, <1>2, <1>3, WaitingInOrder

\* The mutex of the only server keeps every other call out.
LEMMA UnlockedMeansAlone ==
  ASSUME SoleServer, NEW c \in Calls, Unlocked(c)
  PROVE  \A d \in Calls : ~Busy(d)
  BY DEF SoleServer, Unlocked

\* Ids and texts handed out before stay below the stamp.
LEMMA StampedStay ==
  ASSUME TypeOK, stamp' \in Nat, stamp <= stamp', FilesInOrder,
         comments' = comments, drafts' = drafts
  PROVE  FilesInOrder'
  <1>1. CommentsStamped(comments)'
    BY DEF TypeOK, FilesInOrder, CommentsStamped, Comment, CommentId
  <1>2. DraftsStamped(drafts)'
    BY DEF TypeOK, FilesInOrder, DraftsStamped, Draft
  <1>3. QED
    BY <1>1, <1>2 DEF FilesInOrder, OneRowEach

\* A step that leaves the files alone keeps what was answered.
LEMMA AnswersStay ==
  ASSUME AnswersHold, UNCHANGED files, UNCHANGED answers, discarded \subseteq discarded'
  PROVE  AnswersHold'
  BY DEF AnswersHold, Kept, Recorded, Tombstones, Ids, files, answers

\* An operation that has read the files and prepared its call well keeps the
\* invariant.
LEMMA BeginKeeps ==
  ASSUME KeepInv, TypeOK', NEW c \in Calls, \A d \in Calls : ~Busy(d),
         \A d \in Calls \ {c} : job'[d] = job[d] /\ pc'[d] = pc[d],
         UNCHANGED files, UNCHANGED answers, stamp <= stamp',
         discarded \subseteq discarded', CallInOrder(c)'
  PROVE  KeepInv'
  <1>1. \A d \in Calls : CallInOrder(d)' /\ (d # c => ~Busy(d)')
    BY OthersInOrder
  <1>2. OneAtATime'
    BY <1>1 DEF OneAtATime
  <1>3. FilesInOrder'
    BY StampedStay DEF KeepInv, TypeOK, files
  <1>4. AnswersHold'
    BY AnswersStay DEF KeepInv
  <1>5. QED
    BY <1>1, <1>2, <1>3, <1>4 DEF KeepInv

-----------------------------------------------------------------------------
(* Lemmas on the prepared contents *)

\* What readAll returns has one row per id, and the journal accounts for the rest.
LEMMA ReadAllRows ==
  ASSUME FilesInOrder
  PROVE  /\ CommentsStamped(ReadAll) /\ OneRowEach(ReadAll)
         /\ Ids(comments) \subseteq Ids(ReadAll) \cup Tombstones
         /\ ReadAll \subseteq comments
  BY DEF FilesInOrder, CommentsStamped, OneRowEach, ReadAll, Ids

\* Adding new comments to what was read loses nothing.
LEMMA AppendReady ==
  ASSUME TypeOK, FilesInOrder, UNCHANGED files, stamp' = stamp + 1,
         NEW c \in Calls, NEW batch \in SUBSET Comment,
         OneRowEach(batch),
         \A m \in batch : /\ m.id[1] = stamp + 1 /\ m.id[2] <= stamp + 1
                          /\ m.text <= stamp + 1,
         \A m \in batch : \/ m.id[2] = 0
                          \/ /\ job'[c].op = "publish"
                             /\ \E d \in drafts : d.id = m.id[2] /\ d.text = m.text,
         job'[c].comments = ReadAll \cup batch,
         job'[c].makes \subseteq Ids(batch)
  PROVE  CommentsReady(c)'
<1> USE DEF files
<1>1. /\ ReadAll \subseteq comments /\ comments \subseteq Comment
      /\ Ids(comments) \subseteq Ids(ReadAll) \cup Tombstones
      /\ OneRowEach(ReadAll)
  BY ReadAllRows DEF TypeOK
<1>2. Tombstones' = Tombstones /\ Ids(comments)' = Ids(comments)
  BY DEF Tombstones
<1>3. Ids(job'[c].comments) = Ids(ReadAll) \cup Ids(batch)
  BY DEF Ids
<1>4. \A m \in comments : m.id[1] <= stamp /\ m.id[2] <= stamp /\ m.text <= stamp
                          /\ m.id[1] \in Nat /\ m.id[2] \in Nat /\ m.text \in Nat
  BY <1>1 DEF FilesInOrder, CommentsStamped, Comment, CommentId
<1>5. stamp \in Nat
  BY DEF TypeOK
<1>6. \A m \in comments, n \in batch : m.id # n.id
  BY <1>4, <1>5
<1>7. CommentsStamped(job[c].comments)'
  BY <1>1, <1>4, <1>5 DEF CommentsStamped
<1>8. OneRowEach(job'[c].comments)
  BY <1>1, <1>6 DEF OneRowEach
<1>9. \A m \in comments, n \in job'[c].comments : m.id = n.id => m.text <= n.text
  BY <1>1, <1>4, <1>6 DEF FilesInOrder, OneRowEach
<1>10. \A n \in job'[c].comments :
          \/ n.id \in Ids(comments) \/ n.id[2] = 0
          \/ job'[c].op = "publish" /\ \E d \in drafts : d.id = n.id[2] /\ d.text = n.text
  BY <1>1 DEF Ids
<1>11. QED
  BY <1>1, <1>2, <1>3, <1>7, <1>8, <1>9, <1>10 DEF CommentsReady, OneRowEach

-----------------------------------------------------------------------------
(* The operations, up to their reads *)

\* What is published from a draft is a comment.
LEMMA PublishedType ==
  ASSUME TypeOK, NEW sel \in SUBSET drafts, NEW lead \in [Ids(sel) -> Ids(sel)]
  PROVE  {Published(d, lead) : d \in sel} \in SUBSET Comment
<1>1. ASSUME NEW d \in sel
      PROVE  Published(d, lead) \in Comment
  <2>1. d \in Draft
    BY DEF TypeOK
  <2>2. lead[d.id] \in Nat
    BY DEF Ids, TypeOK, Draft
  <2>3. QED
    BY <2>1, <2>2 DEF Published, Comment, CommentId, Draft, Actors, TypeOK
<1>2. QED
  BY <1>1

\* What Begin does to the call that begins and to the others.
LEMMA BeginEffect ==
  ASSUME TypeOK, NEW c \in Calls, NEW j, Begin(c, j)
  PROVE  /\ job'[c] = j /\ pc'[c] = After(j.op, "load")
         /\ \A d \in Calls \ {c} : job'[d] = job[d] /\ pc'[d] = pc[d]
         /\ UNCHANGED files /\ UNCHANGED answers
  BY DEF Begin, TypeOK

\* A call that writes a new comment or a reply.
LEMMA CreateInOrder ==
  ASSUME KeepInv, UNCHANGED files, stamp' = stamp + 1,
         NEW c \in Calls, NEW m \in Comment,
         m.id = <<stamp + 1, 0>>, m.text = stamp + 1,
         pc'[c] = "comments", job'[c].op \in {"create", "reply"},
         job'[c].comments = ReadAll \cup {m}, job'[c].makes = {m.id},
         job'[c].saves = {}
  PROVE  CallInOrder(c)'
<1>1. CommentsReady(c)'
  <2>1. OneRowEach({m}) /\ {m.id} \subseteq Ids({m}) /\ {m} \in SUBSET Comment
    BY DEF OneRowEach, Ids
  <2>2. m.id[1] = stamp + 1 /\ m.id[2] = 0 /\ 0 <= stamp + 1
    BY DEF KeepInv, TypeOK
  <2>3. QED
    BY <2>1, <2>2, AppendReady DEF KeepInv, TypeOK
<1>2. QED
  BY <1>1 DEF CallInOrder, StepsFit, RewritesComments, RewritesDrafts, CommentOps

LEMMA CreateThreadKeeps ==
  ASSUME SoleServer, KeepInv, TypeOK', NEW c \in Calls, NEW actor \in Actors,
         CreateThread(c, actor)
  PROVE  KeepInv'
<1> DEFINE id == <<stamp + 1, 0>>
           m == [id |-> id, thread |-> id, actor |-> actor, key |-> NoKey,
                 text |-> stamp + 1]
           j == [NoJob EXCEPT !.op = "create",
                              !.comments = ReadAll \cup {m},
                              !.events = {CreatedEvent(m)},
                              !.makes = {id}]
<1>1. TypeOK
  BY DEF KeepInv
<1>2. Begin(c, j) /\ stamp' = stamp + 1 /\ discarded' = discarded /\ Unlocked(c)
  BY DEF CreateThread, Stamped
<1>3. m \in Comment /\ m.id = id /\ m.text = stamp + 1
  BY <1>1 DEF TypeOK, Comment, CommentId
<1>4. /\ j.op = "create" /\ j.comments = ReadAll \cup {m} /\ j.makes = {id}
      /\ j.saves = {}
  BY DEF NoJob
<1>5. After(j.op, "load") = "comments"
  BY <1>4 DEF After, CreateOrder
<1> HIDE DEF j, m
<1>6. CallInOrder(c)'
  BY <1>1, <1>2, <1>3, <1>4, <1>5, BeginEffect, CreateInOrder
<1>7. QED
  BY <1>1, <1>2, <1>6, BeginEffect, BeginKeeps, UnlockedMeansAlone DEF TypeOK

LEMMA AddReplyKeeps ==
  ASSUME SoleServer, KeepInv, TypeOK', NEW c \in Calls, NEW actor \in Actors,
         NEW key \in Keys \cup {NoKey}, AddReply(c, actor, key)
  PROVE  KeepInv'
<1> DEFINE id == <<stamp + 1, 0>>
           m == [id |-> id, thread |-> job[c].thread, actor |-> actor,
                 key |-> key, text |-> stamp + 1]
           j == [NoJob EXCEPT !.op = "reply", !.thread = m.thread,
                              !.comments = ReadAll \cup {m},
                              !.events = {AddedEvent(m)},
                              !.makes = {id}]
<1>1. TypeOK
  BY DEF KeepInv
<1>2. Begin(c, j) /\ stamp' = stamp + 1 /\ discarded' = discarded /\ Unlocked(c)
  BY DEF AddReply, Stamped
<1>3. m \in Comment /\ m.id = id /\ m.text = stamp + 1
  BY <1>1 DEF TypeOK, Comment, CommentId, Job
<1>4. /\ j.op = "reply" /\ j.comments = ReadAll \cup {m} /\ j.makes = {id}
      /\ j.saves = {}
  BY DEF NoJob
<1>5. After(j.op, "load") = "comments"
  BY <1>4 DEF After, CreateOrder
<1> HIDE DEF j, m
<1>6. CallInOrder(c)'
  BY <1>1, <1>2, <1>3, <1>4, <1>5, BeginEffect, CreateInOrder
<1>7. QED
  BY <1>1, <1>2, <1>6, BeginEffect, BeginKeeps, UnlockedMeansAlone DEF TypeOK

\* Looking a thread up, and finding that a reply is already there, promise
\* nothing.
LEMMA LookKeeps ==
  ASSUME SoleServer, KeepInv, TypeOK', NEW c \in Calls,
         \/ CheckThread(c)
         \/ \E actor \in Actors, key \in Keys \cup {NoKey} : RepeatReply(c, actor, key)
  PROVE  KeepInv'
<1>1. /\ UNCHANGED <<files, stamp, answers, discarded>> /\ Unlocked(c)
      /\ \A d \in Calls \ {c} : job'[d] = job[d] /\ pc'[d] = pc[d]
  BY DEF CheckThread, RepeatReply, KeepInv, TypeOK
<1>2. CallInOrder(c)'
  <2>1. CASE CheckThread(c)
    BY <2>1, WaitingInOrder DEF CheckThread, NoJob, KeepInv, TypeOK
  <2>2. CASE \E actor \in Actors, key \in Keys \cup {NoKey} : RepeatReply(c, actor, key)
    <3>1. pc'[c] = "answer" /\ job'[c] = [job[c] EXCEPT !.op = "reply"] /\ pc[c] = "checked"
      BY <2>2 DEF RepeatReply, KeepInv, TypeOK
    <3>2. job'[c].makes = {} /\ job'[c].saves = {}
      BY <3>1 DEF KeepInv, CallInOrder, StepsFit, TypeOK, Job
    <3>3. QED
      BY <3>1, <3>2 DEF CallInOrder, StepsFit, RewritesComments, RewritesDrafts
  <2>3. QED
    BY <2>1, <2>2
<1>3. QED
  BY <1>1, <1>2, BeginKeeps, UnlockedMeansAlone DEF KeepInv, TypeOK

LEMMA UpdateCommentKeeps ==
  ASSUME SoleServer, KeepInv, TypeOK', NEW c \in Calls, UpdateComment(c)
  PROVE  KeepInv'
<1> DEFINE new(m) == [m EXCEPT !.text = stamp + 1]
           j(m) == [NoJob EXCEPT !.op = "update",
                                 !.comments = (ReadAll \ {m}) \cup {new(m)},
                                 !.events = {UpdatedEvent(m)}]
<1>1. PICK m \in ReadAll : Begin(c, j(m))
  BY DEF UpdateComment
<1>2. TypeOK /\ FilesInOrder /\ stamp' = stamp + 1 /\ discarded' = discarded /\ Unlocked(c)
  BY DEF KeepInv, UpdateComment, Stamped
<1>3. /\ j(m).op = "update" /\ j(m).makes = {} /\ j(m).saves = {}
      /\ j(m).comments = (ReadAll \ {m}) \cup {new(m)}
  BY DEF NoJob
<1>4. After("update", "load") = "journal"
  BY DEF After, UpdateOrder
<1>5. /\ m \in Comment /\ new(m).id = m.id /\ new(m).text = stamp + 1
      /\ \A n \in comments : n \in Comment
  BY <1>2, ReadAllType DEF TypeOK, Comment
<1>6. /\ ReadAll \subseteq comments /\ Ids(comments) \subseteq Ids(ReadAll) \cup Tombstones
      /\ CommentsStamped(ReadAll) /\ OneRowEach(ReadAll)
  BY <1>2, ReadAllRows
<1> HIDE DEF j, new
<1>7. /\ job'[c] = j(m) /\ pc'[c] = "journal" /\ UNCHANGED files
      /\ \A d \in Calls \ {c} : job'[d] = job[d] /\ pc'[d] = pc[d]
      /\ UNCHANGED answers
  BY <1>1, <1>2, <1>3, <1>4, BeginEffect
<1>8. CommentsReady(c)'
  <2> DEFINE rows == (ReadAll \ {m}) \cup {new(m)}
  <2>1. Ids(rows) = Ids(ReadAll)
    BY <1>5 DEF Ids
  <2>2. Tombstones' = Tombstones /\ comments' = comments /\ drafts' = drafts
    BY <1>7 DEF Tombstones, files
  <2>3. \A n \in rows : /\ n.id[1] <= stamp + 1 /\ n.id[2] <= stamp + 1
                        /\ n.text <= stamp + 1
    <3>1. \A n \in ReadAll : /\ n.id[1] <= stamp /\ n.id[2] <= stamp /\ n.text <= stamp
                             /\ n.id[1] \in Nat /\ n.id[2] \in Nat /\ n.text \in Nat
      BY <1>5, <1>6 DEF CommentsStamped, Comment, CommentId
    <3>2. QED
      BY <1>2, <1>5, <3>1 DEF TypeOK
  <2>4. OneRowEach(rows)
    BY <1>5, <1>6 DEF OneRowEach
  <2>5. \A o \in comments, n \in rows : o.id = n.id => o.text <= n.text
    <3>1. \A o \in comments : o.text \in Nat /\ o.text <= stamp
      BY <1>2, <1>5 DEF FilesInOrder, CommentsStamped, Comment
    <3>2. stamp \in Nat
      BY <1>2 DEF TypeOK
    <3>3. ASSUME NEW o \in comments, NEW n \in rows, o.id = n.id
          PROVE  o.text <= n.text
      <4>1. CASE n = new(m)
        BY <1>5, <3>1, <3>2, <4>1
      <4>2. CASE n \in ReadAll
        BY <1>2, <1>6, <3>1, <3>3, <4>2 DEF FilesInOrder, OneRowEach
      <4>3. QED
        BY <4>1, <4>2
    <3>4. QED
      BY <3>3
  <2>6. \A n \in rows : n.id \in Ids(comments)
    BY <1>5, <1>6 DEF Ids
  <2>7. job'[c].comments = rows /\ job'[c].makes = {}
    BY <1>3, <1>7
  <2> HIDE DEF rows
  <2>8. QED
    BY <1>2, <1>6, <2>1, <2>2, <2>3, <2>4, <2>5, <2>6, <2>7
    DEF CommentsReady, CommentsStamped, OneRowEach, Ids
<1>9. CallInOrder(c)'
  BY <1>3, <1>7, <1>8
  DEF CallInOrder, StepsFit, RewritesComments, RewritesDrafts, CommentOps
<1>10. QED
  BY <1>2, <1>7, <1>9, BeginKeeps, UnlockedMeansAlone DEF TypeOK

LEMMA DeletePublishedKeeps ==
  ASSUME SoleServer, KeepInv, TypeOK', NEW c \in Calls, DeletePublished(c)
  PROVE  KeepInv'
<1>1. UNCHANGED <<stamp, discarded>> /\ Unlocked(c) /\ TypeOK
  BY DEF DeletePublished, KeepInv
<1>2. /\ UNCHANGED files /\ UNCHANGED answers
      /\ \A d \in Calls \ {c} : job'[d] = job[d] /\ pc'[d] = pc[d]
      /\ job'[c].op = "delete" /\ job'[c].makes = {} /\ job'[c].saves = {}
      /\ pc'[c] \in {"journal", "answer"}
  <2>1. CASE \E m \in ReadAll :
               Begin(c, [NoJob EXCEPT !.op = "delete", !.events = {DeletedEvent(m)},
                                      !.erases = {m.id}])
    <3> DEFINE j(m) == [NoJob EXCEPT !.op = "delete", !.events = {DeletedEvent(m)},
                                     !.erases = {m.id}]
    <3>1. PICK m \in ReadAll : Begin(c, j(m))
      BY <2>1
    <3>2. j(m).op = "delete" /\ j(m).makes = {} /\ j(m).saves = {}
      BY DEF NoJob
    <3> HIDE DEF j
    <3>3. After(j(m).op, "load") = "journal"
      BY <3>2 DEF After, DeleteOrder
    <3>4. QED
      BY <1>1, <3>1, <3>2, <3>3, BeginEffect
  <2>2. CASE \E i \in Tombstones :
               /\ job' = [job EXCEPT ![c] = [NoJob EXCEPT !.op = "delete",
                                                          !.erases = {i}]]
               /\ pc' = [pc EXCEPT ![c] = "answer"]
               /\ UNCHANGED <<files, faults, answers>>
    BY <1>1, <2>2 DEF NoJob, TypeOK
  <2>3. QED
    BY <2>1, <2>2 DEF DeletePublished
<1>3. CallInOrder(c)'
  BY <1>2 DEF CallInOrder, StepsFit, RewritesComments, RewritesDrafts
<1>4. QED
  BY <1>1, <1>2, <1>3, BeginKeeps, UnlockedMeansAlone DEF TypeOK

\* A call that adds, changes or removes one draft.
LEMMA DraftInOrder ==
  ASSUME KeepInv, UNCHANGED files, NEW c \in Calls,
         pc'[c] = "drafts", job'[c].op = "draft", job'[c].makes = {},
         DraftsReady(c)'
  PROVE  CallInOrder(c)'
  BY DEF CallInOrder, StepsFit, RewritesComments, RewritesDrafts

LEMMA CreateDraftKeeps ==
  ASSUME SoleServer, KeepInv, TypeOK', NEW c \in Calls, CreateDraft(c)
  PROVE  KeepInv'
<1> DEFINE row(p, reply, under) ==
             [id |-> stamp + 1, place |-> p, reply |-> reply, under |-> under,
              text |-> stamp + 1]
           j(p, reply, under) ==
             [NoJob EXCEPT !.op = "draft",
                           !.drafts = drafts \cup {row(p, reply, under)},
                           !.saves = {stamp + 1}]
<1>1. \E p, reply, under : Begin(c, j(p, reply, under))
  BY DEF CreateDraft
<1>2. PICK p, reply, under : Begin(c, j(p, reply, under))
  BY <1>1
<1>3. /\ TypeOK /\ FilesInOrder /\ stamp' = stamp + 1 /\ discarded' = discarded
      /\ Unlocked(c)
  BY DEF KeepInv, CreateDraft, Stamped
<1>4. row(p, reply, under).id = stamp + 1 /\ row(p, reply, under).text = stamp + 1
  OBVIOUS
<1> HIDE DEF row
<1>5. LET i == j(p, reply, under) IN
      /\ i.op = "draft" /\ i.makes = {} /\ i.saves = {stamp + 1}
      /\ i.drafts = drafts \cup {row(p, reply, under)}
  BY DEF NoJob
<1> HIDE DEF j
<1>6. After("draft", "load") = "drafts"
  BY DEF After, DraftOrder
<1>7. /\ job'[c] = j(p, reply, under) /\ pc'[c] = "drafts"
      /\ \A d \in Calls \ {c} : job'[d] = job[d] /\ pc'[d] = pc[d]
      /\ UNCHANGED files /\ UNCHANGED answers
  BY <1>2, <1>3, <1>5, <1>6, BeginEffect
<1>8. DraftsReady(c)'
  <2> DEFINE rows == drafts \cup {row(p, reply, under)}
  <2>1. \A d \in drafts : /\ 0 < d.id /\ d.id <= stamp /\ d.text <= stamp
                          /\ d.id \in Nat /\ d.text \in Nat
    BY <1>3 DEF FilesInOrder, DraftsStamped, TypeOK, Draft
  <2>2. \A d \in rows : 0 < d.id /\ d.id <= stamp + 1 /\ d.text <= stamp + 1
    BY <1>3, <1>4, <2>1 DEF TypeOK
  <2>3. stamp + 1 \notin Ids(drafts)
    BY <1>3, <2>1 DEF Ids, TypeOK
  <2>4. OneRowEach(rows)
    BY <1>3, <1>4, <2>3 DEF FilesInOrder, OneRowEach, Ids
  <2>5. \A d \in drafts, e \in rows : d.id = e.id => d.text <= e.text
    <3>1. ASSUME NEW d \in drafts, NEW e \in rows, d.id = e.id
          PROVE  d = e
      BY <2>4, <3>1 DEF OneRowEach
    <3>2. QED
      BY <2>1, <3>1
  <2>6. Ids(drafts) \subseteq Ids(rows) /\ {stamp + 1} \subseteq Ids(rows)
    BY <1>4 DEF Ids
  <2>7. job'[c].drafts = rows /\ job'[c].saves = {stamp + 1} /\ drafts' = drafts
    BY <1>5, <1>7 DEF files
  <2> HIDE DEF rows
  <2>8. QED
    BY <1>3, <2>2, <2>4, <2>5, <2>6, <2>7 DEF DraftsReady, DraftsStamped, OneRowEach, Ids
<1>9. CallInOrder(c)'
  BY <1>5, <1>7, <1>8, DraftInOrder
<1>10. QED
  BY <1>3, <1>7, <1>9, BeginKeeps, UnlockedMeansAlone DEF TypeOK

LEMMA UpdateDraftKeeps ==
  ASSUME SoleServer, KeepInv, TypeOK', NEW c \in Calls, UpdateDraft(c)
  PROVE  KeepInv'
<1> DEFINE new(d) == [d EXCEPT !.text = stamp + 1]
           j(d) == [NoJob EXCEPT !.op = "draft",
                                 !.drafts = (drafts \ {d}) \cup {new(d)}]
<1>1. PICK d \in drafts : Begin(c, j(d))
  BY DEF UpdateDraft
<1>2. /\ TypeOK /\ FilesInOrder /\ stamp' = stamp + 1 /\ discarded' = discarded
      /\ Unlocked(c)
  BY DEF KeepInv, UpdateDraft, Stamped
<1>3. new(d).id = d.id /\ new(d).text = stamp + 1
  BY <1>2 DEF TypeOK, Draft
<1> HIDE DEF new
<1>4. /\ j(d).op = "draft" /\ j(d).makes = {} /\ j(d).saves = {}
      /\ j(d).drafts = (drafts \ {d}) \cup {new(d)}
  BY DEF NoJob
<1> HIDE DEF j
<1>5. After("draft", "load") = "drafts"
  BY DEF After, DraftOrder
<1>6. /\ job'[c] = j(d) /\ pc'[c] = "drafts"
      /\ \A e \in Calls \ {c} : job'[e] = job[e] /\ pc'[e] = pc[e]
      /\ UNCHANGED files /\ UNCHANGED answers
  BY <1>1, <1>2, <1>4, <1>5, BeginEffect
<1>7. DraftsReady(c)'
  <2> DEFINE rows == (drafts \ {d}) \cup {new(d)}
  <2>1. \A e \in drafts : /\ 0 < e.id /\ e.id <= stamp /\ e.text <= stamp
                          /\ e.id \in Nat /\ e.text \in Nat
    BY <1>2 DEF FilesInOrder, DraftsStamped, TypeOK, Draft
  <2>2. \A e \in rows : 0 < e.id /\ e.id <= stamp + 1 /\ e.text <= stamp + 1
    BY <1>2, <1>3, <2>1 DEF TypeOK
  <2>3. OneRowEach(rows)
    BY <1>2, <1>3 DEF FilesInOrder, OneRowEach
  <2>4. \A e \in drafts, f \in rows : e.id = f.id => e.text <= f.text
    <3>1. ASSUME NEW e \in drafts, NEW f \in rows, e.id = f.id
          PROVE  e.text <= f.text
      <4>1. CASE f = new(d)
        BY <1>2, <1>3, <2>1, <4>1 DEF TypeOK
      <4>2. CASE f \in drafts
        BY <1>2, <2>1, <3>1, <4>2 DEF FilesInOrder, OneRowEach
      <4>3. QED
        BY <4>1, <4>2
    <3>2. QED
      BY <3>1
  <2>5. Ids(drafts) \subseteq Ids(rows)
    BY <1>3 DEF Ids
  <2>6. job'[c].drafts = rows /\ job'[c].saves = {} /\ drafts' = drafts
    BY <1>4, <1>6 DEF files
  <2> HIDE DEF rows
  <2>7. QED
    BY <1>2, <2>2, <2>3, <2>4, <2>5, <2>6 DEF DraftsReady, DraftsStamped, OneRowEach, Ids
<1>8. CallInOrder(c)'
  BY <1>4, <1>6, <1>7, DraftInOrder
<1>9. QED
  BY <1>2, <1>6, <1>8, BeginKeeps, UnlockedMeansAlone DEF TypeOK

LEMMA DeleteDraftKeeps ==
  ASSUME SoleServer, KeepInv, TypeOK', NEW c \in Calls, DeleteDraft(c)
  PROVE  KeepInv'
<1> DEFINE j(d) == [NoJob EXCEPT !.op = "draft", !.drafts = drafts \ {d}]
<1>1. PICK d \in drafts : Begin(c, j(d)) /\ discarded' = discarded \cup {d.id}
  BY DEF DeleteDraft
<1>2. TypeOK /\ FilesInOrder /\ stamp' = stamp /\ Unlocked(c)
  BY DEF KeepInv, DeleteDraft
<1>3. j(d).op = "draft" /\ j(d).makes = {} /\ j(d).saves = {} /\ j(d).drafts = drafts \ {d}
  BY DEF NoJob
<1> HIDE DEF j
<1>4. After("draft", "load") = "drafts"
  BY DEF After, DraftOrder
<1>5. /\ job'[c] = j(d) /\ pc'[c] = "drafts"
      /\ \A e \in Calls \ {c} : job'[e] = job[e] /\ pc'[e] = pc[e]
      /\ UNCHANGED files /\ UNCHANGED answers
  BY <1>1, <1>2, <1>3, <1>4, BeginEffect
<1>6. DraftsReady(c)'
  <2>1. \A e \in drafts : e.id \in Ids(drafts \ {d}) \cup discarded'
    BY <1>1 DEF Ids
  <2>2. \A e \in drafts, f \in drafts : e.id = f.id => e.text <= f.text
    BY <1>2 DEF FilesInOrder, OneRowEach, TypeOK, Draft
  <2>3. job'[c].drafts = drafts \ {d} /\ job'[c].saves = {} /\ drafts' = drafts
    BY <1>3, <1>5 DEF files
  <2>4. QED
    BY <1>2, <2>1, <2>2, <2>3 DEF FilesInOrder, DraftsReady, DraftsStamped, OneRowEach, Ids
<1>7. CallInOrder(c)'
  BY <1>3, <1>5, <1>6, DraftInOrder
<1>8. QED
  BY <1>1, <1>2, <1>5, <1>7, BeginKeeps, UnlockedMeansAlone DEF TypeOK

LEMMA PublishDraftsKeeps ==
  ASSUME SoleServer, KeepInv, TypeOK', NEW c \in Calls, PublishDrafts(c)
  PROVE  KeepInv'
<1> DEFINE batch(sel, lead) == {Published(d, lead) : d \in sel}
           j(sel, lead) == [NoJob EXCEPT
                              !.op = "publish",
                              !.comments = ReadAll \cup batch(sel, lead),
                              !.drafts = drafts \ sel,
                              !.events = {PublishEvent(m) : m \in batch(sel, lead)},
                              !.makes = Ids(batch(sel, lead))]
<1>1. PICK sel \in SUBSET drafts :
        \E lead \in [Ids(sel) -> Ids(sel)] : Begin(c, j(sel, lead))
  BY DEF PublishDrafts
<1>2. PICK lead \in [Ids(sel) -> Ids(sel)] : Begin(c, j(sel, lead))
  BY <1>1
<1>3. /\ TypeOK /\ FilesInOrder /\ stamp' = stamp + 1 /\ discarded' = discarded
      /\ Unlocked(c)
  BY DEF KeepInv, PublishDrafts, Stamped
<1>4. LET i == j(sel, lead) IN
      /\ i.op = "publish" /\ i.comments = ReadAll \cup batch(sel, lead)
      /\ i.drafts = drafts \ sel /\ i.makes = Ids(batch(sel, lead)) /\ i.saves = {}
  BY DEF NoJob
<1> HIDE DEF j
<1>5. After("publish", "load") = "journal"
  BY DEF After, PublishOrder
<1>6. /\ job'[c] = j(sel, lead) /\ pc'[c] = "journal"
      /\ \A e \in Calls \ {c} : job'[e] = job[e] /\ pc'[e] = pc[e]
      /\ UNCHANGED files /\ UNCHANGED answers
  BY <1>2, <1>3, <1>4, <1>5, BeginEffect
<1>7. \A d \in sel : /\ Published(d, lead).id = <<stamp + 1, d.id>>
                     /\ Published(d, lead).text = d.text
                     /\ d \in drafts /\ d.id \in Nat /\ d.id <= stamp /\ d.text <= stamp
                     /\ d.text \in Nat
  BY <1>3 DEF Published, FilesInOrder, DraftsStamped, TypeOK, Draft
<1>8. CommentsReady(c)'
  <2> DEFINE new == batch(sel, lead)
  <2>1. new \in SUBSET Comment
    BY <1>3, <1>7, PublishedType
  <2>2. OneRowEach(new)
    BY <1>3, <1>7 DEF FilesInOrder, OneRowEach
  <2>3. \A m \in new : /\ m.id[1] = stamp + 1 /\ m.id[2] <= stamp + 1
                       /\ m.text <= stamp + 1
    BY <1>3, <1>7 DEF TypeOK
  <2>4. \A m \in new : \E d \in drafts : d.id = m.id[2] /\ d.text = m.text
    BY <1>7
  <2>5. /\ job'[c].op = "publish" /\ job'[c].comments = ReadAll \cup new
        /\ job'[c].makes \subseteq Ids(new)
    BY <1>4, <1>6
  <2> HIDE DEF new
  <2>6. QED
    BY <1>3, <1>6, <2>1, <2>2, <2>3, <2>4, <2>5, AppendReady
<1>9. DraftsReady(c)'
  <2>1. Coming(c)' = Ids(job'[c].comments)
    BY <1>4, <1>6 DEF Coming, RewritesComments
  <2>2. ASSUME NEW d \in drafts
        PROVE  d.id \in Ids(drafts \ sel) \/ \E i \in Coming(c)' : i[2] = d.id
    <3>1. CASE d \in sel
      <4>1. Published(d, lead) \in job'[c].comments
        BY <1>4, <1>6, <3>1
      <4>2. Published(d, lead).id \in Coming(c)'
        BY <2>1, <4>1 DEF Ids
      <4>3. QED
        BY <1>7, <3>1, <4>2
    <3>2. CASE d \notin sel
      BY <3>2 DEF Ids
    <3>3. QED
      BY <3>1, <3>2
  <2>3. \A d \in drafts, e \in drafts : d.id = e.id => d.text <= e.text
    BY <1>3 DEF FilesInOrder, OneRowEach, TypeOK, Draft
  <2>4. \A d \in drafts : 0 < d.id /\ d.id <= stamp' /\ d.text <= stamp'
    BY <1>3 DEF FilesInOrder, DraftsStamped, TypeOK, Draft
  <2>5. job'[c].drafts = drafts \ sel /\ job'[c].saves = {} /\ drafts' = drafts
    BY <1>4, <1>6 DEF files
  <2>6. OneRowEach(drafts \ sel)
    BY <1>3 DEF FilesInOrder, OneRowEach
  <2>7. QED
    BY <2>2, <2>3, <2>4, <2>5, <2>6 DEF DraftsReady, DraftsStamped, OneRowEach, Ids
<1>10. CallInOrder(c)'
  BY <1>4, <1>6, <1>8, <1>9
  DEF CallInOrder, StepsFit, RewritesComments, RewritesDrafts, CommentOps
<1>11. QED
  BY <1>3, <1>6, <1>10, BeginKeeps, UnlockedMeansAlone DEF TypeOK

-----------------------------------------------------------------------------
(* The file steps *)

\* A step of the call inside the store concerns the files and that call.
LEMMA InsideKeeps ==
  ASSUME KeepInv, TypeOK', NEW c \in Calls, Busy(c),
         \A d \in Calls \ {c} : job'[d] = job[d] /\ pc'[d] = pc[d],
         FilesInOrder', AnswersHold', CallInOrder(c)'
  PROVE  KeepInv'
<1>1. \A d \in Calls : CallInOrder(d)' /\ (d # c => ~Busy(d)')
  BY OthersInOrder
<1>2. OneAtATime'
  BY <1>1 DEF OneAtATime
<1>3. QED
  BY <1>1, <1>2 DEF KeepInv

\* Where a call stands after one of its steps.
LEMMA NextStep ==
  ASSUME TypeOK, NEW c \in Calls, Continue(c)
  PROVE  /\ pc'[c] = After(job[c].op, pc[c])
         /\ \A d \in Calls \ {c} : pc'[d] = pc[d]
  BY DEF Continue, TypeOK

LEMMA WriteCommentsTmpKeeps ==
  ASSUME KeepInv, TypeOK', NEW c \in Calls, WriteCommentsTmp(c)
  PROVE  KeepInv'
<1>1. /\ pc[c] = "comments" /\ pc'[c] = "renameComments" /\ job' = job
      /\ \A d \in Calls \ {c} : pc'[d] = pc[d]
      /\ commentsTmp' = {job[c].comments}
      /\ UNCHANGED <<comments, drafts, journal, stamp, discarded, confirmed, saved>>
  BY DEF WriteCommentsTmp, KeepInv, TypeOK, answers
<1>2. Recorded' = Recorded /\ Tombstones' = Tombstones
  BY <1>1 DEF Recorded, Ids, Tombstones
<1>3. FilesInOrder' /\ AnswersHold'
  BY <1>1, <1>2 DEF KeepInv, FilesInOrder, AnswersHold, CommentsStamped, DraftsStamped,
                    OneRowEach, Kept, Ids
<1>4. CommentsReady(c) /\ RewritesComments(c) /\ RewritesComments(c)'
  BY <1>1 DEF KeepInv, CallInOrder, RewritesComments
<1>5. CommentsReady(c)'
  BY <1>1, <1>2, <1>4 DEF CommentsReady, CommentsStamped, OneRowEach, Ids
<1>6. /\ RewritesDrafts(c)' => DraftsReady(c)'
      /\ ~RewritesDrafts(c)' => job'[c].saves \subseteq Ids(drafts)'
  <2>1. RewritesDrafts(c)' <=> RewritesDrafts(c)
    BY <1>1 DEF RewritesDrafts, RewritesComments
  <2>2. Coming(c)' = Coming(c)
    BY <1>1, <1>4 DEF Coming, Ids
  <2>3. DraftsReady(c) => DraftsReady(c)'
    BY <1>1, <1>2, <2>2 DEF DraftsReady, DraftsStamped, OneRowEach, Ids
  <2>4. QED
    BY <1>1, <2>1, <2>3 DEF KeepInv, CallInOrder, Ids
<1>7. StepsFit(c)'
  BY <1>1 DEF KeepInv, CallInOrder, StepsFit
<1>8. CallInOrder(c)'
  BY <1>1, <1>4, <1>5, <1>6, <1>7 DEF CallInOrder
<1>9. QED
  BY <1>1, <1>3, <1>8, InsideKeeps DEF Busy

\* The rename puts everything in place that the call prepared.
LEMMA RenameCommentsEffect ==
  ASSUME KeepInv, NEW c \in Calls, RenameComments(c)
  PROVE  /\ pc[c] = "renameComments" /\ CommentsReady(c)
         /\ comments' = job[c].comments /\ job' = job
         /\ UNCHANGED <<drafts, journal, stamp, discarded, confirmed, saved>>
         /\ \A d \in Calls \ {c} : pc'[d] = pc[d]
         /\ \/ job[c].op \in {"create", "reply"} /\ pc'[c] = "journal"
            \/ job[c].op = "publish" /\ pc'[c] = "drafts"
            \/ job[c].op = "update" /\ pc'[c] = "answer"
<1>1. /\ pc[c] = "renameComments" /\ job[c].op \in CommentOps
      /\ commentsTmp = {job[c].comments} /\ RewritesComments(c) /\ TypeOK
  BY DEF RenameComments, KeepInv, CallInOrder, StepsFit, RewritesComments
<1>2. CommentsReady(c)
  BY <1>1 DEF KeepInv, CallInOrder
<1>3. /\ comments' = job[c].comments /\ job' = job
      /\ UNCHANGED <<drafts, journal, stamp, discarded, confirmed, saved>>
  BY <1>1 DEF RenameComments, answers
<1>4. /\ pc'[c] = After(job[c].op, "renameComments")
      /\ \A d \in Calls \ {c} : pc'[d] = pc[d]
  BY <1>1, NextStep DEF RenameComments
<1>5. QED
  BY <1>1, <1>2, <1>3, <1>4
  DEF CommentOps, After, CreateOrder, PublishOrder, UpdateOrder

\* Nothing that was recorded gets lost by it, and what the call makes is recorded.
LEMMA RenameCommentsRecords ==
  ASSUME KeepInv, NEW c \in Calls, RenameComments(c)
  PROVE  Recorded \cup Ids(job[c].comments) \subseteq Recorded'
<1>1. Tombstones' = Tombstones /\ comments' = job[c].comments /\ CommentsReady(c)
  BY RenameCommentsEffect DEF Tombstones
<1>2. QED
  BY <1>1 DEF Recorded, CommentsReady, Ids

LEMMA RenameCommentsKeeps ==
  ASSUME KeepInv, TypeOK', NEW c \in Calls, RenameComments(c)
  PROVE  KeepInv'
<1>1. /\ pc[c] = "renameComments" /\ CommentsReady(c)
      /\ comments' = job[c].comments /\ job' = job
      /\ UNCHANGED <<drafts, journal, stamp, discarded, confirmed, saved>>
      /\ \A d \in Calls \ {c} : pc'[d] = pc[d]
      /\ \/ job[c].op \in {"create", "reply"} /\ pc'[c] = "journal"
         \/ job[c].op = "publish" /\ pc'[c] = "drafts"
         \/ job[c].op = "update" /\ pc'[c] = "answer"
  BY RenameCommentsEffect
<1>2. Recorded \cup Ids(job[c].comments) \subseteq Recorded'
  BY RenameCommentsRecords
<1>3. FilesInOrder'
  BY <1>1 DEF KeepInv, FilesInOrder, CommentsReady, CommentsStamped, DraftsStamped,
              OneRowEach
<1>4. AnswersHold'
  <2>1. ASSUME NEW d \in saved, d \notin discarded
        PROVE  Kept(d)'
    <3>1. d \in Ids(drafts) \/ \E i \in Recorded : i[2] = d
      BY <2>1 DEF KeepInv, AnswersHold, Kept, Recorded
    <3>2. QED
      BY <1>1, <1>2, <3>1 DEF Kept, Recorded, Ids
  <2>2. QED
    BY <1>1, <1>2, <2>1 DEF KeepInv, AnswersHold
<1>5. ~RewritesComments(c)' /\ RewritesComments(c)
  BY <1>1 DEF RewritesComments
<1>6. job'[c].makes \subseteq Recorded'
  BY <1>1, <1>2 DEF CommentsReady
<1>7. RewritesDrafts(c)' <=> job[c].op = "publish"
  BY <1>1 DEF RewritesDrafts, RewritesComments
<1>8. RewritesDrafts(c) <=> job[c].op = "publish"
  BY <1>1 DEF RewritesDrafts, RewritesComments
<1>9. ASSUME job[c].op = "publish"
      PROVE  DraftsReady(c)'
  <2>1. DraftsReady(c) /\ Coming(c) = Ids(job[c].comments)
    BY <1>5, <1>8, <1>9 DEF KeepInv, CallInOrder, Coming
  <2>2. \A d \in drafts : \/ d.id \in Ids(job[c].drafts) \cup discarded
                          \/ \E i \in Recorded' : i[2] = d.id
    BY <1>2, <2>1 DEF DraftsReady
  <2>3. QED
    BY <1>1, <2>1, <2>2 DEF DraftsReady, DraftsStamped, OneRowEach, Ids
<1>10. job[c].op # "publish" => job'[c].saves \subseteq Ids(drafts)'
  BY <1>1, <1>8 DEF KeepInv, CallInOrder, Ids
<1>11. CallInOrder(c)'
  BY <1>1, <1>5, <1>6, <1>7, <1>9, <1>10 DEF CallInOrder, StepsFit, CommentOps
<1>12. QED
  BY <1>1, <1>3, <1>4, <1>11, InsideKeeps DEF Busy

\* An event is appended: the call stays, or goes on when it was the last one.
LEMMA AppendEventEffect ==
  ASSUME KeepInv, NEW c \in Calls, AppendEvent(c)
  PROVE  /\ pc[c] = "journal" /\ Tombstones \subseteq Tombstones'
         /\ UNCHANGED <<comments, drafts, stamp, discarded, confirmed, saved>>
         /\ \A d \in Calls \ {c} : pc'[d] = pc[d] /\ job'[d] = job[d]
         /\ job'[c].op = job[c].op /\ job'[c].comments = job[c].comments
         /\ job'[c].drafts = job[c].drafts /\ job'[c].makes = job[c].makes
         /\ job'[c].saves = job[c].saves
         /\ \/ pc'[c] = "journal"
            \/ job[c].op \in {"create", "reply", "delete"} /\ pc'[c] = "answer"
            \/ job[c].op \in {"publish", "update"} /\ pc'[c] = "comments"
         /\ job[c].op \in CommentOps \cup {"delete"}
<1>1. PICK e \in job[c].events :
        /\ journal' = journal \cup {e}
        /\ job' = [job EXCEPT ![c].events = job[c].events \ {e}]
        /\ Continue(c) \/ UNCHANGED pc
  BY DEF AppendEvent
<1>2. /\ pc[c] = "journal" /\ job[c].op \in CommentOps \cup {"delete"} /\ TypeOK
      /\ UNCHANGED <<comments, drafts, stamp, discarded, confirmed, saved>>
  BY DEF AppendEvent, KeepInv, CallInOrder, StepsFit, answers
<1>3. Tombstones \subseteq Tombstones'
  BY <1>1, TombstonesStay
<1>4. /\ \A d \in Calls \ {c} : job'[d] = job[d]
      /\ job'[c].op = job[c].op /\ job'[c].comments = job[c].comments
      /\ job'[c].drafts = job[c].drafts /\ job'[c].makes = job[c].makes
      /\ job'[c].saves = job[c].saves
  BY <1>1, <1>2 DEF TypeOK, Job
<1>5. \A d \in Calls \ {c} : pc'[d] = pc[d]
  BY <1>1, <1>2, NextStep
<1>6. pc'[c] = "journal" \/ pc'[c] = After(job[c].op, "journal")
  BY <1>1, <1>2, NextStep
<1>7. QED
  BY <1>2, <1>3, <1>4, <1>5, <1>6
  DEF CommentOps, After, CreateOrder, PublishOrder, UpdateOrder, DeleteOrder

LEMMA AppendEventKeeps ==
  ASSUME KeepInv, TypeOK', NEW c \in Calls, AppendEvent(c)
  PROVE  KeepInv'
<1>1. /\ pc[c] = "journal" /\ Tombstones \subseteq Tombstones'
      /\ UNCHANGED <<comments, drafts, stamp, discarded, confirmed, saved>>
      /\ \A d \in Calls \ {c} : pc'[d] = pc[d] /\ job'[d] = job[d]
      /\ job'[c].op = job[c].op /\ job'[c].comments = job[c].comments
      /\ job'[c].drafts = job[c].drafts /\ job'[c].makes = job[c].makes
      /\ job'[c].saves = job[c].saves
      /\ \/ pc'[c] = "journal"
         \/ job[c].op \in {"create", "reply", "delete"} /\ pc'[c] = "answer"
         \/ job[c].op \in {"publish", "update"} /\ pc'[c] = "comments"
      /\ job[c].op \in CommentOps \cup {"delete"}
  BY AppendEventEffect
<1>2. Recorded \subseteq Recorded'
  BY <1>1 DEF Recorded, Ids
<1>3. FilesInOrder'
  BY <1>1 DEF KeepInv, FilesInOrder, CommentsStamped, DraftsStamped, OneRowEach
<1>4. AnswersHold'
  <2>1. ASSUME NEW d \in saved, d \notin discarded
        PROVE  Kept(d)'
    BY <1>1, <2>1 DEF KeepInv, AnswersHold, Kept, Ids
  <2>2. QED
    BY <1>1, <1>2, <2>1 DEF KeepInv, AnswersHold
<1>5. /\ RewritesComments(c)' <=> RewritesComments(c)
      /\ RewritesDrafts(c)' <=> RewritesDrafts(c)
  BY <1>1 DEF RewritesComments, RewritesDrafts
<1>6. RewritesComments(c) => CommentsReady(c)'
  <2>1. CommentsReady(c) => CommentsReady(c)'
    BY <1>1 DEF CommentsReady, CommentsStamped, OneRowEach, Ids
  <2>2. QED
    BY <2>1 DEF KeepInv, CallInOrder
<1>7. ~RewritesComments(c) => job'[c].makes \subseteq Recorded'
  BY <1>1, <1>2 DEF KeepInv, CallInOrder
<1>8. RewritesDrafts(c) => DraftsReady(c)'
  <2>1. Coming(c)' = Coming(c)
    BY <1>1, <1>5 DEF Coming, Ids
  <2>2. DraftsReady(c) => DraftsReady(c)'
    BY <1>1, <1>2, <2>1 DEF DraftsReady, DraftsStamped, OneRowEach, Ids
  <2>3. QED
    BY <2>2 DEF KeepInv, CallInOrder
<1>9. ~RewritesDrafts(c) => job'[c].saves \subseteq Ids(drafts)'
  BY <1>1 DEF KeepInv, CallInOrder, Ids
<1>10. CallInOrder(c)'
  BY <1>1, <1>5, <1>6, <1>7, <1>8, <1>9 DEF CallInOrder, StepsFit, CommentOps
<1>11. QED
  BY <1>1, <1>3, <1>4, <1>10, InsideKeeps DEF Busy

LEMMA WriteDraftsTmpKeeps ==
  ASSUME KeepInv, TypeOK', NEW c \in Calls, WriteDraftsTmp(c)
  PROVE  KeepInv'
<1>1. /\ pc[c] = "drafts" /\ pc'[c] = "renameDrafts" /\ job' = job
      /\ \A d \in Calls \ {c} : pc'[d] = pc[d]
      /\ draftsTmp' = {job[c].drafts}
      /\ UNCHANGED <<comments, drafts, journal, stamp, discarded, confirmed, saved>>
  BY DEF WriteDraftsTmp, KeepInv, TypeOK, answers
<1>2. Recorded' = Recorded
  BY <1>1 DEF Recorded, Ids, Tombstones
<1>3. FilesInOrder' /\ AnswersHold'
  BY <1>1, <1>2 DEF KeepInv, FilesInOrder, AnswersHold, CommentsStamped, DraftsStamped,
                    OneRowEach, Kept, Ids, Tombstones
<1>4. /\ ~RewritesComments(c) /\ ~RewritesComments(c)'
      /\ RewritesDrafts(c) /\ RewritesDrafts(c)'
  BY <1>1 DEF RewritesComments, RewritesDrafts
<1>5. DraftsReady(c)'
  <2>1. DraftsReady(c) /\ Coming(c) = {} /\ Coming(c)' = {}
    BY <1>4 DEF KeepInv, CallInOrder, Coming
  <2>2. QED
    BY <1>1, <1>2, <2>1 DEF DraftsReady, DraftsStamped, OneRowEach, Ids
<1>6. CallInOrder(c)'
  BY <1>1, <1>2, <1>4, <1>5 DEF KeepInv, CallInOrder, StepsFit
<1>7. QED
  BY <1>1, <1>3, <1>6, InsideKeeps DEF Busy

LEMMA RenameDraftsEffect ==
  ASSUME KeepInv, NEW c \in Calls, RenameDrafts(c)
  PROVE  /\ pc[c] = "renameDrafts" /\ pc'[c] = "answer" /\ DraftsReady(c)
         /\ Coming(c) = {} /\ ~RewritesComments(c)
         /\ drafts' = job[c].drafts /\ job' = job
         /\ UNCHANGED <<comments, journal, stamp, discarded, confirmed, saved>>
         /\ \A d \in Calls \ {c} : pc'[d] = pc[d]
<1>1. /\ pc[c] = "renameDrafts" /\ job[c].op \in {"publish", "draft"} /\ TypeOK
      /\ draftsTmp = {job[c].drafts} /\ RewritesDrafts(c) /\ ~RewritesComments(c)
  BY DEF RenameDrafts, KeepInv, CallInOrder, StepsFit, RewritesDrafts, RewritesComments
<1>2. DraftsReady(c) /\ Coming(c) = {}
  BY <1>1 DEF KeepInv, CallInOrder, Coming
<1>3. /\ pc'[c] = After(job[c].op, "renameDrafts")
      /\ \A d \in Calls \ {c} : pc'[d] = pc[d]
  BY <1>1, NextStep DEF RenameDrafts
<1>4. After(job[c].op, "renameDrafts") = "answer"
  BY <1>1 DEF After, PublishOrder, DraftOrder
<1>5. QED
  BY <1>1, <1>2, <1>3, <1>4 DEF RenameDrafts, answers

LEMMA RenameDraftsKeeps ==
  ASSUME KeepInv, TypeOK', NEW c \in Calls, RenameDrafts(c)
  PROVE  KeepInv'
<1>1. /\ pc[c] = "renameDrafts" /\ pc'[c] = "answer" /\ DraftsReady(c)
      /\ Coming(c) = {} /\ ~RewritesComments(c)
      /\ drafts' = job[c].drafts /\ job' = job
      /\ UNCHANGED <<comments, journal, stamp, discarded, confirmed, saved>>
      /\ \A d \in Calls \ {c} : pc'[d] = pc[d]
  BY RenameDraftsEffect
<1>2. Recorded' = Recorded
  BY <1>1 DEF Recorded, Ids, Tombstones
<1>3. FilesInOrder'
  BY <1>1 DEF KeepInv, FilesInOrder, DraftsReady, CommentsStamped, DraftsStamped,
              OneRowEach
<1>4. AnswersHold'
  <2>1. ASSUME NEW d \in saved, d \notin discarded
        PROVE  Kept(d)'
    <3>1. d \in Ids(drafts) \/ \E i \in Recorded : i[2] = d
      BY <2>1 DEF KeepInv, AnswersHold, Kept, Recorded
    <3>2. d \in Ids(drafts) =>
            d \in Ids(job[c].drafts) \/ \E i \in Recorded : i[2] = d
      BY <1>1, <2>1 DEF DraftsReady, Ids
    <3>3. d \in Ids(drafts)' \/ \E i \in Recorded' : i[2] = d
      BY <1>1, <1>2, <3>1, <3>2 DEF Ids
    <3>4. QED
      BY <3>3 DEF Kept, Recorded
  <2>2. QED
    BY <1>1, <1>2, <2>1 DEF KeepInv, AnswersHold
<1>5. job'[c].saves \subseteq Ids(drafts)' /\ job'[c].makes \subseteq Recorded'
  BY <1>1, <1>2 DEF DraftsReady, KeepInv, CallInOrder, Ids
<1>6. CallInOrder(c)'
  BY <1>1, <1>5 DEF CallInOrder, StepsFit, RewritesComments, RewritesDrafts
<1>7. QED
  BY <1>1, <1>3, <1>4, <1>6, InsideKeeps DEF Busy

LEMMA AnswerKeeps ==
  ASSUME KeepInv, TypeOK', NEW c \in Calls, Answer(c)
  PROVE  KeepInv'
<1>1. /\ pc[c] = "answer" /\ pc'[c] = "idle" /\ job'[c] = NoJob
      /\ \A d \in Calls \ {c} : job'[d] = job[d] /\ pc'[d] = pc[d]
      /\ UNCHANGED files /\ stamp' = stamp /\ discarded' = discarded
      /\ confirmed' = confirmed \cup job[c].makes /\ saved' = saved \cup job[c].saves
  BY DEF Answer, KeepInv, TypeOK
<1>2. job[c].makes \subseteq Recorded /\ job[c].saves \subseteq Ids(drafts)
  BY <1>1 DEF KeepInv, CallInOrder, RewritesComments, RewritesDrafts
<1>3. Recorded' = Recorded /\ \A d : Kept(d)' <=> Kept(d)
  BY <1>1 DEF Recorded, Kept, Ids, Tombstones, files
<1>4. AnswersHold'
  BY <1>1, <1>2, <1>3 DEF KeepInv, AnswersHold, Kept
<1>5. FilesInOrder'
  BY <1>1, StampedStay DEF KeepInv, TypeOK, files
<1>6. CallInOrder(c)'
  BY <1>1, WaitingInOrder DEF NoJob
<1>7. QED
  BY <1>1, <1>4, <1>5, <1>6, InsideKeeps DEF Busy

\* Whatever is abandoned, at any step, the files are as good as before.
LEMMA AbandonKeeps ==
  ASSUME KeepInv, TypeOK', NEW cs, Abandon(cs),
         \A c \in Calls \ cs : ~Busy(c)
  PROVE  KeepInv'
<1>1. /\ \A d \in Calls : job'[d] = IF d \in cs THEN NoJob ELSE job[d]
      /\ \A d \in Calls : pc'[d] = IF d \in cs THEN "idle" ELSE pc[d]
      /\ UNCHANGED files /\ stamp' = stamp /\ discarded' = discarded /\ UNCHANGED answers
  BY DEF Abandon
<1>2. ASSUME NEW d \in Calls
      PROVE  CallInOrder(d)' /\ ~Busy(d)'
  <2>1. /\ pc'[d] \in {"idle", "checked"} /\ job'[d].op = "none"
        /\ job'[d].makes = {} /\ job'[d].saves = {}
    BY <1>1 DEF NoJob, Busy, KeepInv, CallInOrder, StepsFit
  <2>2. QED
    BY <2>1, WaitingInOrder DEF Busy
<1>3. AnswersHold' /\ FilesInOrder'
  BY <1>1, AnswersStay, StampedStay DEF KeepInv, TypeOK, files
<1>4. QED
  BY <1>2, <1>3 DEF KeepInv, OneAtATime

-----------------------------------------------------------------------------
(* Nothing saved is lost *)

LEMMA KeepStep ==
  ASSUME SoleServer, KeepInv, [Next]_vars
  PROVE  KeepInv'
<1>1. TypeOK'
  BY TypeStep DEF KeepInv
<1>2. ASSUME NEW c \in Calls, Load(c)
      PROVE  KeepInv'
  BY <1>1, <1>2, CreateThreadKeeps, LookKeeps, AddReplyKeeps, UpdateCommentKeeps,
     DeletePublishedKeeps, CreateDraftKeeps, UpdateDraftKeeps, DeleteDraftKeeps,
     PublishDraftsKeeps
  DEF Load
<1>3. ASSUME NEW c \in Calls, LoseTmp(c) \/ FailCall(c)
      PROVE  KeepInv'
  BY <1>1, <1>3, AbandonKeeps DEF LoseTmp, FailCall, Busy, KeepInv, OneAtATime
<1>4. ASSUME NEW c \in Calls, FileStep(c)
      PROVE  KeepInv'
  BY <1>1, <1>3, <1>4, WriteCommentsTmpKeeps, RenameCommentsKeeps, AppendEventKeeps,
     WriteDraftsTmpKeeps, RenameDraftsKeeps, AnswerKeeps
  DEF FileStep
<1>5. ASSUME NEW s \in Servers, Crash(s)
      PROVE  KeepInv'
  <2>1. Abandon({c \in Calls : Home[c] = s}) /\ \A c \in Calls : Home[c] = s
    BY <1>5 DEF Crash, SoleServer
  <2>2. QED
    BY <1>1, <2>1, AbandonKeeps
<1>6. CASE UNCHANGED vars
  <2>1. UNCHANGED files /\ UNCHANGED answers /\ stamp' = stamp /\ discarded' = discarded
        /\ pc' = pc /\ job' = job
    BY <1>6 DEF vars
  <2>2. AnswersHold' /\ FilesInOrder'
    BY <2>1, AnswersStay, StampedStay DEF KeepInv, TypeOK, files
  <2>3. ASSUME NEW c \in Calls
        PROVE  CallInOrder(c)'
    BY <2>1 DEF files, KeepInv, CallInOrder, StepsFit, RewritesComments, RewritesDrafts,
       CommentsReady, DraftsReady, Coming, Recorded, Tombstones, Ids, CommentsStamped,
       DraftsStamped, OneRowEach
  <2>4. QED
    BY <1>1, <2>1, <2>2, <2>3 DEF KeepInv, OneAtATime, Busy
<1>7. QED
  BY <1>2, <1>3, <1>4, <1>5, <1>6 DEF Next

LEMMA KeepInit == Init => KeepInv
<1> SUFFICES ASSUME Init PROVE KeepInv
  OBVIOUS
<1>1. TypeOK
  BY NoJobType, StoreAssumption DEF Init, TypeOK, Steps
<1>2. \A c \in Calls : CallInOrder(c)
  BY DEF Init, NoJob, CallInOrder, StepsFit, RewritesComments, RewritesDrafts
<1>3. OneAtATime /\ FilesInOrder /\ AnswersHold
  BY DEF Init, OneAtATime, Busy, FilesInOrder, CommentsStamped, DraftsStamped, OneRowEach,
         AnswersHold
<1>4. QED
  BY <1>1, <1>2, <1>3 DEF KeepInv

LEMMA KeepAlways ==
  ASSUME SoleServer
  PROVE  Spec => []KeepInv
BY KeepInit, KeepStep, PTL DEF Spec

\* With one server on the data directory, a draft whose saving was answered with
\* success is a draft or a published comment until somebody deletes it, and a
\* comment whose creation was answered stays readable until it is deleted, for
\* any number of calls, crashes and failing file operations.
THEOREM NothingSavedGetsLost ==
  ASSUME SoleServer
  PROVE  Spec => []NothingSavedIsLost
<1>1. KeepInv => NothingSavedIsLost
  BY DEF KeepInv, AnswersHold, NothingSavedIsLost, SavedDraftsAreKept,
         ConfirmedCommentsAreKept, Recorded, ReadAll, Ids
<1>2. QED
  BY <1>1, KeepAlways, PTL

\* ... and no body of a draft or comment goes back to an older text: what
\* replaces a file was read from it, with every newer text in it; a published
\* comment says what its draft says.
THEOREM TextsGoForward ==
  ASSUME SoleServer
  PROVE  Spec => TextsMoveForward
<1> DEFINE Forward ==
             /\ \A d \in drafts, e \in drafts' : d.id = e.id => e.text >= d.text
             /\ \A m \in comments, n \in comments' : m.id = n.id => n.text >= m.text
             /\ \A n \in comments' : n.id[2] # 0 /\ n.id \notin Ids(comments) =>
                   \E d \in drafts : d.id = n.id[2] /\ d.text = n.text
<1>1. ASSUME KeepInv, NEW c \in Calls, RenameComments(c)
      PROVE  Forward
  <2>1. CommentsReady(c) /\ comments' = job[c].comments /\ drafts' = drafts
    BY <1>1, RenameCommentsEffect
  <2>2. \A n \in comments' : n.text \in Nat
    BY <1>1, <2>1 DEF KeepInv, TypeOK, Job, Comment
  <2>3. \A m \in comments : m.text \in Nat
    BY <1>1 DEF KeepInv, TypeOK, Comment
  <2>4. \A d \in drafts, e \in drafts' : d.id = e.id => e.text >= d.text
    BY <1>1, <2>1 DEF KeepInv, FilesInOrder, OneRowEach, TypeOK, Draft
  <2>5. \A m \in comments, n \in comments' : m.id = n.id => n.text >= m.text
    BY <2>1, <2>2, <2>3 DEF CommentsReady
  <2>6. QED
    BY <2>1, <2>4, <2>5 DEF CommentsReady
<1>2. ASSUME KeepInv, NEW c \in Calls, RenameDrafts(c)
      PROVE  Forward
  <2>1. DraftsReady(c) /\ drafts' = job[c].drafts /\ comments' = comments
    BY <1>2, RenameDraftsEffect
  <2>2. \A d \in drafts' : d.text \in Nat
    BY <1>2, <2>1 DEF KeepInv, TypeOK, Job, Draft
  <2>3. \A d \in drafts : d.text \in Nat
    BY <1>2 DEF KeepInv, TypeOK, Draft
  <2>4. \A d \in drafts, e \in drafts' : d.id = e.id => e.text >= d.text
    BY <2>1, <2>2, <2>3 DEF DraftsReady
  <2>5. \A m \in comments, n \in comments' : m.id = n.id => n.text >= m.text
    BY <1>2, <2>1 DEF KeepInv, FilesInOrder, OneRowEach, TypeOK, Comment
  <2>6. QED
    BY <2>1, <2>4, <2>5 DEF Ids
<1>3. ASSUME KeepInv, [Next]_vars
      PROVE  [Forward]_<<comments, drafts>>
  <2>1. ASSUME NEW c \in Calls, Load(c)
        PROVE  UNCHANGED <<comments, drafts>>
    BY <2>1 DEF Load, CreateThread, CheckThread, RepeatReply, AddReply, UpdateComment,
                DeletePublished, CreateDraft, UpdateDraft, DeleteDraft, PublishDrafts,
                Begin, files
  <2>2. ASSUME NEW cs, Abandon(cs)
        PROVE  UNCHANGED <<comments, drafts>>
    BY <2>2 DEF Abandon, files
  <2>3. ASSUME NEW c \in Calls, FileStep(c)
        PROVE  [Forward]_<<comments, drafts>>
    BY <1>1, <1>2, <1>3, <2>2, <2>3
    DEF FileStep, WriteCommentsTmp, AppendEvent, WriteDraftsTmp, Answer, LoseTmp, files
  <2>4. QED
    BY <1>3, <2>1, <2>2, <2>3 DEF Next, FailCall, Crash, vars, files
<1>4. QED
  BY <1>3, KeepAlways, PTL DEF Spec, TextsMoveForward

-----------------------------------------------------------------------------
(* The journal and the comments, when nothing fails *)

\* The events announce comment m: thread.created is enough when m has no key.
Tells(events, m) ==
    \/ AddedEvent(m) \in events
    \/ m.key = NoKey /\ CreatedEvent(m) \in events

OncePerKey(rows) ==
    \A m, n \in rows : /\ m.thread = n.thread /\ m.actor = n.actor
                       /\ m.key = n.key /\ m.key # NoKey
                       => m = n
OncePublished(ids) == \A i, j \in ids : i[2] = j[2] /\ i[2] # 0 => i = j
Unpublished(rows) == \A d \in rows : \A i \in Recorded : i[2] # d.id

\* The call has events to append only until it has appended them.
EventsFit(c) ==
    /\ pc[c] \in {"idle", "checked", "drafts", "renameDrafts", "answer"} =>
          job[c].events = {}
    /\ pc[c] \in {"comments", "renameComments"} /\ job[c].op \in {"publish", "update"} =>
          job[c].events = {}

\* What a call is going to put in place of comments.jsonl.
Creates(c) ==
    \E m \in job[c].comments : /\ job[c].comments = ReadAll \cup {m}
                               /\ m.id \notin Recorded /\ m.id[2] = 0
Updates(c) ==
    \E m \in ReadAll, n \in job[c].comments :
        /\ job[c].comments = (ReadAll \ {m}) \cup {n}
        /\ n.id = m.id /\ n.thread = m.thread /\ n.actor = m.actor /\ n.key = m.key
        /\ n.text > m.text
PublishesAs(c, sel, batch, n) ==
    /\ sel # {} /\ batch \subseteq job[c].comments
    /\ job[c].drafts = drafts \ sel
    /\ job[c].comments = ReadAll \cup batch
    /\ \A m \in batch : /\ m.id \notin Recorded /\ m.key = NoKey
                        /\ \E d \in sel : m.id = <<n, d.id>> /\ m.text = d.text
    /\ \A d \in sel : \E m \in batch : m.id = <<n, d.id>> /\ m.text = d.text
Publishes(c) ==
    \E sel \in SUBSET drafts, batch \in SUBSET job[c].comments, n \in 1 .. stamp :
        PublishesAs(c, sel, batch, n)

\* What a call is going to put in place of comment-drafts.jsonl.
Drafts(c) ==
    \/ \E d \in job[c].drafts : /\ d.id \notin Ids(drafts) /\ \A i \in Recorded : i[2] # d.id
                        /\ job[c].drafts = drafts \cup {d}
    \/ \E d \in drafts, e \in job[c].drafts : /\ job[c].drafts = (drafts \ {d}) \cup {e}
                                      /\ e.id = d.id /\ e.text > d.text
    \/ \E d \in drafts : job[c].drafts = drafts \ {d}

Intends(c) ==
    /\ pc[c] \in {"comments", "renameComments"} /\ job[c].op \in {"create", "reply"} =>
          Creates(c)
    /\ RewritesComments(c) /\ job[c].op = "update" => Updates(c)
    /\ RewritesComments(c) /\ job[c].op = "publish" => Publishes(c)
    /\ pc[c] \in {"drafts", "renameDrafts"} /\ job[c].op = "draft" => Drafts(c)
    /\ pc[c] \in {"drafts", "renameDrafts"} /\ job[c].op = "publish" =>
          \E sel \in SUBSET drafts :
             /\ job[c].drafts = drafts \ sel
             /\ \A d \in drafts : d \in sel <=> \E i \in Recorded : i[2] = d.id

JournalFits(c) ==
    /\ EventsFit(c)
    /\ Intends(c)
    /\ RewritesComments(c) =>
          /\ \A m \in job[c].comments : Tells(journal \cup job[c].events, m)
          /\ OncePerKey(job[c].comments)
          /\ OncePublished(Ids(comments) \cup Ids(job[c].comments))
    /\ \A e \in job[c].events :
          /\ e.type = "added" => e.comment \in Recorded \cup Coming(c)
          /\ e.type = "deleted" => /\ job[c].op = "delete" /\ job[c].events = {e}
                                  /\ e.comment \in Ids(ReadAll)

\* ... for the files, with what the calls are still going to do.
FilesTell ==
    /\ \A m \in ReadAll :
          \/ Tells(journal, m)
          \/ \E c \in Calls : pc[c] = "journal" /\ Tells(journal \cup job[c].events, m)
    /\ \A e \in journal : e.type = "added" =>
          e.comment \in Recorded \/ \E c \in Calls : e.comment \in Coming(c)
    /\ \A i \in Tombstones : i[1] <= stamp /\ i[2] <= stamp
    /\ OncePerKey(ReadAll) /\ OncePublished(Ids(comments))
    /\ \/ Unpublished(drafts)
       \/ \E c \in Calls : pc[c] \in {"drafts", "renameDrafts"} /\ job[c].op = "publish"

JournalInv ==
    /\ KeepInv
    /\ FilesTell
    /\ \A c \in Calls : JournalFits(c)

-----------------------------------------------------------------------------
(* Lemmas on calls that are outside the store *)

LEMMA SameFiles ==
  ASSUME UNCHANGED files
  PROVE  /\ ReadAll' = ReadAll /\ Recorded' = Recorded /\ Tombstones' = Tombstones
         /\ comments' = comments /\ drafts' = drafts /\ journal' = journal
         /\ Ids(comments)' = Ids(comments) /\ Ids(ReadAll)' = Ids(ReadAll)
         /\ Ids(drafts)' = Ids(drafts)
  BY DEF files, ReadAll, Recorded, Tombstones, Ids

\* A call that rewrites nothing fits when its events do.
LEMMA PlainFits ==
  ASSUME NEW c \in Calls, ~RewritesComments(c)', EventsFit(c)',
         pc'[c] \notin {"drafts", "renameDrafts"}, job'[c].events = {}
  PROVE  JournalFits(c)'
  BY DEF JournalFits, Intends, RewritesComments

LEMMA WaitingFits ==
  ASSUME NEW c \in Calls, pc'[c] \in {"idle", "checked", "answer"}, job'[c].events = {}
  PROVE  JournalFits(c)'
<1>1. ~RewritesComments(c)' /\ EventsFit(c)'
  BY DEF RewritesComments, EventsFit
<1>2. QED
  BY <1>1, PlainFits

LEMMA OthersFit ==
  ASSUME JournalInv, NEW c \in Calls, NEW d \in Calls, d # c,
         \/ Busy(c)
         \/ \A e \in Calls : ~Busy(e),
         job'[d] = job[d], pc'[d] = pc[d]
  PROVE  /\ JournalFits(d)' /\ job[d].events = {} /\ Coming(d) = {} /\ Coming(d)' = {}
         /\ pc[d] \in {"idle", "checked"}
<1>1. pc[d] \in {"idle", "checked"}
  BY DEF JournalInv, KeepInv, OneAtATime, Busy
<1>2. job[d].events = {}
  BY <1>1 DEF JournalInv, JournalFits, EventsFit
<1>3. Coming(d) = {} /\ Coming(d)' = {}
  BY <1>1 DEF Coming, RewritesComments
<1>4. QED
  BY <1>1, <1>2, <1>3, WaitingFits

\* When no call is inside the store, the journal tells everything and no draft
\* is published.
LEMMA Settled ==
  ASSUME JournalInv, \A c \in Calls : ~Busy(c)
  PROVE  /\ \A m \in ReadAll : Tells(journal, m)
         /\ \A e \in journal : e.type = "added" => e.comment \in Recorded
         /\ Unpublished(drafts)
<1>1. \A c \in Calls : pc[c] \in {"idle", "checked"} /\ Coming(c) = {}
  BY DEF Busy, Coming, RewritesComments
<1>2. QED
  BY <1>1 DEF JournalInv, FilesTell

\* An operation that has read the files and prepared its call well.
LEMMA BeginFits ==
  ASSUME JournalInv, KeepInv', NEW c \in Calls, \A d \in Calls : ~Busy(d),
         \A d \in Calls \ {c} : job'[d] = job[d] /\ pc'[d] = pc[d],
         UNCHANGED files, stamp <= stamp', JournalFits(c)'
  PROVE  JournalInv'
<1>1. \A d \in Calls : JournalFits(d)'
  BY OthersFit
<1>2. \A i \in Tombstones' : i[1] <= stamp' /\ i[2] <= stamp'
  <2>1. \A i \in Tombstones : /\ i[1] \in Nat /\ i[2] \in Nat
                              /\ i[1] <= stamp /\ i[2] <= stamp
    BY DEF JournalInv, FilesTell, KeepInv, TypeOK, Tombstones, Event, CommentId
  <2>2. stamp \in Nat /\ stamp' \in Nat
    BY DEF JournalInv, KeepInv, TypeOK
  <2>3. QED
    BY <2>1, <2>2, SameFiles
<1>3. FilesTell'
  BY <1>2, Settled, SameFiles
  DEF JournalInv, FilesTell, OncePerKey, OncePublished, Unpublished, Tells
<1>4. QED
  BY <1>1, <1>3 DEF JournalInv

\* Nothing is recorded under an id that the stamp has not reached.
LEMMA FreshId ==
  ASSUME JournalInv
  PROVE  \A i \in Recorded : i[1] <= stamp /\ i[2] <= stamp /\ i[1] \in Nat /\ i[2] \in Nat
<1>1. \A i \in Tombstones : i[1] <= stamp /\ i[2] <= stamp /\ i[1] \in Nat /\ i[2] \in Nat
  BY DEF JournalInv, FilesTell, KeepInv, TypeOK, Tombstones, Event, CommentId
<1>2. \A m \in comments : /\ m.id[1] <= stamp /\ m.id[2] <= stamp
                          /\ m.id[1] \in Nat /\ m.id[2] \in Nat
  BY DEF JournalInv, KeepInv, FilesInOrder, CommentsStamped, TypeOK, Comment, CommentId
<1>3. QED
  BY <1>1, <1>2 DEF Recorded, Ids

-----------------------------------------------------------------------------
(* The operations, up to their reads *)

\* A call that writes a new comment or a reply announces it.
LEMMA CreateFits ==
  ASSUME JournalInv, \A d \in Calls : ~Busy(d), UNCHANGED files,
         NEW c \in Calls, NEW m \in Comment, NEW e,
         m.id = <<stamp + 1, 0>>,
         pc'[c] = "comments", job'[c].op \in {"create", "reply"},
         job'[c].comments = ReadAll \cup {m}, job'[c].events = {e},
         \/ e = AddedEvent(m)
         \/ e = CreatedEvent(m) /\ m.key = NoKey,
         \A n \in ReadAll : ~ (/\ m.thread = n.thread /\ m.actor = n.actor
                               /\ m.key = n.key /\ m.key # NoKey)
  PROVE  JournalFits(c)'
<1>1. RewritesComments(c)' /\ EventsFit(c)'
  BY DEF RewritesComments, EventsFit
<1>2. /\ ReadAll' = ReadAll /\ Recorded' = Recorded /\ journal' = journal
      /\ Ids(comments)' = Ids(comments)
  BY SameFiles
<1>3. m.id \notin Recorded /\ m.id[2] = 0
  BY FreshId DEF JournalInv, KeepInv, TypeOK
<1>4. Creates(c)'
  BY <1>2, <1>3 DEF Creates
<1>5. Intends(c)'
  BY <1>4 DEF Intends, RewritesComments
<1>6. \A n \in job'[c].comments : Tells(journal' \cup job'[c].events, n)
  <2>1. \A n \in ReadAll : Tells(journal, n)
    BY Settled
  <2>2. QED
    BY <1>2, <2>1 DEF Tells
<1>7. OncePerKey(job'[c].comments)
  BY DEF JournalInv, FilesTell, OncePerKey
<1>8. OncePublished(Ids(comments)' \cup Ids(job'[c].comments))
  <2>1. Ids(job'[c].comments) \subseteq Ids(comments) \cup {m.id}
    BY DEF Ids, ReadAll
  <2>2. QED
    BY <1>2, <1>3, <2>1 DEF JournalInv, FilesTell, OncePublished
<1>9. e.type = "added" => e.comment \in Coming(c)'
  BY <1>1 DEF Coming, Ids, AddedEvent, CreatedEvent
<1>10. e.type # "deleted"
  BY DEF AddedEvent, CreatedEvent
<1>11. QED
  BY <1>1, <1>5, <1>6, <1>7, <1>8, <1>9, <1>10 DEF JournalFits, Tells, OncePerKey, OncePublished, Ids

LEMMA CreateThreadFits ==
  ASSUME SoleServer, JournalInv, KeepInv', NEW c \in Calls, NEW actor \in Actors,
         CreateThread(c, actor)
  PROVE  JournalInv'
<1> DEFINE id == <<stamp + 1, 0>>
           m == [id |-> id, thread |-> id, actor |-> actor, key |-> NoKey,
                 text |-> stamp + 1]
           j == [NoJob EXCEPT !.op = "create",
                              !.comments = ReadAll \cup {m},
                              !.events = {CreatedEvent(m)},
                              !.makes = {id}]
<1>1. TypeOK
  BY DEF JournalInv, KeepInv
<1>2. Begin(c, j) /\ stamp' = stamp + 1 /\ Unlocked(c)
  BY DEF CreateThread, Stamped
<1>3. m \in Comment /\ m.id = id /\ m.key = NoKey
  BY <1>1 DEF TypeOK, Comment, CommentId
<1>4. j.op = "create" /\ j.comments = ReadAll \cup {m} /\ j.events = {CreatedEvent(m)}
  BY DEF NoJob
<1>5. After(j.op, "load") = "comments"
  BY <1>4 DEF After, CreateOrder
<1> HIDE DEF j, m
<1>6. JournalFits(c)'
  BY <1>1, <1>2, <1>3, <1>4, <1>5, BeginEffect, CreateFits, UnlockedMeansAlone
<1>7. QED
  BY <1>1, <1>2, <1>6, BeginEffect, BeginFits, UnlockedMeansAlone DEF TypeOK

\* A reply with a key was not found in the journal, where it would be.
LEMMA AddReplyFits ==
  ASSUME SoleServer, JournalInv, KeepInv', NEW c \in Calls, NEW actor \in Actors,
         NEW key \in Keys \cup {NoKey}, AddReply(c, actor, key)
  PROVE  JournalInv'
<1> DEFINE id == <<stamp + 1, 0>>
           m == [id |-> id, thread |-> job[c].thread, actor |-> actor,
                 key |-> key, text |-> stamp + 1]
           j == [NoJob EXCEPT !.op = "reply", !.thread = m.thread,
                              !.comments = ReadAll \cup {m},
                              !.events = {AddedEvent(m)},
                              !.makes = {id}]
<1>1. TypeOK
  BY DEF JournalInv, KeepInv
<1>2. Begin(c, j) /\ stamp' = stamp + 1 /\ Unlocked(c)
  BY DEF AddReply, Stamped
<1>3. /\ m \in Comment /\ m.id = id /\ m.key = key /\ m.actor = actor
      /\ m.thread = job[c].thread
  BY <1>1 DEF TypeOK, Comment, CommentId, Job
<1>4. j.op = "reply" /\ j.comments = ReadAll \cup {m} /\ j.events = {AddedEvent(m)}
  BY DEF NoJob
<1>5. After(j.op, "load") = "comments"
  BY <1>4 DEF After, CreateOrder
<1> HIDE DEF j, m
<1>6. ASSUME NEW n \in ReadAll, m.thread = n.thread, m.actor = n.actor,
             m.key = n.key, m.key # NoKey
      PROVE  FALSE
  <2>1. AddedEvent(n) \in journal
    BY <1>2, <1>6, Settled, UnlockedMeansAlone DEF Tells
  <2>2. n \in EarlierReply(job[c].thread, actor, key)
    BY <1>3, <1>6, <2>1 DEF EarlierReply, AddedEvent
  <2>3. QED
    BY <2>2 DEF AddReply
<1>7. JournalFits(c)'
  BY <1>1, <1>2, <1>3, <1>4, <1>5, <1>6, BeginEffect, CreateFits, UnlockedMeansAlone
<1>8. QED
  BY <1>1, <1>2, <1>7, BeginEffect, BeginFits, UnlockedMeansAlone DEF TypeOK

LEMMA LookFits ==
  ASSUME SoleServer, JournalInv, KeepInv', NEW c \in Calls,
         \/ CheckThread(c)
         \/ \E actor \in Actors, key \in Keys \cup {NoKey} : RepeatReply(c, actor, key)
  PROVE  JournalInv'
<1>1. TypeOK /\ UNCHANGED files /\ stamp' = stamp /\ Unlocked(c)
  BY DEF JournalInv, KeepInv, CheckThread, RepeatReply
<1>2. \A d \in Calls \ {c} : job'[d] = job[d] /\ pc'[d] = pc[d]
  BY <1>1 DEF CheckThread, RepeatReply, TypeOK
<1>3. pc'[c] \in {"checked", "answer"} /\ job'[c].events = {}
  <2>1. CASE CheckThread(c)
    BY <1>1, <2>1 DEF CheckThread, NoJob, TypeOK
  <2>2. CASE \E actor \in Actors, key \in Keys \cup {NoKey} : RepeatReply(c, actor, key)
    <3>1. pc[c] = "checked" /\ pc'[c] = "answer" /\ job'[c] = [job[c] EXCEPT !.op = "reply"]
      BY <1>1, <2>2 DEF RepeatReply, TypeOK
    <3>2. job[c].events = {} /\ job[c] \in Job
      BY <1>1, <3>1 DEF JournalInv, JournalFits, EventsFit, TypeOK
    <3>3. QED
      BY <3>1, <3>2 DEF Job
  <2>3. QED
    BY <2>1, <2>2
<1>4. JournalFits(c)'
  BY <1>3, WaitingFits
<1>5. QED
  BY <1>1, <1>2, <1>4, BeginFits, UnlockedMeansAlone DEF TypeOK

LEMMA UpdateCommentFits ==
  ASSUME SoleServer, JournalInv, KeepInv', NEW c \in Calls, UpdateComment(c)
  PROVE  JournalInv'
<1> DEFINE new(m) == [m EXCEPT !.text = stamp + 1]
           j(m) == [NoJob EXCEPT !.op = "update",
                                 !.comments = (ReadAll \ {m}) \cup {new(m)},
                                 !.events = {UpdatedEvent(m)}]
<1>1. PICK m \in ReadAll : Begin(c, j(m))
  BY DEF UpdateComment
<1>2. TypeOK /\ stamp' = stamp + 1 /\ Unlocked(c)
  BY DEF JournalInv, KeepInv, UpdateComment, Stamped
<1>3. /\ j(m).op = "update" /\ j(m).events = {UpdatedEvent(m)}
      /\ j(m).comments = (ReadAll \ {m}) \cup {new(m)}
  BY DEF NoJob
<1>4. After("update", "load") = "journal"
  BY DEF After, UpdateOrder
<1>5. /\ m \in Comment /\ m \in comments
      /\ new(m).id = m.id /\ new(m).thread = m.thread /\ new(m).actor = m.actor
      /\ new(m).key = m.key /\ new(m).text = stamp + 1
  BY <1>2, ReadAllType DEF ReadAll, Comment
<1>6. new(m).text > m.text
  <2>1. m.text \in Nat /\ m.text <= stamp /\ stamp \in Nat
    BY <1>2, <1>5 DEF JournalInv, KeepInv, FilesInOrder, CommentsStamped, TypeOK, Comment
  <2>2. QED
    BY <1>5, <2>1
<1> HIDE DEF j, new
<1>7. /\ job'[c] = j(m) /\ pc'[c] = "journal" /\ UNCHANGED files
      /\ \A d \in Calls \ {c} : job'[d] = job[d] /\ pc'[d] = pc[d]
  BY <1>1, <1>2, <1>3, <1>4, BeginEffect
<1>8. /\ ReadAll' = ReadAll /\ Recorded' = Recorded /\ journal' = journal
      /\ Ids(comments)' = Ids(comments)
  BY <1>7, SameFiles
<1>9. RewritesComments(c)' /\ EventsFit(c)' /\ ~(pc'[c] \in {"comments", "renameComments"})
  BY <1>3, <1>7 DEF RewritesComments, EventsFit
<1>10. Intends(c)'
  <2>1. Updates(c)'
    BY <1>3, <1>5, <1>6, <1>7, <1>8 DEF Updates
  <2>2. QED
    BY <1>3, <1>7, <2>1 DEF Intends
<1>11. \A n \in job'[c].comments : Tells(journal' \cup job'[c].events, n)
  <2>1. \A n \in ReadAll : Tells(journal, n)
    BY <1>2, Settled, UnlockedMeansAlone
  <2>2. Tells(journal, new(m))
    BY <1>5, <2>1 DEF Tells, AddedEvent, CreatedEvent
  <2>3. QED
    BY <1>3, <1>7, <1>8, <2>1, <2>2 DEF Tells
<1>12. OncePerKey(job'[c].comments)
  BY <1>3, <1>5, <1>7 DEF JournalInv, FilesTell, OncePerKey
<1>13. OncePublished(Ids(comments)' \cup Ids(job'[c].comments))
  <2>1. Ids(job'[c].comments) \subseteq Ids(comments)
    BY <1>3, <1>5, <1>7 DEF Ids, ReadAll
  <2>2. QED
    BY <1>8, <2>1 DEF JournalInv, FilesTell, OncePublished
<1>14. UpdatedEvent(m).type = "updated"
  BY DEF UpdatedEvent
<1>15. JournalFits(c)'
  BY <1>3, <1>7, <1>9, <1>10, <1>11, <1>12, <1>13, <1>14
  DEF JournalFits, Tells, OncePerKey, OncePublished, Ids
<1>16. QED
  BY <1>2, <1>7, <1>15, BeginFits, UnlockedMeansAlone DEF TypeOK

LEMMA DeletePublishedFits ==
  ASSUME SoleServer, JournalInv, KeepInv', NEW c \in Calls, DeletePublished(c)
  PROVE  JournalInv'
<1>1. UNCHANGED stamp /\ Unlocked(c) /\ TypeOK
  BY DEF DeletePublished, JournalInv, KeepInv
<1>2. /\ UNCHANGED files
      /\ \A d \in Calls \ {c} : job'[d] = job[d] /\ pc'[d] = pc[d]
      /\ JournalFits(c)'
  <2>1. CASE \E m \in ReadAll :
               Begin(c, [NoJob EXCEPT !.op = "delete", !.events = {DeletedEvent(m)},
                                      !.erases = {m.id}])
    <3> DEFINE j(m) == [NoJob EXCEPT !.op = "delete", !.events = {DeletedEvent(m)},
                                     !.erases = {m.id}]
    <3>1. PICK m \in ReadAll : Begin(c, j(m))
      BY <2>1
    <3>2. j(m).op = "delete" /\ j(m).events = {DeletedEvent(m)}
      BY DEF NoJob
    <3> HIDE DEF j
    <3>3. After(j(m).op, "load") = "journal"
      BY <3>2 DEF After, DeleteOrder
    <3>4. /\ job'[c] = j(m) /\ pc'[c] = "journal" /\ UNCHANGED files
          /\ \A d \in Calls \ {c} : job'[d] = job[d] /\ pc'[d] = pc[d]
      BY <1>1, <3>1, <3>3, BeginEffect
    <3>5. ~RewritesComments(c)' /\ EventsFit(c)' /\ Intends(c)'
      BY <3>2, <3>4 DEF RewritesComments, EventsFit, Intends
    <3>6. \A e \in job'[c].events : /\ e.type = "deleted" /\ job'[c].op = "delete"
                                    /\ job'[c].events = {e} /\ e.comment \in Ids(ReadAll)'
      BY <3>2, <3>4, SameFiles DEF DeletedEvent, Ids
    <3>7. QED
      BY <3>4, <3>5, <3>6 DEF JournalFits
  <2>2. CASE \E i \in Tombstones :
               /\ job' = [job EXCEPT ![c] = [NoJob EXCEPT !.op = "delete",
                                                          !.erases = {i}]]
               /\ pc' = [pc EXCEPT ![c] = "answer"]
               /\ UNCHANGED <<files, faults, answers>>
    BY <1>1, <2>2, WaitingFits DEF NoJob, TypeOK
  <2>3. QED
    BY <2>1, <2>2 DEF DeletePublished
<1>3. QED
  BY <1>1, <1>2, BeginFits, UnlockedMeansAlone DEF TypeOK

\* A call that adds, changes or removes one draft.
LEMMA DraftFits ==
  ASSUME SoleServer, JournalInv, KeepInv', NEW c \in Calls, NEW rows, NEW j,
         Begin(c, j), j.op = "draft", j.drafts = rows, j.events = {},
         stamp <= stamp', Unlocked(c),
         \/ \E d \in rows : /\ d.id \notin Ids(drafts) /\ \A i \in Recorded : i[2] # d.id
                            /\ rows = drafts \cup {d}
         \/ \E d \in drafts, e \in rows : /\ rows = (drafts \ {d}) \cup {e}
                                          /\ e.id = d.id /\ e.text > d.text
         \/ \E d \in drafts : rows = drafts \ {d}
  PROVE  JournalInv'
<1>1. After(j.op, "load") = "drafts"
  BY DEF After, DraftOrder
<1>2. /\ job'[c] = j /\ pc'[c] = "drafts" /\ UNCHANGED files
      /\ \A d \in Calls \ {c} : job'[d] = job[d] /\ pc'[d] = pc[d]
  BY <1>1, BeginEffect DEF JournalInv, KeepInv
<1>3. Drafts(c)'
  <2>1. drafts' = drafts /\ Recorded' = Recorded /\ Ids(drafts)' = Ids(drafts)
    BY <1>2, SameFiles
  <2>2. QED
    BY <1>2, <2>1 DEF Drafts
<1>4. ~RewritesComments(c)' /\ EventsFit(c)' /\ Intends(c)'
  BY <1>2, <1>3 DEF RewritesComments, EventsFit, Intends
<1>5. JournalFits(c)'
  BY <1>2, <1>4 DEF JournalFits
<1>6. QED
  BY <1>2, <1>5, BeginFits, UnlockedMeansAlone

LEMMA DraftsFit ==
  ASSUME SoleServer, JournalInv, KeepInv', NEW c \in Calls,
         CreateDraft(c) \/ UpdateDraft(c) \/ DeleteDraft(c)
  PROVE  JournalInv'
<1>1. /\ TypeOK /\ Unlocked(c) /\ stamp \in Nat
      /\ \A d \in drafts : /\ d.id \in Nat /\ d.text \in Nat
                           /\ d.id <= stamp /\ d.text <= stamp
  BY DEF JournalInv, KeepInv, FilesInOrder, DraftsStamped, TypeOK, Draft,
         CreateDraft, UpdateDraft, DeleteDraft
<1>2. CASE CreateDraft(c)
  <2> DEFINE row(p, reply, under) ==
               [id |-> stamp + 1, place |-> p, reply |-> reply, under |-> under,
                text |-> stamp + 1]
             j(p, reply, under) ==
               [NoJob EXCEPT !.op = "draft",
                             !.drafts = drafts \cup {row(p, reply, under)},
                             !.saves = {stamp + 1}]
  <2>1. \E p, reply, under : Begin(c, j(p, reply, under))
    BY <1>2 DEF CreateDraft
  <2>2. PICK p, reply, under : Begin(c, j(p, reply, under))
    BY <2>1
  <2>3. row(p, reply, under).id = stamp + 1
    OBVIOUS
  <2> HIDE DEF row
  <2>4. /\ j(p, reply, under).op = "draft" /\ j(p, reply, under).events = {}
        /\ j(p, reply, under).drafts = drafts \cup {row(p, reply, under)}
    BY DEF NoJob
  <2> HIDE DEF j
  <2>5. /\ row(p, reply, under).id \notin Ids(drafts)
        /\ \A i \in Recorded : i[2] # row(p, reply, under).id
    BY <1>1, <2>3, FreshId DEF Ids
  <2>6. Stamped
    BY <1>2 DEF CreateDraft
  <2>7. stamp <= stamp'
    BY <1>1, <2>6 DEF Stamped
  <2>8. QED
    BY <1>1, <2>2, <2>4, <2>5, <2>7, DraftFits
<1>3. CASE UpdateDraft(c)
  <2> DEFINE new(d) == [d EXCEPT !.text = stamp + 1]
             j(d) == [NoJob EXCEPT !.op = "draft",
                                   !.drafts = (drafts \ {d}) \cup {new(d)}]
  <2>1. PICK d \in drafts : Begin(c, j(d))
    BY <1>3 DEF UpdateDraft
  <2>2. new(d).id = d.id /\ new(d).text > d.text
    BY <1>1 DEF TypeOK, Draft
  <2> HIDE DEF new
  <2>3. /\ j(d).op = "draft" /\ j(d).events = {}
        /\ j(d).drafts = (drafts \ {d}) \cup {new(d)}
    BY DEF NoJob
  <2> HIDE DEF j
  <2>4. Stamped
    BY <1>3 DEF UpdateDraft
  <2>5. stamp <= stamp'
    BY <1>1, <2>4 DEF Stamped
  <2>6. QED
    BY <1>1, <2>1, <2>2, <2>3, <2>5, DraftFits
<1>4. CASE DeleteDraft(c)
  <2> DEFINE j(d) == [NoJob EXCEPT !.op = "draft", !.drafts = drafts \ {d}]
  <2>1. PICK d \in drafts : Begin(c, j(d))
    BY <1>4 DEF DeleteDraft
  <2>2. j(d).op = "draft" /\ j(d).events = {} /\ j(d).drafts = drafts \ {d}
    BY DEF NoJob
  <2> HIDE DEF j
  <2>3. stamp' = stamp
    BY <1>4 DEF DeleteDraft
  <2>4. QED
    BY <1>1, <2>1, <2>2, <2>3, DraftFits
<1>5. QED
  BY <1>2, <1>3, <1>4

LEMMA PublishDraftsFits ==
  ASSUME SoleServer, JournalInv, KeepInv', NEW c \in Calls, PublishDrafts(c)
  PROVE  JournalInv'
<1> DEFINE batch(sel, lead) == {Published(d, lead) : d \in sel}
           j(sel, lead) == [NoJob EXCEPT
                              !.op = "publish",
                              !.comments = ReadAll \cup batch(sel, lead),
                              !.drafts = drafts \ sel,
                              !.events = {PublishEvent(m) : m \in batch(sel, lead)},
                              !.makes = Ids(batch(sel, lead))]
<1>1. PICK sel \in (SUBSET drafts) \ {{}} :
        \E lead \in [Ids(sel) -> Ids(sel)] : Begin(c, j(sel, lead))
  BY DEF PublishDrafts
<1>2. PICK lead \in [Ids(sel) -> Ids(sel)] : Begin(c, j(sel, lead))
  BY <1>1
<1>3. TypeOK /\ stamp' = stamp + 1 /\ Unlocked(c) /\ stamp \in Nat
  BY DEF JournalInv, KeepInv, PublishDrafts, Stamped, TypeOK
<1>4. LET i == j(sel, lead) IN
      /\ i.op = "publish" /\ i.comments = ReadAll \cup batch(sel, lead)
      /\ i.drafts = drafts \ sel /\ i.events = {PublishEvent(m) : m \in batch(sel, lead)}
  BY DEF NoJob
<1> HIDE DEF j
<1>5. After("publish", "load") = "journal"
  BY DEF After, PublishOrder
<1>6. /\ job'[c] = j(sel, lead) /\ pc'[c] = "journal" /\ UNCHANGED files
      /\ \A e \in Calls \ {c} : job'[e] = job[e] /\ pc'[e] = pc[e]
  BY <1>2, <1>3, <1>4, <1>5, BeginEffect
<1>7. \A d \in sel : /\ Published(d, lead).id = <<stamp + 1, d.id>>
                     /\ Published(d, lead).text = d.text
                     /\ Published(d, lead).key = NoKey
  BY DEF Published
<1> DEFINE new == batch(sel, lead)
<1>8. new \in SUBSET Comment
  BY <1>3, PublishedType
<1>9. /\ \A m \in new : \E d \in sel : m.id = <<stamp + 1, d.id>> /\ m.text = d.text
      /\ \A d \in sel : \E m \in new : m.id = <<stamp + 1, d.id>> /\ m.text = d.text
      /\ \A m \in new : m.key = NoKey
  BY <1>7
<1>10. /\ job'[c].op = "publish" /\ job'[c].comments = ReadAll \cup new
       /\ job'[c].drafts = drafts \ sel
       /\ job'[c].events = {PublishEvent(m) : m \in new}
  BY <1>4, <1>6
<1> HIDE DEF batch, new
<1>11. /\ ReadAll' = ReadAll /\ Recorded' = Recorded /\ journal' = journal
       /\ Ids(comments)' = Ids(comments) /\ drafts' = drafts
  BY <1>6, SameFiles
<1>12. \A m \in new : m.id \notin Recorded
  BY <1>3, <1>9, FreshId
<1>13. RewritesComments(c)' /\ EventsFit(c)' /\ pc'[c] \notin {"drafts", "renameDrafts"}
  BY <1>6, <1>10 DEF RewritesComments, EventsFit
<1>14. Intends(c)'
  <2>1. \E b, n : b = new /\ n = stamp + 1
    OBVIOUS
  <2>2. PICK b, n : b = new /\ n = stamp + 1
    BY <2>1
  <2>3. PublishesAs(c, sel, b, n)'
    BY <1>1, <1>9, <1>10, <1>11, <1>12, <2>2 DEF PublishesAs
  <2>4. n \in (1 .. stamp)' /\ b \in SUBSET job'[c].comments /\ sel \in SUBSET drafts'
    BY <1>1, <1>3, <1>10, <1>11, <2>2
  <2>5. Publishes(c)'
    BY <2>3, <2>4, Zenon DEF Publishes
  <2>6. QED
    BY <1>6, <1>10, <2>5 DEF Intends
<1>15. \A m \in job'[c].comments : Tells(journal' \cup job'[c].events, m)
  <2>1. \A m \in ReadAll : Tells(journal, m)
    BY <1>3, Settled, UnlockedMeansAlone
  <2>2. \A m \in new : Tells(job'[c].events, m)
    BY <1>9, <1>10 DEF Tells, PublishEvent
  <2>3. QED
    BY <1>10, <1>11, <2>1, <2>2 DEF Tells
<1>16. OncePerKey(job'[c].comments)
  BY <1>9, <1>10 DEF JournalInv, FilesTell, OncePerKey
<1>17. OncePublished(Ids(comments)' \cup Ids(job'[c].comments))
  <2>1. Unpublished(drafts)
    BY <1>3, Settled, UnlockedMeansAlone
  <2>2. ASSUME NEW i \in Ids(new)
        PROVE  \E d \in drafts : i = <<stamp + 1, d.id>>
    <3>1. PICK m \in new : i = m.id
      BY DEF Ids
    <3>2. PICK d \in sel : m.id = <<stamp + 1, d.id>>
      BY <1>9
    <3>3. d \in drafts
      BY <1>1
    <3>4. QED
      BY <3>1, <3>2, <3>3
  <2>3. \A i \in Ids(new), k \in Ids(comments) : i[2] # k[2]
    BY <2>1, <2>2 DEF Unpublished, Recorded
  <2>4. \A i, k \in Ids(new) : i[2] = k[2] => i = k
    BY <2>2
  <2>5. Ids(comments)' \cup Ids(job'[c].comments) \subseteq Ids(comments) \cup Ids(new)
    BY <1>10, <1>11 DEF Ids, ReadAll
  <2>6. OncePublished(Ids(comments))
    BY DEF JournalInv, FilesTell
  <2>7. QED
    BY <2>3, <2>4, <2>5, <2>6 DEF OncePublished
<1>18. \A e \in job'[c].events : /\ e.type = "added" => e.comment \in Coming(c)'
                                 /\ e.type # "deleted"
  BY <1>10, <1>13 DEF Coming, Ids, PublishEvent, AddedEvent, CreatedEvent
<1>19. JournalFits(c)'
  BY <1>10, <1>13, <1>14, <1>15, <1>16, <1>17, <1>18
  DEF JournalFits, Tells, OncePerKey, OncePublished, Ids
<1>20. QED
  BY <1>3, <1>6, <1>19, BeginFits, UnlockedMeansAlone

-----------------------------------------------------------------------------
(* The file steps *)

\* A step of the call inside the store concerns the files and that call.
LEMMA InsideFits ==
  ASSUME JournalInv, KeepInv', NEW c \in Calls, Busy(c),
         \A d \in Calls \ {c} : job'[d] = job[d] /\ pc'[d] = pc[d],
         FilesTell', JournalFits(c)'
  PROVE  JournalInv'
<1>1. \A d \in Calls : JournalFits(d)'
  BY OthersFit
<1>2. QED
  BY <1>1 DEF JournalInv

\* What the files tell while call c is inside the store.
LEMMA FilesTellOf ==
  ASSUME JournalInv, NEW c \in Calls, Busy(c)
  PROVE  /\ \A m \in ReadAll :
               \/ Tells(journal, m)
               \/ pc[c] = "journal" /\ Tells(journal \cup job[c].events, m)
         /\ \A e \in journal : e.type = "added" => e.comment \in Recorded \cup Coming(c)
         /\ \/ Unpublished(drafts)
            \/ pc[c] \in {"drafts", "renameDrafts"} /\ job[c].op = "publish"
<1>1. \A d \in Calls \ {c} : pc[d] \in {"idle", "checked"} /\ Coming(d) = {}
  BY DEF JournalInv, KeepInv, OneAtATime, Busy, Coming, RewritesComments
<1>2. QED
  BY <1>1 DEF JournalInv, FilesTell

LEMMA WriteCommentsTmpFits ==
  ASSUME JournalInv, KeepInv', NEW c \in Calls, WriteCommentsTmp(c)
  PROVE  JournalInv'
<1>1. /\ pc[c] = "comments" /\ pc'[c] = "renameComments" /\ job' = job
      /\ \A d \in Calls \ {c} : pc'[d] = pc[d]
      /\ UNCHANGED <<comments, drafts, journal, stamp>>
  BY DEF WriteCommentsTmp, JournalInv, KeepInv, TypeOK
<1>2. /\ ReadAll' = ReadAll /\ Recorded' = Recorded /\ Tombstones' = Tombstones
      /\ Ids(comments)' = Ids(comments) /\ Ids(ReadAll)' = Ids(ReadAll)
  BY <1>1 DEF ReadAll, Recorded, Tombstones, Ids
<1>3. /\ RewritesComments(c) /\ RewritesComments(c)' /\ Coming(c)' = Coming(c)
  BY <1>1 DEF RewritesComments, Coming, Ids
<1>4. FilesTell'
  <2>1. /\ \A m \in ReadAll : Tells(journal, m)
        /\ \A e \in journal : e.type = "added" => e.comment \in Recorded \cup Coming(c)
        /\ Unpublished(drafts)
    BY <1>1, FilesTellOf DEF Busy
  <2>2. QED
    BY <1>1, <1>2, <1>3, <2>1
    DEF JournalInv, FilesTell, Tells, OncePerKey, OncePublished, Unpublished
<1>5. EventsFit(c)'
  BY <1>1 DEF JournalInv, JournalFits, EventsFit
<1>6. Intends(c)'
  <2>1. Intends(c)
    BY DEF JournalInv, JournalFits
  <2>2. Creates(c) => Creates(c)'
    BY <1>1, <1>2 DEF Creates
  <2>3. Updates(c) => Updates(c)'
    BY <1>1, <1>2 DEF Updates
  <2>4. Publishes(c) => Publishes(c)'
    <3>1. \A sel, batch, n : PublishesAs(c, sel, batch, n) => PublishesAs(c, sel, batch, n)'
      BY <1>1, <1>2 DEF PublishesAs
    <3>2. /\ (1 .. stamp)' = 1 .. stamp /\ (SUBSET drafts)' = SUBSET drafts
          /\ (SUBSET job[c].comments)' = SUBSET job[c].comments
      BY <1>1
    <3>3. QED
      BY <3>1, <3>2, Zenon DEF Publishes
  <2>5. QED
    BY <1>1, <1>3, <2>1, <2>2, <2>3, <2>4 DEF Intends
<1>7. JournalFits(c)'
  BY <1>1, <1>2, <1>3, <1>5, <1>6
  DEF JournalInv, JournalFits, Tells, OncePerKey, OncePublished, Ids
<1>8. QED
  BY <1>1, <1>4, <1>7, InsideFits DEF Busy

\* What comments.jsonl holds after the rename was announced, or is about to be.
LEMMA RenameCommentsFits ==
  ASSUME JournalInv, KeepInv', NEW c \in Calls, RenameComments(c)
  PROVE  JournalInv'
<1>1. /\ pc[c] = "renameComments" /\ KeepInv
      /\ comments' = job[c].comments /\ job' = job
      /\ UNCHANGED <<drafts, journal, stamp>>
      /\ \A d \in Calls \ {c} : pc'[d] = pc[d]
      /\ \/ job[c].op \in {"create", "reply"} /\ pc'[c] = "journal"
         \/ job[c].op = "publish" /\ pc'[c] = "drafts"
         \/ job[c].op = "update" /\ pc'[c] = "answer"
  BY RenameCommentsEffect DEF JournalInv
<1>2. Recorded \cup Ids(job[c].comments) \subseteq Recorded'
  BY <1>1, RenameCommentsRecords
<1>3. /\ Tombstones' = Tombstones /\ ReadAll' \subseteq job[c].comments
      /\ Ids(comments)' = Ids(job[c].comments)
  BY <1>1 DEF Tombstones, ReadAll, Ids
<1>4. /\ RewritesComments(c) /\ ~RewritesComments(c)'
      /\ Coming(c) = Ids(job[c].comments)
  BY <1>1 DEF RewritesComments, Coming
<1>5. /\ \A m \in job[c].comments : Tells(journal \cup job[c].events, m)
      /\ OncePerKey(job[c].comments)
      /\ OncePublished(Ids(comments) \cup Ids(job[c].comments))
      /\ \A e \in job[c].events : e.type = "added" => e.comment \in Recorded \cup Coming(c)
      /\ \A e \in job[c].events : e.type # "deleted"
      /\ Intends(c)
  BY <1>1, <1>4 DEF JournalInv, JournalFits
<1>6. job[c].op \in {"publish", "update"} => job[c].events = {}
  BY <1>1 DEF JournalInv, JournalFits, EventsFit
<1>7. Recorded' \subseteq Recorded \cup Ids(job[c].comments)
  BY <1>1, <1>3 DEF Recorded
<1>8. /\ \A e \in journal : e.type = "added" => e.comment \in Recorded \cup Coming(c)
      /\ Unpublished(drafts)
  BY <1>1, FilesTellOf DEF Busy
<1>9. FilesTell'
  <2>1. \A m \in ReadAll' : \/ Tells(journal', m)
                            \/ pc'[c] = "journal" /\ Tells(journal' \cup job'[c].events, m)
    <3>1. CASE job[c].events = {}
      BY <1>1, <1>3, <1>5, <3>1 DEF Tells
    <3>2. CASE pc'[c] = "journal"
      BY <1>1, <1>3, <1>5, <3>2 DEF Tells
    <3>3. QED
      BY <1>1, <1>6, <3>1, <3>2
  <2>2. \A e \in journal' : e.type = "added" => e.comment \in Recorded'
    BY <1>1, <1>2, <1>4, <1>8
  <2>3. OncePerKey(ReadAll')
    BY <1>3, <1>5 DEF OncePerKey
  <2>4. OncePublished(Ids(comments)')
    BY <1>3, <1>5 DEF OncePublished
  <2>5. Unpublished(drafts)' \/ (pc'[c] = "drafts" /\ job'[c].op = "publish")
    <3>1. CASE job[c].op = "publish"
      BY <1>1, <3>1
    <3>2. CASE job[c].op = "update"
      <4>1. Updates(c)
        BY <1>4, <1>5, <3>2 DEF Intends
      <4>2. Ids(job[c].comments) \subseteq Ids(comments)
        BY <4>1 DEF Updates, Ids, ReadAll
      <4>3. QED
        BY <1>1, <1>7, <1>8, <4>2 DEF Unpublished, Recorded
    <3>3. CASE job[c].op \in {"create", "reply"}
      <4>1. Creates(c)
        BY <1>1, <1>5, <3>3 DEF Intends
      <4>2. \A i \in Ids(job[c].comments) : i \in Ids(comments) \/ i[2] = 0
        BY <4>1 DEF Creates, Ids, ReadAll
      <4>3. \A d \in drafts : d.id # 0
        BY <1>1 DEF KeepInv, FilesInOrder, DraftsStamped, TypeOK, Draft
      <4>4. QED
        BY <1>1, <1>7, <1>8, <4>2, <4>3 DEF Unpublished, Recorded
    <3>4. QED
      BY <1>1, <3>1, <3>2, <3>3
  <2>6. \A i \in Tombstones' : i[1] <= stamp' /\ i[2] <= stamp'
    BY <1>1, <1>3 DEF JournalInv, FilesTell
  <2>7. QED
    BY <2>1, <2>2, <2>3, <2>4, <2>5, <2>6 DEF FilesTell, Tells, OncePerKey, OncePublished
<1>10. EventsFit(c)'
  BY <1>1, <1>6 DEF EventsFit
<1>11. Intends(c)'
  <2>1. ASSUME job[c].op = "publish"
        PROVE  \E sel \in SUBSET drafts :
                 /\ job[c].drafts = drafts \ sel
                 /\ \A d \in drafts : d \in sel <=> \E i \in Recorded' : i[2] = d.id
    <3>1. Publishes(c)
      BY <1>4, <1>5, <2>1 DEF Intends
    <3>2. PICK sel \in SUBSET drafts, batch \in SUBSET job[c].comments, n \in 1 .. stamp :
            PublishesAs(c, sel, batch, n)
      BY <3>1 DEF Publishes
    <3>3. /\ job[c].drafts = drafts \ sel
          /\ job[c].comments = ReadAll \cup batch
          /\ \A m \in batch : \E d \in sel : m.id = <<n, d.id>>
          /\ \A d \in sel : \E m \in batch : m.id = <<n, d.id>>
      BY <3>2 DEF PublishesAs
    <3>4. ASSUME NEW d \in sel
          PROVE  \E i \in Recorded' : i[2] = d.id
      <4>1. PICK m \in batch : m.id = <<n, d.id>>
        BY <3>3
      <4>2. m.id \in Recorded'
        BY <1>2, <3>3 DEF Ids
      <4>3. QED
        BY <4>1, <4>2
    <3>5. ASSUME NEW d \in drafts, NEW i \in Recorded', i[2] = d.id
          PROVE  d \in sel
      <4>1. i \in Ids(batch)
        BY <1>7, <1>8, <3>3, <3>5 DEF Unpublished, Recorded, Ids, ReadAll
      <4>2. PICK e \in sel : i = <<n, e.id>>
        BY <3>3, <4>1 DEF Ids
      <4>3. d.id = e.id
        BY <3>5, <4>2
      <4>4. QED
        BY <1>1, <4>3 DEF KeepInv, FilesInOrder, OneRowEach
    <3>6. QED
      BY <3>3, <3>4, <3>5
  <2>2. QED
    BY <1>1, <1>4, <2>1 DEF Intends
<1>12. \A e \in job'[c].events : /\ e.type = "added" => e.comment \in Recorded'
                                 /\ e.type # "deleted"
  BY <1>1, <1>2, <1>4, <1>5
<1>13. JournalFits(c)'
  BY <1>4, <1>10, <1>11, <1>12 DEF JournalFits
<1>14. QED
  BY <1>1, <1>9, <1>13, InsideFits DEF Busy

\* One event moves from the call to the journal; a tombstone takes its comment
\* from what can be read, not from what is recorded.
LEMMA AppendEventFits ==
  ASSUME JournalInv, KeepInv', NEW c \in Calls, AppendEvent(c)
  PROVE  JournalInv'
<1>1. /\ pc[c] = "journal"
      /\ UNCHANGED <<comments, drafts, stamp>>
      /\ \A d \in Calls \ {c} : pc'[d] = pc[d] /\ job'[d] = job[d]
      /\ job'[c].op = job[c].op /\ job'[c].comments = job[c].comments
      /\ job'[c].drafts = job[c].drafts
      /\ \/ pc'[c] = "journal"
         \/ job[c].op \in {"create", "reply", "delete"} /\ pc'[c] = "answer"
         \/ job[c].op \in {"publish", "update"} /\ pc'[c] = "comments"
  BY AppendEventEffect DEF JournalInv
<1>2. PICK e \in job[c].events :
        /\ journal' = journal \cup {e}
        /\ job' = [job EXCEPT ![c].events = job[c].events \ {e}]
        /\ IF job[c].events \ {e} = {} THEN Continue(c) ELSE UNCHANGED pc
  BY DEF AppendEvent
<1>3. TypeOK /\ job[c] \in Job
  BY DEF JournalInv, KeepInv, TypeOK
<1>4. /\ job'[c].events = job[c].events \ {e}
      /\ journal' \cup job'[c].events = journal \cup job[c].events
      /\ job'[c].events # {} => pc'[c] = "journal"
  BY <1>1, <1>2, <1>3 DEF TypeOK, Job
<1>5. pc'[c] # "journal" => job'[c].events = {}
  <2>1. job'[c].events # {} => UNCHANGED pc
    BY <1>2, <1>4
  <2>2. QED
    BY <1>1, <2>1
<1>6. /\ e.type = "added" => e.comment \in Recorded \cup Coming(c)
      /\ e.type = "deleted" => /\ job[c].op = "delete" /\ job[c].events = {e}
                              /\ e.comment \in Ids(ReadAll)
  BY <1>2 DEF JournalInv, JournalFits
<1>7. Tombstones' = IF e.type = "deleted" THEN Tombstones \cup {e.comment} ELSE Tombstones
  BY <1>2 DEF Tombstones
<1>8. /\ Recorded' = Recorded /\ ReadAll' \subseteq ReadAll
      /\ Ids(comments)' = Ids(comments)
      /\ e.type # "deleted" => ReadAll' = ReadAll
  BY <1>1, <1>6, <1>7 DEF Recorded, ReadAll, Ids
<1>9. /\ RewritesComments(c)' <=> RewritesComments(c)
      /\ Coming(c)' = Coming(c)
  BY <1>1 DEF RewritesComments, Coming, Ids
<1>10. FilesTell'
  <2>1. /\ \A m \in ReadAll : Tells(journal \cup job[c].events, m)
        /\ \A f \in journal : f.type = "added" => f.comment \in Recorded \cup Coming(c)
        /\ Unpublished(drafts)
    BY <1>1, FilesTellOf DEF Busy, Tells
  <2>2. \A m \in ReadAll' : \/ Tells(journal', m)
                            \/ pc'[c] = "journal" /\ Tells(journal' \cup job'[c].events, m)
    BY <1>4, <1>5, <1>8, <2>1 DEF Tells
  <2>3. \A f \in journal' : f.type = "added" => f.comment \in Recorded' \cup Coming(c)'
    BY <1>2, <1>6, <1>8, <1>9, <2>1
  <2>4. \A i \in Tombstones' : i[1] <= stamp' /\ i[2] <= stamp'
    <3>1. e.type = "deleted" => e.comment \in Recorded
      BY <1>6 DEF Recorded, ReadAll, Ids
    <3>2. QED
      BY <1>1, <1>7, <3>1, FreshId DEF JournalInv, FilesTell
  <2>5. OncePerKey(ReadAll')
    BY <1>8 DEF JournalInv, FilesTell, OncePerKey
  <2>6. OncePublished(Ids(comments)') /\ Unpublished(drafts)'
    BY <1>1, <1>8, <2>1 DEF JournalInv, FilesTell, OncePublished, Unpublished
  <2>7. QED
    BY <2>2, <2>3, <2>4, <2>5, <2>6 DEF FilesTell, Tells, OncePerKey, OncePublished
<1>11. EventsFit(c)'
  BY <1>1, <1>5 DEF EventsFit
<1>12. Intends(c)'
  <2>1. CASE ~RewritesComments(c)
    BY <1>1, <1>9, <2>1 DEF Intends, RewritesComments
  <2>2. CASE RewritesComments(c)
    <3>1. job[c].op \in {"publish", "update"} /\ e.type # "deleted"
      BY <1>1, <1>6, <2>2 DEF RewritesComments
    <3>2. Updates(c) => Updates(c)'
      BY <1>1, <1>8, <3>1 DEF Updates
    <3>3. \A sel, batch, n : PublishesAs(c, sel, batch, n) => PublishesAs(c, sel, batch, n)'
      BY <1>1, <1>8, <3>1 DEF PublishesAs
    <3>4. Publishes(c) => Publishes(c)'
      <4>1. /\ (1 .. stamp)' = 1 .. stamp /\ (SUBSET drafts)' = SUBSET drafts
            /\ (SUBSET job[c].comments)' = SUBSET job[c].comments
        BY <1>1
      <4>2. QED
        BY <3>3, <4>1, Zenon DEF Publishes
    <3>5. Intends(c)
      BY DEF JournalInv, JournalFits
    <3>6. QED
      BY <1>1, <1>9, <2>2, <3>1, <3>2, <3>4, <3>5 DEF Intends
  <2>3. QED
    BY <2>1, <2>2
<1>13. RewritesComments(c) =>
         /\ \A m \in job'[c].comments : Tells(journal' \cup job'[c].events, m)
         /\ OncePerKey(job'[c].comments)
         /\ OncePublished(Ids(comments)' \cup Ids(job'[c].comments))
  BY <1>1, <1>4, <1>8 DEF JournalInv, JournalFits
<1>14. \A f \in job'[c].events : /\ f.type = "added" => f.comment \in Recorded' \cup Coming(c)'
                                 /\ f.type # "deleted"
  <2>1. ASSUME NEW f \in job[c].events, f # e
        PROVE  /\ f.type = "added" => f.comment \in Recorded \cup Coming(c)
               /\ f.type # "deleted"
    <3>1. /\ f.type = "added" => f.comment \in Recorded \cup Coming(c)
          /\ f.type = "deleted" => job[c].events = {f}
      BY DEF JournalInv, JournalFits
    <3>2. QED
      BY <1>2, <2>1, <3>1
  <2>2. QED
    BY <1>4, <1>8, <1>9, <2>1
<1>15. JournalFits(c)'
  BY <1>9, <1>11, <1>12, <1>13, <1>14
  DEF JournalFits, Tells, OncePerKey, OncePublished, Ids
<1>16. QED
  BY <1>1, <1>10, <1>15, InsideFits DEF Busy

LEMMA WriteDraftsTmpFits ==
  ASSUME JournalInv, KeepInv', NEW c \in Calls, WriteDraftsTmp(c)
  PROVE  JournalInv'
<1>1. /\ pc[c] = "drafts" /\ pc'[c] = "renameDrafts" /\ job' = job
      /\ \A d \in Calls \ {c} : pc'[d] = pc[d]
      /\ UNCHANGED <<comments, drafts, journal, stamp>>
  BY DEF WriteDraftsTmp, JournalInv, KeepInv, TypeOK
<1>2. /\ ReadAll' = ReadAll /\ Recorded' = Recorded /\ Tombstones' = Tombstones
      /\ Ids(comments)' = Ids(comments) /\ Ids(ReadAll)' = Ids(ReadAll)
      /\ Ids(drafts)' = Ids(drafts)
  BY <1>1 DEF ReadAll, Recorded, Tombstones, Ids
<1>3. ~RewritesComments(c) /\ ~RewritesComments(c)' /\ Coming(c) = {} /\ Coming(c)' = {}
  BY <1>1 DEF RewritesComments, Coming
<1>4. /\ \A m \in ReadAll : Tells(journal, m)
      /\ \A e \in journal : e.type = "added" => e.comment \in Recorded
      /\ Unpublished(drafts) \/ job[c].op = "publish"
  BY <1>1, <1>3, FilesTellOf DEF Busy
<1>5. FilesTell'
  BY <1>1, <1>2, <1>4
  DEF JournalInv, FilesTell, Tells, OncePerKey, OncePublished, Unpublished
<1>6. EventsFit(c)' /\ job'[c].events = {}
  BY <1>1 DEF JournalInv, JournalFits, EventsFit
<1>7. Intends(c)'
  <2>1. Intends(c)
    BY DEF JournalInv, JournalFits
  <2>2. Drafts(c) => Drafts(c)'
    BY <1>1, <1>2 DEF Drafts
  <2>3. QED
    BY <1>1, <1>2, <1>3, <2>1, <2>2 DEF Intends
<1>8. JournalFits(c)'
  BY <1>3, <1>6, <1>7 DEF JournalFits
<1>9. QED
  BY <1>1, <1>5, <1>8, InsideFits DEF Busy

\* The drafts that were published leave the file; every other one stays.
LEMMA RenameDraftsFits ==
  ASSUME JournalInv, KeepInv', NEW c \in Calls, RenameDrafts(c)
  PROVE  JournalInv'
<1>1. /\ pc[c] = "renameDrafts" /\ pc'[c] = "answer" /\ job' = job
      /\ drafts' = job[c].drafts
      /\ UNCHANGED <<comments, journal, stamp>>
      /\ \A d \in Calls \ {c} : pc'[d] = pc[d]
      /\ ~RewritesComments(c) /\ Coming(c) = {}
      /\ job[c].op \in {"publish", "draft"}
  BY RenameDraftsEffect DEF JournalInv, KeepInv, CallInOrder, StepsFit
<1>2. /\ ReadAll' = ReadAll /\ Recorded' = Recorded /\ Tombstones' = Tombstones
      /\ Ids(comments)' = Ids(comments)
  BY <1>1 DEF ReadAll, Recorded, Tombstones, Ids
<1>3. /\ \A m \in ReadAll : Tells(journal, m)
      /\ \A e \in journal : e.type = "added" => e.comment \in Recorded
      /\ Unpublished(drafts) \/ job[c].op = "publish"
  BY <1>1, FilesTellOf DEF Busy
<1>4. Intends(c) /\ job[c].events = {}
  BY <1>1 DEF JournalInv, JournalFits, EventsFit
<1>5. Unpublished(job[c].drafts)
  <2>1. CASE job[c].op = "publish"
    BY <1>1, <1>4, <2>1 DEF Intends, Unpublished
  <2>2. CASE job[c].op = "draft"
    <3>1. Drafts(c) /\ Unpublished(drafts)
      BY <1>1, <1>3, <1>4, <2>2 DEF Intends
    <3>2. QED
      BY <3>1 DEF Drafts, Unpublished
  <2>3. QED
    BY <1>1, <2>1, <2>2
<1>6. FilesTell'
  BY <1>1, <1>2, <1>3, <1>5
  DEF JournalInv, FilesTell, Tells, OncePerKey, OncePublished, Unpublished
<1>7. JournalFits(c)'
  BY <1>1, <1>4, WaitingFits
<1>8. QED
  BY <1>1, <1>6, <1>7, InsideFits DEF Busy

LEMMA AnswerFits ==
  ASSUME JournalInv, KeepInv', NEW c \in Calls, Answer(c)
  PROVE  JournalInv'
<1>1. /\ pc[c] = "answer" /\ pc'[c] = "idle" /\ job'[c] = NoJob
      /\ \A d \in Calls \ {c} : job'[d] = job[d] /\ pc'[d] = pc[d]
      /\ UNCHANGED files /\ stamp' = stamp
  BY DEF Answer, JournalInv, KeepInv, TypeOK
<1>2. Coming(c) = {}
  BY <1>1 DEF Coming, RewritesComments
<1>3. /\ \A m \in ReadAll : Tells(journal, m)
      /\ \A e \in journal : e.type = "added" => e.comment \in Recorded
      /\ Unpublished(drafts)
  BY <1>1, <1>2, FilesTellOf DEF Busy
<1>4. FilesTell'
  BY <1>1, <1>3, SameFiles
  DEF JournalInv, FilesTell, Tells, OncePerKey, OncePublished, Unpublished
<1>5. JournalFits(c)'
  BY <1>1, WaitingFits DEF NoJob
<1>6. QED
  BY <1>1, <1>4, <1>5, InsideFits DEF Busy

-----------------------------------------------------------------------------
(* The invariant *)

\* Nothing fails.
NoFaults == MaxFaults = 0

LEMMA JournalStep ==
  ASSUME SoleServer, NoFaults, JournalInv, [Next]_vars
  PROVE  JournalInv'
<1>1. KeepInv /\ KeepInv'
  BY KeepStep DEF JournalInv
<1>2. ASSUME NEW c \in Calls, Load(c)
      PROVE  JournalInv'
  BY <1>1, <1>2, CreateThreadFits, LookFits, AddReplyFits, UpdateCommentFits,
     DeletePublishedFits, DraftsFit, PublishDraftsFits
  DEF Load
<1>3. faults \in Nat
  BY <1>1 DEF KeepInv, TypeOK
<1>4. ASSUME NEW c \in Calls
      PROVE  ~LoseTmp(c) /\ ~FailCall(c)
  BY <1>1, <1>3 DEF LoseTmp, FailCall, NoFaults, KeepInv, CallInOrder
<1>5. ASSUME NEW c \in Calls, FileStep(c)
      PROVE  JournalInv'
  BY <1>1, <1>4, <1>5, WriteCommentsTmpFits, RenameCommentsFits, AppendEventFits,
     WriteDraftsTmpFits, RenameDraftsFits, AnswerFits
  DEF FileStep
<1>6. ASSUME NEW s \in Servers
      PROVE  ~Crash(s)
  BY <1>3 DEF Crash, NoFaults
<1>7. CASE UNCHANGED vars
  <2>1. UNCHANGED files /\ stamp' = stamp /\ pc' = pc /\ job' = job
    BY <1>7 DEF vars
  <2>2. \A c \in Calls : Coming(c)' = Coming(c) /\ (RewritesComments(c)' <=> RewritesComments(c))
    BY <2>1 DEF Coming, RewritesComments, Ids
  <2>3. FilesTell'
    BY <2>1, <2>2, SameFiles
    DEF JournalInv, FilesTell, Tells, OncePerKey, OncePublished, Unpublished
  <2>4. ASSUME NEW c \in Calls
        PROVE  JournalFits(c)'
    <3>1. EventsFit(c)'
      BY <2>1 DEF JournalInv, JournalFits, EventsFit
    <3>2. Creates(c) => Creates(c)'
      BY <2>1, SameFiles DEF Creates
    <3>3. Updates(c) => Updates(c)'
      BY <2>1, SameFiles DEF Updates
    <3>4. \A sel, batch, n : PublishesAs(c, sel, batch, n) => PublishesAs(c, sel, batch, n)'
      BY <2>1, SameFiles DEF PublishesAs
    <3>5. Publishes(c) => Publishes(c)'
      BY <2>1, <3>4, SameFiles DEF Publishes
    <3>6. Drafts(c) => Drafts(c)'
      BY <2>1, SameFiles DEF Drafts
    <3>7. Intends(c)
      BY DEF JournalInv, JournalFits
    <3>8. Intends(c)'
      BY <2>1, <2>2, <3>2, <3>3, <3>5, <3>6, <3>7, SameFiles DEF Intends
    <3>9. QED
      BY <2>1, <2>2, <3>1, <3>8, SameFiles
      DEF JournalInv, JournalFits, Tells, OncePerKey, OncePublished, Ids
  <2>5. QED
    BY <1>1, <2>3, <2>4 DEF JournalInv
<1>8. QED
  BY <1>2, <1>4, <1>5, <1>6, <1>7 DEF Next

LEMMA JournalInit == Init => JournalInv
<1> SUFFICES ASSUME Init PROVE JournalInv
  OBVIOUS
<1>1. \A c \in Calls : pc[c] = "idle" /\ job[c] = NoJob
  BY DEF Init
<1>2. \A c \in Calls : JournalFits(c)
  BY <1>1 DEF NoJob, JournalFits, EventsFit, Intends, RewritesComments
<1>3. ReadAll = {} /\ Tombstones = {} /\ Ids(comments) = {}
  BY DEF Init, ReadAll, Tombstones, Ids
<1>4. FilesTell
  BY <1>3 DEF Init, FilesTell, OncePerKey, OncePublished, Unpublished
<1>5. QED
  BY <1>2, <1>4, KeepInit DEF JournalInv

LEMMA JournalAlways ==
  ASSUME SoleServer, NoFaults
  PROVE  Spec => []JournalInv
BY JournalInit, JournalStep, PTL DEF Spec

\* With one server and no failure, whenever no call is inside the store the
\* journal announces every readable comment, and every message it announces is
\* there or was deleted.
THEOREM JournalAnnouncesComments ==
  ASSUME SoleServer, NoFaults
  PROVE  Spec => []JournalMatchesComments
<1>1. JournalInv => JournalMatchesComments
  BY Settled DEF JournalMatchesComments, Tells, Recorded, ReadAll, Ids
<1>2. QED
  BY <1>1, JournalAlways, PTL

\* ... and a request counts once: no draft is published twice, and a reply that
\* is sent again with its key leaves one message.
THEOREM EveryRequestCountsOnce ==
  ASSUME SoleServer, NoFaults
  PROVE  Spec => []RequestsCountOnce
<1>1. JournalInv => RequestsCountOnce
  BY DEF JournalInv, FilesTell, RequestsCountOnce, PublishedOnce, RetriesMakeOneComment,
         OncePerKey, OncePublished
<1>2. QED
  BY <1>1, JournalAlways, PTL

-----------------------------------------------------------------------------
(* The store implements the review board *)

\* What the refinement shows of a row, and of the two files.
Row(m) == [id |-> m.id, text |-> m.text]
OnBoard == {Row(m) : m \in ReadAll}
Waiting == {d \in drafts : \A i \in Recorded : i[2] # d.id}
Pending == {Row(d) : d \in Waiting}

LEMMA RowFields ==
  /\ \A m : Row(m).id = m.id /\ Row(m).text = m.text
  /\ \A m : [id |-> m.id, text |-> m.text] = Row(m)
  /\ \A m, n : [Row(m) EXCEPT !.text = n] = [id |-> m.id, text |-> n]
  /\ \A m, n : Row(m) = Row(n) <=> m.id = n.id /\ m.text = n.text
BY DEF Row

\* The operations of the board, in terms of the files.
LEMMA PostStep ==
  ASSUME NEW i, NEW t, i \notin Ids(OnBoard) \cup Tombstones,
         OnBoard' = OnBoard \cup {[id |-> i, text |-> t]},
         Pending' = Pending, Tombstones' = Tombstones
  PROVE  Board!BoardNext
<1>1. Board!Post(i, t)
  BY DEF Board!Post, Board!Names, OnBoard, Pending, Waiting, Row, Ids, Recorded
<1>2. \E m \in OnBoard' \ OnBoard : m.id = i /\ m.text = t
  <2>1. \E m : m = [id |-> i, text |-> t]
    OBVIOUS
  <2>2. PICK m : m = [id |-> i, text |-> t]
    BY <2>1
  <2>3. m.id = i /\ m.text = t
    BY <2>2
  <2>4. m \in OnBoard' /\ m \notin OnBoard
    BY <2>2, <2>3 DEF Ids
  <2>5. QED
    BY <2>3, <2>4
<1>3. \E m \in OnBoard' \ OnBoard : Board!Post(m.id, m.text)
  BY <1>1, <1>2
<1>4. QED
  BY <1>3 DEF Board!BoardNext, OnBoard, Row

LEMMA EditStep ==
  ASSUME NEW m \in OnBoard, NEW t, t > m.text,
         OnBoard' = (OnBoard \ {m}) \cup {[id |-> m.id, text |-> t]},
         Pending' = Pending, Tombstones' = Tombstones
  PROVE  Board!BoardNext
<1>1. Board!Edit(m, t)
  <2>1. [m EXCEPT !.text = t] = [id |-> m.id, text |-> t]
    BY DEF OnBoard, Row
  <2>2. QED
    BY <2>1 DEF Board!Edit, OnBoard, Pending, Waiting, Row, Recorded
<1>2. \E n \in OnBoard' : n.text = t
  <2>1. [id |-> m.id, text |-> t].text = t
    OBVIOUS
  <2>2. QED
    BY <2>1
<1>3. \E k \in OnBoard, n \in OnBoard' : Board!Edit(k, n.text)
  BY <1>1, <1>2
<1>4. QED
  BY <1>3 DEF Board!BoardNext, OnBoard, Row

LEMMA EraseStep ==
  ASSUME NEW i \in Ids(OnBoard), OnBoard' = {m \in OnBoard : m.id # i},
         Pending' = Pending, Tombstones' = Tombstones \cup {i}
  PROVE  Board!BoardNext
<1>1. Board!Erase(i)
  BY DEF Board!Erase, Board!Names, OnBoard, Pending, Waiting, Row, Ids, Recorded
<1>2. \E m \in OnBoard : Board!Erase(m.id)
  BY <1>1 DEF Ids
<1>3. QED
  BY <1>2 DEF Board!BoardNext, OnBoard, Row

LEMMA SaveStep ==
  ASSUME NEW i, NEW t, i \notin Ids(Pending),
         Pending' = Pending \cup {[id |-> i, text |-> t]},
         OnBoard' = OnBoard, Tombstones' = Tombstones
  PROVE  Board!BoardNext
<1>1. Board!Save(i, t)
  BY DEF Board!Save, Board!Names, OnBoard, Pending, Waiting, Row, Ids, Recorded
<1>2. \E d \in Pending' \ Pending : d.id = i /\ d.text = t
  <2>1. \E d : d = [id |-> i, text |-> t]
    OBVIOUS
  <2>2. PICK d : d = [id |-> i, text |-> t]
    BY <2>1
  <2>3. d.id = i /\ d.text = t
    BY <2>2
  <2>4. d \in Pending' /\ d \notin Pending
    BY <2>2, <2>3 DEF Ids
  <2>5. QED
    BY <2>3, <2>4
<1>3. \E d \in Pending' \ Pending : Board!Save(d.id, d.text)
  BY <1>1, <1>2
<1>4. QED
  BY <1>3 DEF Board!BoardNext, Pending, Waiting, Row, Recorded

LEMMA RewriteStep ==
  ASSUME NEW d \in Pending, NEW t, t > d.text,
         Pending' = (Pending \ {d}) \cup {[id |-> d.id, text |-> t]},
         OnBoard' = OnBoard, Tombstones' = Tombstones
  PROVE  Board!BoardNext
<1>1. Board!Rewrite(d, t)
  <2>1. [d EXCEPT !.text = t] = [id |-> d.id, text |-> t]
    BY DEF Pending, Row
  <2>2. QED
    BY <2>1 DEF Board!Rewrite, OnBoard, Pending, Waiting, Row, Recorded
<1>2. \E e \in Pending' : e.text = t
  <2>1. [id |-> d.id, text |-> t].text = t
    OBVIOUS
  <2>2. QED
    BY <2>1
<1>3. \E k \in Pending, e \in Pending' : Board!Rewrite(k, e.text)
  BY <1>1, <1>2
<1>4. QED
  BY <1>3 DEF Board!BoardNext, Pending, Waiting, Row, Recorded

LEMMA DiscardStep ==
  ASSUME NEW d \in Pending, Pending' = Pending \ {d},
         OnBoard' = OnBoard, Tombstones' = Tombstones
  PROVE  Board!BoardNext
<1>1. Board!Discard(d)
  BY DEF Board!Discard, OnBoard, Pending, Waiting, Row, Recorded
<1>2. \E k \in Pending : Board!Discard(k)
  BY <1>1
<1>3. QED
  BY <1>2 DEF Board!BoardNext, Pending, Waiting, Row, Recorded

LEMMA PublishStep ==
  ASSUME NEW sel \in SUBSET Pending, NEW n, sel # {},
         \A d \in sel : <<n, d.id>> \notin Ids(OnBoard) \cup Tombstones,
         OnBoard' = OnBoard \cup {[id |-> <<n, d.id>>, text |-> d.text] : d \in sel},
         Pending' = Pending \ sel, Tombstones' = Tombstones
  PROVE  Board!BoardNext
<1> DEFINE batch == {[id |-> <<n, d.id>>, text |-> d.text] : d \in sel}
<1>1. Board!Names(batch) \cap (Ids(OnBoard) \cup Tombstones) = {}
  BY DEF Board!Names
<1>2. Board!Publish(sel, n)
  BY <1>1 DEF Board!Publish, Board!Names, OnBoard, Pending, Waiting, Row, Ids, Recorded
<1>3. PICK d \in sel : TRUE
  OBVIOUS
<1>4. \E m \in OnBoard' \ OnBoard : m.id[1] = n
  <2>1. \E m : m = [id |-> <<n, d.id>>, text |-> d.text]
    OBVIOUS
  <2>2. PICK m : m = [id |-> <<n, d.id>>, text |-> d.text]
    BY <2>1
  <2>3. m.id = <<n, d.id>>
    BY <2>2
  <2>4. m \in OnBoard' /\ m \notin OnBoard
    BY <1>3, <2>2, <2>3 DEF Ids
  <2>5. QED
    BY <2>3, <2>4
<1>5. \E k \in SUBSET Pending, m \in OnBoard' \ OnBoard : Board!Publish(k, m.id[1])
  BY <1>2, <1>4
<1>6. QED
  BY <1>5 DEF Board!BoardNext, OnBoard, Pending, Waiting, Row, Recorded

-----------------------------------------------------------------------------
(* What each step of the store is on the board *)

\* What is on the board, or gone from it, is what is recorded.
LEMMA BoardIds ==
  /\ Ids(OnBoard) \cup Tombstones = Recorded
  /\ Ids(OnBoard) = Ids(ReadAll)
  /\ Ids(Pending) = Ids(Waiting)
<1>1. ASSUME NEW rows
      PROVE  Ids({Row(m) : m \in rows}) = Ids(rows)
  <2>1. Ids({Row(m) : m \in rows}) = {Row(m).id : m \in rows}
    BY DEF Ids
  <2>2. QED
    BY <2>1, RowFields DEF Ids
<1>2. Ids(ReadAll) \cup Tombstones = Recorded
  BY DEF Recorded, ReadAll, Ids
<1>3. QED
  BY <1>1, <1>2 DEF OnBoard, Pending

LEMMA SameBoard ==
  ASSUME UNCHANGED <<comments, drafts, journal>>
  PROVE  UNCHANGED Board!boardVars
BY DEF Board!boardVars, ReadAll, Tombstones, Ids

\* A comment or reply appears when comments.jsonl is replaced.
LEMMA CreateMaps ==
  ASSUME JournalInv, NEW c \in Calls, RenameComments(c), job[c].op \in {"create", "reply"}
  PROVE  Board!BoardNext
<1>1. /\ pc[c] = "renameComments" /\ comments' = job[c].comments
      /\ UNCHANGED <<drafts, journal>>
  BY RenameCommentsEffect DEF JournalInv
<1>2. Creates(c)
  BY <1>1 DEF JournalInv, JournalFits, Intends
<1>3. PICK m \in job[c].comments : /\ job[c].comments = ReadAll \cup {m}
                                   /\ m.id \notin Recorded /\ m.id[2] = 0
  BY <1>2 DEF Creates
<1>4. Tombstones' = Tombstones
  BY <1>1 DEF Tombstones
<1>5. ReadAll' = ReadAll \cup {m}
  BY <1>1, <1>3, <1>4 DEF ReadAll, Recorded
<1>6. Recorded' = Recorded \cup {m.id}
  BY <1>1, <1>3, <1>4 DEF Recorded, ReadAll, Ids
<1>7. \A d \in drafts : d.id # 0
  BY DEF JournalInv, KeepInv, FilesInOrder, DraftsStamped, TypeOK, Draft
<1>8. Waiting' = Waiting
  BY <1>1, <1>3, <1>6, <1>7 DEF Waiting
<1>9. Pending' = Pending
  BY <1>8 DEF Pending
<1>10. OnBoard' = OnBoard \cup {[id |-> m.id, text |-> m.text]}
  BY <1>5 DEF OnBoard, Row
<1>11. m.id \notin Ids(OnBoard) \cup Tombstones
  BY <1>3, BoardIds
<1>12. QED
  BY <1>4, <1>9, <1>10, <1>11, PostStep

LEMMA UpdateMaps ==
  ASSUME JournalInv, NEW c \in Calls, RenameComments(c), job[c].op = "update"
  PROVE  Board!BoardNext
<1>1. /\ pc[c] = "renameComments" /\ comments' = job[c].comments
      /\ UNCHANGED <<drafts, journal>>
  BY RenameCommentsEffect DEF JournalInv
<1>2. Updates(c)
  BY <1>1 DEF JournalInv, JournalFits, Intends, RewritesComments
<1>3. PICK m \in ReadAll, n \in job[c].comments :
        /\ job[c].comments = (ReadAll \ {m}) \cup {n} /\ n.id = m.id /\ n.text > m.text
  BY <1>2 DEF Updates
<1>4. Tombstones' = Tombstones
  BY <1>1 DEF Tombstones
<1>5. ReadAll' = (ReadAll \ {m}) \cup {n}
  BY <1>1, <1>3, <1>4 DEF ReadAll
<1>6. Recorded' = Recorded
  BY <1>1, <1>3, <1>4 DEF Recorded, ReadAll, Ids
<1>7. Pending' = Pending
  BY <1>1, <1>6 DEF Pending, Waiting
<1>8. OneRowEach(ReadAll)
  BY ReadAllRows DEF JournalInv, KeepInv
<1>9. \A k \in ReadAll : Row(k) = Row(m) => k = m
  BY <1>8, RowFields DEF OneRowEach
<1>10. OnBoard' = (OnBoard \ {Row(m)}) \cup {Row(n)}
  BY <1>5, <1>9 DEF OnBoard
<1>11. Row(n) = [id |-> Row(m).id, text |-> n.text] /\ n.text > Row(m).text
  BY <1>3 DEF Row
<1>12. Row(m) \in OnBoard
  BY DEF OnBoard
<1>13. QED
  BY <1>4, <1>7, <1>10, <1>11, <1>12, EditStep

\* All comments of a publication appear in one step, and their drafts stop being
\* pending in that step, though their rows are still in the drafts file.
LEMMA PublishMaps ==
  ASSUME JournalInv, NEW c \in Calls, RenameComments(c), job[c].op = "publish"
  PROVE  Board!BoardNext
<1>1. /\ pc[c] = "renameComments" /\ comments' = job[c].comments
      /\ UNCHANGED <<drafts, journal>>
  BY RenameCommentsEffect DEF JournalInv
<1>2. Publishes(c)
  BY <1>1 DEF JournalInv, JournalFits, Intends, RewritesComments
<1>3. PICK sel \in SUBSET drafts, batch \in SUBSET job[c].comments, n \in 1 .. stamp :
        PublishesAs(c, sel, batch, n)
  BY <1>2 DEF Publishes
<1>4. /\ sel # {} /\ job[c].comments = ReadAll \cup batch
      /\ \A m \in batch : m.id \notin Recorded
      /\ \A m \in batch : \E d \in sel : m.id = <<n, d.id>> /\ m.text = d.text
      /\ \A d \in sel : \E m \in batch : m.id = <<n, d.id>> /\ m.text = d.text
  BY <1>3 DEF PublishesAs
<1>5. Tombstones' = Tombstones
  BY <1>1 DEF Tombstones
<1>6. ReadAll' = ReadAll \cup batch
  BY <1>1, <1>4, <1>5 DEF ReadAll, Recorded
<1>7. Recorded' = Recorded \cup Ids(batch)
  BY <1>1, <1>4, <1>5 DEF Recorded, ReadAll, Ids
<1>8. Unpublished(drafts)
  BY <1>1, FilesTellOf DEF Busy
<1>9. OneRowEach(drafts)
  BY DEF JournalInv, KeepInv, FilesInOrder
<1>10. Waiting = drafts
  BY <1>8 DEF Waiting, Unpublished
<1>11. Waiting' = drafts \ sel
  <2>1. ASSUME NEW d \in sel
        PROVE  \E i \in Recorded' : i[2] = d.id
    <3>1. PICK m \in batch : m.id = <<n, d.id>>
      BY <1>4
    <3>2. QED
      BY <1>7, <3>1 DEF Ids
  <2>2. ASSUME NEW d \in drafts, NEW i \in Recorded', i[2] = d.id
        PROVE  d \in sel
    <3>1. i \in Ids(batch)
      BY <1>7, <1>8, <2>2 DEF Unpublished
    <3>2. PICK e \in sel : i = <<n, e.id>>
      BY <1>4, <3>1 DEF Ids
    <3>3. d.id = e.id
      BY <2>2, <3>2
    <3>4. QED
      BY <1>3, <1>9, <3>3 DEF OneRowEach
  <2>3. Waiting' = {d \in drafts : \A i \in Recorded' : i[2] # d.id}
    BY <1>1 DEF Waiting
  <2>4. QED
    BY <1>3, <2>1, <2>2, <2>3
<1> DEFINE rows == {Row(d) : d \in sel}
<1>12. rows \in SUBSET Pending /\ rows # {}
  BY <1>3, <1>4, <1>10 DEF Pending
<1>13. Pending' = Pending \ rows
  <2>1. \A d, e \in drafts : Row(d) = Row(e) => d = e
    BY <1>9, RowFields DEF OneRowEach
  <2>2. QED
    BY <1>3, <1>10, <1>11, <2>1 DEF Pending
<1>14. \A r \in rows : \E d \in sel : r.id = d.id /\ r.text = d.text
  BY RowFields
<1>15. \A d \in sel : \E r \in rows : r.id = d.id /\ r.text = d.text
  BY RowFields
<1>16. {[id |-> <<n, r.id>>, text |-> r.text] : r \in rows} = {Row(m) : m \in batch}
  <2> HIDE DEF rows
  <2>1. ASSUME NEW r \in rows
        PROVE  \E m \in batch : [id |-> <<n, r.id>>, text |-> r.text] = Row(m)
    <3>1. PICK d \in sel : r.id = d.id /\ r.text = d.text
      BY <1>14
    <3>2. PICK m \in batch : m.id = <<n, d.id>> /\ m.text = d.text
      BY <1>4
    <3>3. QED
      BY <3>1, <3>2, RowFields
  <2>2. ASSUME NEW m \in batch
        PROVE  \E r \in rows : Row(m) = [id |-> <<n, r.id>>, text |-> r.text]
    <3>1. PICK d \in sel : m.id = <<n, d.id>> /\ m.text = d.text
      BY <1>4
    <3>2. PICK r \in rows : r.id = d.id /\ r.text = d.text
      BY <1>15
    <3>3. QED
      BY <3>1, <3>2, RowFields
  <2>3. QED
    BY <2>1, <2>2
<1>17. OnBoard' = OnBoard \cup {[id |-> <<n, r.id>>, text |-> r.text] : r \in rows}
  BY <1>6, <1>16 DEF OnBoard
<1> HIDE DEF rows
<1>18. ASSUME NEW r \in rows
       PROVE  <<n, r.id>> \notin Ids(OnBoard) \cup Tombstones
  <2>1. PICK d \in sel : r.id = d.id
    BY <1>14
  <2>2. PICK m \in batch : m.id = <<n, d.id>>
    BY <1>4
  <2>3. QED
    BY <1>4, <2>1, <2>2, BoardIds
<1>19. QED
  BY <1>5, <1>12, <1>13, <1>17, <1>18, PublishStep

\* A tombstone takes its comment off the board; every other event leaves it.
LEMMA AppendEventMaps ==
  ASSUME JournalInv, NEW c \in Calls, AppendEvent(c)
  PROVE  Board!BoardNext \/ UNCHANGED Board!boardVars
<1>1. PICK e \in job[c].events : journal' = journal \cup {e}
  BY DEF AppendEvent
<1>2. UNCHANGED <<comments, drafts>>
  BY DEF AppendEvent
<1>3. CASE e.type = "deleted"
  <2>1. e.comment \in Ids(ReadAll)
    BY <1>1, <1>3 DEF JournalInv, JournalFits
  <2>2. Tombstones' = Tombstones \cup {e.comment}
    BY <1>1, <1>3 DEF Tombstones
  <2>3. ReadAll' = {m \in ReadAll : m.id # e.comment}
    BY <1>2, <2>2 DEF ReadAll
  <2>4. Recorded' = Recorded
    BY <1>2, <2>1, <2>2 DEF Recorded, ReadAll, Ids
  <2>5. Pending' = Pending
    BY <1>2, <2>4 DEF Pending, Waiting
  <2>6. OnBoard' = {r \in OnBoard : r.id # e.comment}
    BY <2>3, RowFields DEF OnBoard
  <2>7. QED
    BY <2>1, <2>2, <2>5, <2>6, BoardIds, EraseStep
<1>4. CASE e.type # "deleted"
  <2>1. Tombstones' = Tombstones
    BY <1>1, <1>4 DEF Tombstones
  <2>2. QED
    BY <1>2, <2>1 DEF Board!boardVars, ReadAll, Ids
<1>5. QED
  BY <1>3, <1>4

\* Clearing published drafts changes nothing anybody sees; a draft saved, changed
\* or deleted does.
LEMMA RenameDraftsMaps ==
  ASSUME JournalInv, NEW c \in Calls, RenameDrafts(c)
  PROVE  Board!BoardNext \/ UNCHANGED Board!boardVars
<1>1. /\ pc[c] = "renameDrafts" /\ drafts' = job[c].drafts
      /\ UNCHANGED <<comments, journal>>
      /\ job[c].op \in {"publish", "draft"}
  BY RenameDraftsEffect DEF JournalInv, KeepInv, CallInOrder, StepsFit
<1>2. /\ OnBoard' = OnBoard /\ Recorded' = Recorded /\ Tombstones' = Tombstones
  BY <1>1 DEF OnBoard, ReadAll, Recorded, Tombstones, Ids
<1>3. Intends(c)
  BY DEF JournalInv, JournalFits
<1>4. CASE job[c].op = "publish"
  <2>1. PICK sel \in SUBSET drafts :
          /\ job[c].drafts = drafts \ sel
          /\ \A d \in drafts : d \in sel <=> \E i \in Recorded : i[2] = d.id
    BY <1>1, <1>3, <1>4 DEF Intends
  <2>2. Waiting' = Waiting
    BY <1>1, <1>2, <2>1 DEF Waiting
  <2>3. UNCHANGED <<OnBoard, Pending, Tombstones>>
    BY <1>2, <2>2 DEF Pending
  <2>4. QED
    BY <2>3 DEF Board!boardVars, OnBoard, Pending, Waiting, Row, Recorded
<1>5. CASE job[c].op = "draft"
  <2>1. Drafts(c)
    BY <1>1, <1>3, <1>5 DEF Intends
  <2>2. Unpublished(drafts)
    BY <1>1, <1>5, FilesTellOf DEF Busy
  <2>3. Waiting = drafts
    BY <2>2 DEF Waiting, Unpublished
  <2>4. OneRowEach(drafts)
    BY DEF JournalInv, KeepInv, FilesInOrder
  <2>5. \A d, e \in drafts : Row(d) = Row(e) => d = e
    BY <2>4, RowFields DEF OneRowEach
  <2>6. ASSUME NEW d \in job[c].drafts, d.id \notin Ids(drafts),
               \A i \in Recorded : i[2] # d.id, job[c].drafts = drafts \cup {d}
        PROVE  Board!BoardNext
    <3>1. Waiting' = drafts \cup {d}
      BY <1>1, <1>2, <2>2, <2>6 DEF Waiting, Unpublished
    <3>2. Pending' = Pending \cup {[id |-> d.id, text |-> d.text]}
      BY <2>3, <3>1 DEF Pending, Row
    <3>3. d.id \notin Ids(Pending)
      BY <2>3, <2>6, BoardIds
    <3>4. QED
      BY <1>2, <3>2, <3>3, SaveStep
  <2>7. ASSUME NEW d \in drafts, NEW e \in job[c].drafts,
               job[c].drafts = (drafts \ {d}) \cup {e}, e.id = d.id, e.text > d.text
        PROVE  Board!BoardNext
    <3>1. Waiting' = (drafts \ {d}) \cup {e}
      BY <1>1, <1>2, <2>2, <2>7 DEF Waiting, Unpublished
    <3>2. Pending' = (Pending \ {Row(d)}) \cup {Row(e)}
      BY <2>3, <2>5, <3>1 DEF Pending
    <3>3. Row(e) = [id |-> Row(d).id, text |-> e.text] /\ e.text > Row(d).text
      BY <2>7 DEF Row
    <3>4. Row(d) \in Pending
      BY <2>3 DEF Pending
    <3>5. QED
      BY <1>2, <3>2, <3>3, <3>4, RewriteStep
  <2>8. ASSUME NEW d \in drafts, job[c].drafts = drafts \ {d}
        PROVE  Board!BoardNext
    <3>1. Waiting' = drafts \ {d}
      BY <1>1, <1>2, <2>2, <2>8 DEF Waiting, Unpublished
    <3>2. Pending' = Pending \ {Row(d)} /\ Row(d) \in Pending
      BY <2>3, <2>5, <3>1 DEF Pending
    <3>3. QED
      BY <1>2, <3>2, DiscardStep
  <2>9. QED
    BY <2>1, <2>6, <2>7, <2>8 DEF Drafts
<1>6. QED
  BY <1>1, <1>4, <1>5

LEMMA StepMaps ==
  ASSUME NoFaults, JournalInv, [Next]_vars
  PROVE  Board!BoardNext \/ UNCHANGED Board!boardVars
<1>1. ASSUME NEW c \in Calls, Load(c)
      PROVE  UNCHANGED <<comments, drafts, journal>>
  BY <1>1 DEF Load, CreateThread, CheckThread, RepeatReply, AddReply, UpdateComment,
              DeletePublished, CreateDraft, UpdateDraft, DeleteDraft, PublishDrafts,
              Begin, files
<1>2. ASSUME NEW cs, Abandon(cs)
      PROVE  UNCHANGED <<comments, drafts, journal>>
  BY <1>2 DEF Abandon, files
<1>3. ASSUME NEW c \in Calls, RenameComments(c)
      PROVE  Board!BoardNext
  <2>1. job[c].op \in CommentOps
    BY <1>3 DEF RenameComments, JournalInv, KeepInv, CallInOrder, StepsFit
  <2>2. QED
    BY <1>3, <2>1, CreateMaps, UpdateMaps, PublishMaps DEF CommentOps
<1>4. ASSUME NEW c \in Calls, WriteCommentsTmp(c) \/ WriteDraftsTmp(c) \/ Answer(c)
      PROVE  UNCHANGED <<comments, drafts, journal>>
  BY <1>4 DEF WriteCommentsTmp, WriteDraftsTmp, Answer, files
<1>5. ASSUME NEW c \in Calls, FileStep(c)
      PROVE  Board!BoardNext \/ UNCHANGED Board!boardVars
  BY <1>2, <1>3, <1>4, <1>5, AppendEventMaps, RenameDraftsMaps, SameBoard
  DEF FileStep, LoseTmp
<1>6. CASE UNCHANGED vars
  BY <1>6, SameBoard DEF vars, files
<1>7. QED
  BY <1>1, <1>2, <1>5, <1>6, SameBoard DEF Next, FailCall, Crash

LEMMA InitMaps == Init => Board!BoardInit
BY DEF Init, Board!BoardInit, ReadAll, Tombstones

\* With one server and no failure the store is the review board: each step of a
\* call is one operation of the board at one instant, or nothing anybody sees.
THEOREM StoreIsABoard ==
  ASSUME SoleServer, NoFaults
  PROVE  Spec => ImplementsBoard
<1>1. JournalInv /\ [Next]_vars => [Board!BoardNext]_Board!boardVars
  BY StepMaps
<1>2. QED
  BY <1>1, InitMaps, JournalAlways, PTL DEF Spec, ImplementsBoard, Board!BoardSpec
=============================================================================
