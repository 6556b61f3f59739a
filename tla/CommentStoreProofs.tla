------------------------- MODULE CommentStoreProofs -------------------------
(***************************************************************************)
(* Theorems about CommentStore for any number of servers, calls, places,   *)
(* keys, stamps and faults.                                                *)
(***************************************************************************)
EXTENDS CommentStore, TLAPS

-----------------------------------------------------------------------------
(* Type correctness *)

\* What readAll returns are rows of comments.jsonl.
LEMMA ReadAllType == TypeOK => ReadAll \in SUBSET Comment
  BY DEF TypeOK, ReadAll

\* Whatever completes, the next step is a step.
LEMMA AfterType ==
  ASSUME NEW op, NEW step
  PROVE  After(op, step) \in Steps
  BY DEF After, CreateOrder, PublishOrder, UpdateOrder, DeleteOrder,
         DraftOrder, Steps

\* An operation that starts leaves a well-typed call behind.
LEMMA BeginType ==
  ASSUME TypeOK, NEW c \in Calls, NEW j \in Job, Begin(c, j),
         stamp' \in Nat, discarded' \in SUBSET Nat
  PROVE  TypeOK'
  <1>1. job' \in [Calls -> Job] /\ pc' \in [Calls -> Steps]
    BY AfterType DEF TypeOK, Begin
  <1>2. UNCHANGED <<files, faults, answers>>
    BY DEF Begin
  <1>3. QED
    BY <1>1, <1>2 DEF TypeOK, files, answers

LEMMA ContinueType ==
  ASSUME TypeOK, NEW c \in Calls, Continue(c)
  PROVE  pc' \in [Calls -> Steps]
  BY AfterType DEF TypeOK, Continue

LEMMA NoJobType == NoJob \in Job
  BY DEF NoJob, Job, Ops, NoComment, CommentId

\* Calls that end early leave well-typed calls behind.
LEMMA AbandonType ==
  ASSUME TypeOK, NEW cs, Abandon(cs), faults' \in Nat
  PROVE  TypeOK'
  <1>1. job' \in [Calls -> Job] /\ pc' \in [Calls -> Steps]
    BY NoJobType DEF TypeOK, Abandon, Steps
  <1>2. UNCHANGED <<files, stamp, answers, discarded>>
    BY DEF Abandon
  <1>3. QED
    BY <1>1, <1>2 DEF TypeOK, files, answers

LEMMA EventType ==
  ASSUME NEW m \in Comment
  PROVE  /\ CreatedEvent(m) \in Event
         /\ AddedEvent(m) \in Event
         /\ UpdatedEvent(m) \in Event
         /\ DeletedEvent(m) \in Event
         /\ PublishEvent(m) \in Event
  BY DEF Comment, Event, CreatedEvent, AddedEvent, UpdatedEvent, DeletedEvent,
         PublishEvent, NoComment, CommentId, Actors

\* Every action leaves every variable in its type.
LEMMA TypeStep == TypeOK /\ [Next]_vars => TypeOK'
<1> SUFFICES ASSUME TypeOK, [Next]_vars
             PROVE  TypeOK'
  OBVIOUS
<1> USE DEF files, answers
<1>1. ASSUME NEW c \in Calls, NEW actor \in Actors, CreateThread(c, actor)
      PROVE  TypeOK'
  <2> DEFINE id == <<stamp + 1, 0>>
             m == [id |-> id, thread |-> id, actor |-> actor, key |-> NoKey,
                   text |-> stamp + 1]
             j == [NoJob EXCEPT !.op = "create",
                                !.comments = ReadAll \cup {m},
                                !.events = {CreatedEvent(m)},
                                !.makes = {id}]
  <2>1. m \in Comment
    BY DEF TypeOK, Comment, CommentId
  <2>2. j \in Job
    <3>1. id \in CommentId
      BY <2>1 DEF Comment
    <3>2. ReadAll \cup {m} \subseteq Comment
      BY <2>1, ReadAllType
    <3>3. {CreatedEvent(m)} \subseteq Event
      BY <2>1, EventType
    <3> HIDE DEF m, id
    <3>4. QED
      BY <3>1, <3>2, <3>3, NoJobType DEF Job, Ops
  <2>3. Begin(c, j) /\ stamp' \in Nat /\ discarded' \in SUBSET Nat
    BY <1>1 DEF CreateThread, Stamped, TypeOK
  <2> HIDE DEF j
  <2>4. QED
    BY <2>2, <2>3, BeginType
<1>2. ASSUME NEW c \in Calls, CheckThread(c)
      PROVE  TypeOK'
  <2>1. PICK t \in OpenThreads :
          job' = [job EXCEPT ![c] = [NoJob EXCEPT !.thread = t]]
    BY <1>2 DEF CheckThread
  <2>2. t \in CommentId
    BY ReadAllType DEF OpenThreads, Comment
  <2>3. [NoJob EXCEPT !.thread = t] \in Job
    BY <2>2, NoJobType DEF Job
  <2>4. QED
    BY <1>2, <2>1, <2>3 DEF CheckThread, TypeOK, Steps
<1>3. ASSUME NEW c \in Calls, NEW actor \in Actors, NEW key \in Keys \cup {NoKey},
             RepeatReply(c, actor, key)
      PROVE  TypeOK'
  <2>1. [job[c] EXCEPT !.op = "reply"] \in Job
    <3>1. job[c] \in Job
      BY DEF TypeOK
    <3>2. QED
      BY <3>1 DEF Job, Ops
  <2>2. QED
    BY <1>3, <2>1 DEF RepeatReply, TypeOK, Steps
<1>4. ASSUME NEW c \in Calls, NEW actor \in Actors, NEW key \in Keys \cup {NoKey},
             AddReply(c, actor, key)
      PROVE  TypeOK'
  <2> DEFINE id == <<stamp + 1, 0>>
             m == [id |-> id, thread |-> job[c].thread, actor |-> actor,
                   key |-> key, text |-> stamp + 1]
             j == [NoJob EXCEPT !.op = "reply", !.thread = m.thread,
                                !.comments = ReadAll \cup {m},
                                !.events = {AddedEvent(m)},
                                !.makes = {id}]
  <2>1. m \in Comment
    BY DEF TypeOK, Comment, CommentId, Job
  <2>2. j \in Job
    <3>1. m.thread \in CommentId /\ id \in CommentId
      BY <2>1 DEF Comment
    <3>2. ReadAll \cup {m} \subseteq Comment
      BY <2>1, ReadAllType
    <3>3. {AddedEvent(m)} \subseteq Event
      BY <2>1, EventType
    <3> HIDE DEF m, id
    <3>4. QED
      BY <3>1, <3>2, <3>3, NoJobType DEF Job, Ops
  <2>3. Begin(c, j) /\ stamp' \in Nat /\ discarded' \in SUBSET Nat
    BY <1>4 DEF AddReply, Stamped, TypeOK
  <2> HIDE DEF j
  <2>4. QED
    BY <2>2, <2>3, BeginType
<1>5. ASSUME NEW c \in Calls, UpdateComment(c)
      PROVE  TypeOK'
  <2> DEFINE j(m) == [NoJob EXCEPT
                        !.op = "update",
                        !.comments = (ReadAll \ {m}) \cup {[m EXCEPT !.text = stamp + 1]},
                        !.events = {UpdatedEvent(m)}]
  <2>1. PICK m \in ReadAll : Begin(c, j(m))
    BY <1>5 DEF UpdateComment
  <2>2. m \in Comment /\ [m EXCEPT !.text = stamp + 1] \in Comment
    BY ReadAllType DEF TypeOK, Comment
  <2>3. j(m) \in Job
    BY <2>2, NoJobType, ReadAllType, EventType DEF Job, Ops
  <2>4. stamp' \in Nat /\ discarded' \in SUBSET Nat
    BY <1>5 DEF UpdateComment, Stamped, TypeOK
  <2> HIDE DEF j
  <2>5. QED
    BY <2>1, <2>3, <2>4, BeginType
<1>6. ASSUME NEW c \in Calls, DeletePublished(c)
      PROVE  TypeOK'
  <2>1. UNCHANGED <<stamp, discarded>> /\ stamp' \in Nat /\ discarded' \in SUBSET Nat
    BY <1>6 DEF DeletePublished, TypeOK
  <2>2. CASE \E m \in {n \in ReadAll : n.actor = "human"} :
               Begin(c, [NoJob EXCEPT !.op = "delete", !.events = {DeletedEvent(m)},
                                      !.erases = {m.id}])
    <3> DEFINE j(m) == [NoJob EXCEPT !.op = "delete", !.events = {DeletedEvent(m)},
                                     !.erases = {m.id}]
    <3>1. PICK m \in ReadAll : Begin(c, j(m))
      BY <2>2
    <3>2. m \in Comment /\ m.id \in CommentId
      BY ReadAllType DEF Comment
    <3>3. j(m) \in Job
      BY <3>2, NoJobType, EventType DEF Job, Ops
    <3> HIDE DEF j
    <3>4. QED
      BY <2>1, <3>1, <3>3, BeginType
  <2>3. CASE \E i \in Tombstones :
               /\ job' = [job EXCEPT ![c] = [NoJob EXCEPT !.op = "delete",
                                                          !.erases = {i}]]
               /\ pc' = [pc EXCEPT ![c] = "answer"]
               /\ UNCHANGED <<files, faults, answers>>
    <3>1. PICK i \in Tombstones :
            job' = [job EXCEPT ![c] = [NoJob EXCEPT !.op = "delete", !.erases = {i}]]
      BY <2>3
    <3>2. i \in CommentId
      BY DEF Tombstones, TypeOK, Event
    <3>3. [NoJob EXCEPT !.op = "delete", !.erases = {i}] \in Job
      BY <3>2, NoJobType DEF Job, Ops
    <3>4. QED
      BY <2>1, <2>3, <3>1, <3>3 DEF TypeOK, Steps
  <2>4. QED
    BY <1>6, <2>2, <2>3 DEF DeletePublished
<1>7. ASSUME NEW c \in Calls, CreateDraft(c)
      PROVE  TypeOK'
  <2> DEFINE row(p, reply, under) ==
               [id |-> stamp + 1, place |-> p, reply |-> reply, under |-> under,
                text |-> stamp + 1]
             j(p, reply, under) ==
               [NoJob EXCEPT !.op = "draft",
                             !.drafts = drafts \cup {row(p, reply, under)},
                             !.saves = {stamp + 1}]
  <2>1. PICK p \in Places, reply \in CommentId, under \in Nat :
          Begin(c, j(p, reply, under))
    <3>1. OpenThreads \subseteq CommentId
      BY ReadAllType DEF OpenThreads, Comment
    <3>2. NoComment \in CommentId
      BY DEF NoComment, CommentId
    <3>3. \A d \in drafts : d.id \in Nat
      BY DEF TypeOK, Draft
    <3>4. QED
      BY <1>7, <3>1, <3>2, <3>3 DEF CreateDraft
  <2>2. row(p, reply, under) \in Draft
    BY DEF TypeOK, Draft
  <2>3. j(p, reply, under) \in Job
    <3>1. drafts \cup {row(p, reply, under)} \subseteq Draft
      BY <2>2 DEF TypeOK
    <3>2. {stamp + 1} \subseteq Nat
      BY DEF TypeOK
    <3> HIDE DEF row
    <3>3. QED
      BY <3>1, <3>2, NoJobType DEF Job, Ops
  <2>4. stamp' \in Nat /\ discarded' \in SUBSET Nat
    <3>1. Stamped /\ UNCHANGED discarded
      BY <1>7 DEF CreateDraft
    <3>2. QED
      BY <3>1 DEF Stamped, TypeOK
  <2> HIDE DEF j
  <2>5. QED
    BY <2>1, <2>3, <2>4, BeginType
<1>8. ASSUME NEW c \in Calls, UpdateDraft(c)
      PROVE  TypeOK'
  <2> DEFINE j(d) == [NoJob EXCEPT
                        !.op = "draft",
                        !.drafts = (drafts \ {d}) \cup {[d EXCEPT !.text = stamp + 1]}]
  <2>1. PICK d \in drafts : Begin(c, j(d))
    BY <1>8 DEF UpdateDraft
  <2>2. [d EXCEPT !.text = stamp + 1] \in Draft
    BY DEF TypeOK, Draft
  <2>3. j(d) \in Job
    BY <2>2, NoJobType DEF Job, Ops, TypeOK
  <2>4. stamp' \in Nat /\ discarded' \in SUBSET Nat
    BY <1>8 DEF UpdateDraft, Stamped, TypeOK
  <2> HIDE DEF j
  <2>5. QED
    BY <2>1, <2>3, <2>4, BeginType
<1>9. ASSUME NEW c \in Calls, DeleteDraft(c)
      PROVE  TypeOK'
  <2>1. PICK d \in drafts :
          /\ Begin(c, [NoJob EXCEPT !.op = "draft", !.drafts = drafts \ {d}])
          /\ discarded' = discarded \cup {d.id}
    BY <1>9 DEF DeleteDraft
  <2>2. [NoJob EXCEPT !.op = "draft", !.drafts = drafts \ {d}] \in Job
    BY NoJobType DEF Job, Ops, TypeOK
  <2>3. discarded' \in SUBSET Nat
    BY <2>1 DEF TypeOK, Draft
  <2>4. stamp' \in Nat
    BY <1>9 DEF DeleteDraft, TypeOK
  <2>5. QED
    BY <2>1, <2>2, <2>3, <2>4, BeginType
<1>10. ASSUME NEW c \in Calls, PublishDrafts(c)
       PROVE  TypeOK'
  <2> DEFINE batch(sel, lead) == {Published(d, lead) : d \in sel}
             j(sel, lead) == [NoJob EXCEPT
                                !.op = "publish",
                                !.comments = ReadAll \cup batch(sel, lead),
                                !.drafts = drafts \ sel,
                                !.events = {PublishEvent(m) : m \in batch(sel, lead)},
                                !.makes = Ids(batch(sel, lead))]
  <2>1. PICK sel \in SUBSET drafts :
          \E lead \in [Ids(sel) -> Ids(sel)] : Begin(c, j(sel, lead))
    BY <1>10 DEF PublishDrafts
  <2>6. PICK lead \in [Ids(sel) -> Ids(sel)] : Begin(c, j(sel, lead))
    BY <2>1
  <2>2. batch(sel, lead) \subseteq Comment
    <3>1. ASSUME NEW d \in sel
          PROVE  Published(d, lead) \in Comment
      <4>1. d \in Draft
        BY DEF TypeOK
      <4>2. lead[d.id] \in Nat
        <5>1. d.id \in Ids(sel)
          BY DEF Ids
        <5>2. Ids(sel) \subseteq Nat
          BY DEF Ids, TypeOK, Draft
        <5>3. QED
          BY <5>1, <5>2
      <4>3. QED
        BY <4>1, <4>2 DEF Published, Comment, CommentId, Draft, Actors, TypeOK
    <3>2. QED
      BY <3>1
  <2>3. j(sel, lead) \in Job
    <3>1. {PublishEvent(m) : m \in batch(sel, lead)} \subseteq Event
      BY <2>2, EventType
    <3>2. Ids(batch(sel, lead)) \subseteq CommentId
      BY <2>2 DEF Ids, Comment
    <3>3. ReadAll \cup batch(sel, lead) \subseteq Comment
      BY <2>2, ReadAllType
    <3>4. drafts \ sel \subseteq Draft
      BY DEF TypeOK
    <3> HIDE DEF batch
    <3>5. QED
      BY <3>1, <3>2, <3>3, <3>4, NoJobType DEF Job, Ops
  <2>4. stamp' \in Nat /\ discarded' \in SUBSET Nat
    BY <1>10 DEF PublishDrafts, Stamped, TypeOK
  <2> HIDE DEF j
  <2>5. QED
    BY <2>6, <2>3, <2>4, BeginType
<1>11. ASSUME NEW c \in Calls, WriteCommentsTmp(c)
       PROVE  TypeOK'
  <2>1. job[c].comments \in SUBSET Comment
    BY DEF TypeOK, Job
  <2>2. QED
    BY <1>11, <2>1 DEF WriteCommentsTmp, TypeOK, Steps
<1>12. ASSUME NEW c \in Calls, RenameComments(c)
       PROVE  TypeOK'
  BY <1>12, ContinueType DEF RenameComments, TypeOK
<1>13. ASSUME NEW c \in Calls, AppendEvent(c)
       PROVE  TypeOK'
  <2>1. PICK e \in job[c].events :
          /\ journal' = journal \cup {e}
          /\ job' = [job EXCEPT ![c].events = job[c].events \ {e}]
          /\ Continue(c) \/ UNCHANGED pc
    BY <1>13 DEF AppendEvent
  <2>2. job[c].events \subseteq Event
    BY DEF TypeOK, Job
  <2>3. [job[c] EXCEPT !.events = job[c].events \ {e}] \in Job
    BY <2>2 DEF TypeOK, Job
  <2>4. job' \in [Calls -> Job]
    BY <2>1, <2>3 DEF TypeOK
  <2>5. pc' \in [Calls -> Steps]
    BY <2>1, ContinueType DEF TypeOK
  <2>6. QED
    BY <1>13, <2>1, <2>2, <2>4, <2>5 DEF AppendEvent, TypeOK
<1>14. ASSUME NEW c \in Calls, WriteDraftsTmp(c)
       PROVE  TypeOK'
  <2>1. job[c].drafts \in SUBSET Draft
    BY DEF TypeOK, Job
  <2>2. QED
    BY <1>14, <2>1 DEF WriteDraftsTmp, TypeOK, Steps
<1>15. ASSUME NEW c \in Calls, RenameDrafts(c)
       PROVE  TypeOK'
  BY <1>15, ContinueType DEF RenameDrafts, TypeOK
<1>16. ASSUME NEW c \in Calls, Answer(c)
       PROVE  TypeOK'
  <2>1. /\ job[c].makes \subseteq CommentId
        /\ job[c].saves \subseteq Nat
        /\ job[c].erases \subseteq CommentId
    BY DEF TypeOK, Job
  <2>2. QED
    BY <1>16, <2>1, NoJobType DEF Answer, TypeOK, Steps
<1>17. ASSUME NEW c \in Calls, LoseTmp(c) \/ FailCall(c)
       PROVE  TypeOK'
  <2>1. faults' \in Nat /\ Abandon({c})
    BY <1>17 DEF LoseTmp, FailCall, TypeOK
  <2>2. QED
    BY <2>1, AbandonType
<1>18. ASSUME NEW s \in Servers, Crash(s)
       PROVE  TypeOK'
  <2>1. faults' \in Nat /\ Abandon({c \in Calls : Home[c] = s})
    BY <1>18 DEF Crash, TypeOK
  <2>2. QED
    BY <2>1, AbandonType
<1>19. CASE UNCHANGED vars
  BY <1>19 DEF vars, TypeOK
<1>20. QED
  BY <1>1, <1>2, <1>3, <1>4, <1>5, <1>6, <1>7, <1>8, <1>9, <1>10, <1>11, <1>12,
     <1>13, <1>14, <1>15, <1>16, <1>17, <1>18, <1>19
  DEF Next, Load, FileStep

\* In every reachable state the files, the calls and the answers are what their
\* comments say: no step of comments.go mixes up the rows of the three files.
THEOREM TypeCorrect == Spec => []TypeOK
<1>1. Init => TypeOK
  BY NoJobType, StoreAssumption DEF Init, TypeOK, Steps
<1>2. QED
  BY <1>1, TypeStep, PTL DEF Spec

-----------------------------------------------------------------------------
(* Deleted comments stay deleted *)

\* A call that will confirm the deletion of comment i has its tombstone in the
\* journal or is about to append it.
Buries(c, i) ==
    \/ i \in Tombstones
    \/ /\ pc[c] = "journal"
       /\ \E e \in job[c].events : e.type = "deleted" /\ e.comment = i

\* The answered deletions alone are not inductive: they follow from what the
\* calls in flight are going to answer.
DeletionInv ==
    /\ TypeOK
    /\ erased \subseteq Tombstones
    /\ \A c \in Calls : \A i \in job[c].erases : Buries(c, i)

\* The journal is append-only, so tombstones are never taken back.
LEMMA TombstonesStay ==
  ASSUME journal \subseteq journal'
  PROVE  Tombstones \subseteq Tombstones'
  BY DEF Tombstones

\* An operation that promises a deletion has its tombstone to append.
LEMMA BeginBuries ==
  ASSUME DeletionInv, NEW c \in Calls, NEW j, Begin(c, j), TypeOK',
         \A i \in j.erases : /\ After(j.op, "load") = "journal"
                             /\ \E e \in j.events : e.type = "deleted" /\ e.comment = i
  PROVE  DeletionInv'
  <1>1. Tombstones' = Tombstones /\ erased' = erased
    BY DEF Begin, files, answers, Tombstones
  <1>2. job' = [job EXCEPT ![c] = j] /\ pc' = [pc EXCEPT ![c] = After(j.op, "load")]
    BY DEF Begin
  <1>3. ASSUME NEW d \in Calls, NEW i \in job'[d].erases
        PROVE  Buries(d, i)'
    BY <1>1, <1>2, <1>3 DEF DeletionInv, Buries, TypeOK
  <1>4. QED
    BY <1>1, <1>3 DEF DeletionInv

\* The reads of an operation that promises no deletion.
LoadsNoDeletion(c) ==
    /\ UNCHANGED <<journal, erased>>
    /\ job'[c].erases = {}
    /\ \A d \in Calls \ {c} : job'[d] = job[d] /\ pc'[d] = pc[d]

\* Every action keeps the promise of every call.
LEMMA DeletionStep == DeletionInv /\ [Next]_vars => DeletionInv'
<1> SUFFICES ASSUME DeletionInv, [Next]_vars
             PROVE  DeletionInv'
  OBVIOUS
<1> TypeOK /\ TypeOK'
  BY TypeStep DEF DeletionInv
<1> USE DEF files, answers
\* Operations that delete no comment.
<1>1. ASSUME NEW c \in Calls, LoadsNoDeletion(c)
      PROVE  DeletionInv'
  <2>1. Tombstones' = Tombstones
    BY <1>1 DEF LoadsNoDeletion, Tombstones
  <2>2. ASSUME NEW d \in Calls, NEW i \in job'[d].erases
        PROVE  Buries(d, i)'
    BY <1>1, <2>1, <2>2 DEF LoadsNoDeletion, DeletionInv, Buries
  <2>3. QED
    BY <1>1, <2>1, <2>2 DEF LoadsNoDeletion, DeletionInv
<1>2. ASSUME NEW c \in Calls,
             \/ \E actor \in Actors : CreateThread(c, actor)
             \/ CheckThread(c)
             \/ \E actor \in Actors, key \in Keys \cup {NoKey} : AddReply(c, actor, key)
             \/ UpdateComment(c)
             \/ CreateDraft(c) \/ UpdateDraft(c) \/ DeleteDraft(c)
             \/ PublishDrafts(c)
      PROVE  LoadsNoDeletion(c)
  <2> USE DEF LoadsNoDeletion, Begin, TypeOK
  <2>1. CASE \E actor \in Actors : CreateThread(c, actor)
    BY <2>1 DEF CreateThread, NoJob
  <2>2. CASE CheckThread(c)
    BY <2>2 DEF CheckThread, NoJob
  <2>3. CASE \E actor \in Actors, key \in Keys \cup {NoKey} : AddReply(c, actor, key)
    BY <2>3 DEF AddReply, NoJob
  <2>4. CASE UpdateComment(c)
    BY <2>4 DEF UpdateComment, NoJob
  <2>5. CASE CreateDraft(c)
    <3>1. \E rows, ids : Begin(c, [NoJob EXCEPT !.op = "draft", !.drafts = rows,
                                                !.saves = ids])
      BY <2>5 DEF CreateDraft
    <3>2. QED
      BY <3>1 DEF NoJob
  <2>6. CASE UpdateDraft(c)
    BY <2>6 DEF UpdateDraft, NoJob
  <2>7. CASE DeleteDraft(c)
    BY <2>7 DEF DeleteDraft, NoJob
  <2>8. CASE PublishDrafts(c)
    BY <2>8 DEF PublishDrafts, NoJob
  <2>9. QED
    BY <1>2, <2>1, <2>2, <2>3, <2>4, <2>5, <2>6, <2>7, <2>8
<1>3. ASSUME NEW c \in Calls, NEW actor \in Actors, NEW key \in Keys \cup {NoKey},
             RepeatReply(c, actor, key)
      PROVE  DeletionInv'
  <2>1. Tombstones' = Tombstones /\ erased' = erased
    BY <1>3 DEF RepeatReply, Tombstones
  <2>2. ASSUME NEW d \in Calls
        PROVE  /\ job'[d].erases = job[d].erases /\ job'[d].events = job[d].events
               /\ pc[d] = "journal" => pc'[d] = pc[d]
    BY <1>3 DEF RepeatReply, TypeOK, Job
  <2>3. ASSUME NEW d \in Calls, NEW i \in job'[d].erases
        PROVE  Buries(d, i)'
    BY <2>1, <2>2, <2>3 DEF DeletionInv, Buries
  <2>4. QED
    BY <2>1, <2>3 DEF DeletionInv
\* The deletion itself: it appends the tombstone, or finds it in the journal.
<1>4. ASSUME NEW c \in Calls, DeletePublished(c)
      PROVE  DeletionInv'
  <2>1. CASE \E m \in ReadAll :
               Begin(c, [NoJob EXCEPT !.op = "delete", !.events = {DeletedEvent(m)},
                                      !.erases = {m.id}])
    <3>1. PICK m \in ReadAll :
            Begin(c, [NoJob EXCEPT !.op = "delete", !.events = {DeletedEvent(m)},
                                   !.erases = {m.id}])
      BY <2>1
    <3> DEFINE j == [NoJob EXCEPT !.op = "delete", !.events = {DeletedEvent(m)},
                                  !.erases = {m.id}]
    <3>2. /\ j.op = "delete" /\ j.erases = {m.id} /\ j.events = {DeletedEvent(m)}
          /\ DeletedEvent(m).type = "deleted" /\ DeletedEvent(m).comment = m.id
      BY DEF NoJob, DeletedEvent
    <3>3. After("delete", "load") = "journal"
      BY DEF After, DeleteOrder
    <3>4. Begin(c, j)
      BY <3>1
    <3> HIDE DEF j
    <3>5. QED
      BY <3>2, <3>3, <3>4, BeginBuries
  <2>2. CASE \E i \in Tombstones :
               /\ job' = [job EXCEPT ![c] = [NoJob EXCEPT !.op = "delete",
                                                          !.erases = {i}]]
               /\ pc' = [pc EXCEPT ![c] = "answer"]
               /\ UNCHANGED <<files, faults, answers>>
    <3>1. Tombstones' = Tombstones /\ erased' = erased
      BY <2>2 DEF Tombstones
    <3>2. ASSUME NEW d \in Calls, NEW i \in job'[d].erases
          PROVE  Buries(d, i)'
      BY <2>2, <3>1, <3>2 DEF NoJob, DeletionInv, Buries, TypeOK
    <3>3. QED
      BY <3>1, <3>2 DEF DeletionInv
  <2>3. QED
    BY <1>4, <2>1, <2>2 DEF DeletePublished
\* File steps that leave the journal alone do not end at "journal".
<1>5. ASSUME NEW c \in Calls,
             \/ WriteCommentsTmp(c) \/ RenameComments(c)
             \/ WriteDraftsTmp(c) \/ RenameDrafts(c)
      PROVE  DeletionInv'
  <2>1. /\ Tombstones' = Tombstones /\ erased' = erased /\ job' = job
        /\ \A d \in Calls : pc[d] = "journal" => pc'[d] = pc[d]
    BY <1>5 DEF WriteCommentsTmp, RenameComments, WriteDraftsTmp, RenameDrafts,
                Continue, Tombstones, TypeOK
  <2>2. QED
    BY <2>1 DEF DeletionInv, Buries
<1>6. ASSUME NEW c \in Calls, AppendEvent(c)
      PROVE  DeletionInv'
  <2>1. PICK e \in job[c].events :
          /\ journal' = journal \cup {e}
          /\ job' = [job EXCEPT ![c].events = job[c].events \ {e}]
          /\ job[c].events # {e} => UNCHANGED pc
          /\ \A d \in Calls \ {c} : pc'[d] = pc[d]
          /\ erased' = erased
    <3>1. PICK e \in job[c].events :
            /\ journal' = journal \cup {e}
            /\ job' = [job EXCEPT ![c].events = job[c].events \ {e}]
            /\ IF job[c].events \ {e} = {} THEN Continue(c) ELSE UNCHANGED pc
      BY <1>6 DEF AppendEvent
    <3>2. \A d \in Calls \ {c} : pc'[d] = pc[d]
      BY <3>1 DEF Continue, TypeOK
    <3>3. job[c].events # {e} => job[c].events \ {e} # {}
      BY <3>1
    <3>4. erased' = erased
      BY <1>6 DEF AppendEvent
    <3>5. QED
      BY <3>1, <3>2, <3>3, <3>4
  <2>2. Tombstones \subseteq Tombstones'
    BY <2>1, TombstonesStay
  <2>3. e.type = "deleted" => e.comment \in Tombstones'
    BY <2>1 DEF Tombstones
  <2>4. ASSUME NEW d \in Calls, NEW i \in job'[d].erases
        PROVE  Buries(d, i)'
    <3>1. job'[d].erases = job[d].erases
      BY <2>1 DEF TypeOK, Job
    <3>2. CASE d # c
      BY <2>1, <2>2, <2>4, <3>1, <3>2 DEF DeletionInv, Buries, TypeOK
    <3>3. CASE d = c /\ i \notin Tombstones'
      <4>1. PICK f \in job[c].events : f.type = "deleted" /\ f.comment = i
        BY <2>2, <2>4, <3>1, <3>3 DEF DeletionInv, Buries
      <4>2. f # e
        BY <2>3, <3>3, <4>1
      <4>3. f \in job'[c].events
        BY <2>1, <4>1, <4>2 DEF TypeOK, Job
      <4>4. pc'[c] = "journal"
        BY <1>6, <2>1, <4>1, <4>2 DEF AppendEvent
      <4>5. QED
        BY <3>3, <4>1, <4>3, <4>4 DEF Buries
    <3>4. QED
      BY <3>2, <3>3 DEF Buries
  <2>5. QED
    BY <2>1, <2>2, <2>4 DEF DeletionInv
<1>7. ASSUME NEW c \in Calls, Answer(c)
      PROVE  DeletionInv'
  <2>1. Tombstones' = Tombstones /\ erased' = erased \cup job[c].erases
    BY <1>7 DEF Answer, Tombstones
  <2>2. job[c].erases \subseteq Tombstones
    BY <1>7 DEF Answer, DeletionInv, Buries
  <2>3. ASSUME NEW d \in Calls, NEW i \in job'[d].erases
        PROVE  Buries(d, i)'
    BY <1>7, <2>1, <2>3 DEF Answer, NoJob, DeletionInv, Buries, TypeOK
  <2>4. QED
    BY <2>1, <2>2, <2>3 DEF DeletionInv
\* A call that fails or crashes answers nothing.
<1>8. ASSUME NEW cs, Abandon(cs)
      PROVE  DeletionInv'
  <2>1. Tombstones' = Tombstones /\ erased' = erased
    BY <1>8 DEF Abandon, Tombstones
  <2>2. ASSUME NEW d \in Calls, NEW i \in job'[d].erases
        PROVE  Buries(d, i)'
    BY <1>8, <2>1, <2>2 DEF Abandon, NoJob, DeletionInv, Buries, TypeOK
  <2>3. QED
    BY <2>1, <2>2 DEF DeletionInv
<1>9. CASE UNCHANGED vars
  BY <1>9 DEF vars, DeletionInv, Buries, Tombstones
<1>10. ASSUME NEW c \in Calls, Load(c)
       PROVE  DeletionInv'
  BY <1>1, <1>2, <1>3, <1>4, <1>10 DEF Load
<1>11. ASSUME NEW c \in Calls, FileStep(c) \/ FailCall(c)
       PROVE  DeletionInv'
  BY <1>5, <1>6, <1>7, <1>8, <1>11 DEF FileStep, FailCall, LoseTmp
<1>12. ASSUME NEW s \in Servers, Crash(s)
       PROVE  DeletionInv'
  BY <1>8, <1>12 DEF Crash
<1>13. QED
  BY <1>9, <1>10, <1>11, <1>12 DEF Next

\* A comment whose deletion was answered with success is never read again, for
\* any number of servers that rewrite comments.jsonl from stale reads, crash and
\* lose each other's .tmp files: the tombstone is journalled before the answer,
\* and every read of comments.jsonl honours it.
THEOREM DeletionHolds == Spec => []ErasedStaysErased
<1>1. Init => DeletionInv
  <2>1. ASSUME Init
        PROVE  /\ erased = {}
               /\ \A c \in Calls : job[c].erases = {}
    BY <2>1 DEF Init, NoJob
  <2>2. Init => TypeOK
    BY NoJobType, StoreAssumption DEF Init, TypeOK, Steps
  <2>3. QED
    BY <2>1, <2>2 DEF DeletionInv
<1>2. DeletionInv => ErasedStaysErased
  BY DEF DeletionInv, ErasedStaysErased, ReadAll, Ids
<1>3. QED
  BY <1>1, <1>2, DeletionStep, PTL DEF Spec
=============================================================================
