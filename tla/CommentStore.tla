---------------------------- MODULE CommentStore ----------------------------
(***************************************************************************)
(* The file-backed comment store of a vivi server                          *)
(* (src/server/comments/comments.go).  Every server process that reviews   *)
(* one workspace root opens the same three files:                          *)
(*                                                                         *)
(*   comments.jsonl         published comments, rewritten as a whole       *)
(*   comment-threads.jsonl  append-only journal of thread events           *)
(*   comment-drafts.jsonl   unpublished drafts, rewritten as a whole       *)
(*                                                                         *)
(* An operation holds its process's mutex, reads the files, and then       *)
(* changes them one at a time: a rewrite fills the fixed ".tmp" file and   *)
(* renames it over the target, an event is appended.  The mutex excludes   *)
(* calls of the same process only.  Between two of these steps the process *)
(* may crash, an I/O error may end the call, and calls of other processes  *)
(* may run.                                                                *)
(*                                                                         *)
(* Abstractions: files are sets of rows; bodies, anchors and timestamps    *)
(* are left out, except that `text` names the call that wrote a body and   *)
(* `place` stands for a draft's path and anchor.  Filling a .tmp file is   *)
(* one step, and so are the reads at the start of an operation.            *)
(***************************************************************************)
EXTENDS Naturals

CONSTANTS
    Servers,    \* server processes sharing the data directory
    Calls,      \* requests that may be in flight at the same time
    Home,       \* Home[c]: the server that handles call c
    Places,     \* path and anchor of a draft
    Keys,       \* client event ids sent with a reply
    NoKey,      \* a reply sent without one
    MaxStamp,   \* bound: calls that create an id or write a text
    MaxFaults   \* bound: crashes and I/O errors

ASSUME StoreAssumption ==
    /\ Home \in [Calls -> Servers]
    /\ NoKey \notin Keys
    /\ MaxStamp \in Nat
    /\ MaxFaults \in Nat

VARIABLES
    comments,     \* comments.jsonl
    commentsTmp,  \* comments.jsonl.tmp: {} or the singleton of its content
    drafts,       \* comment-drafts.jsonl
    draftsTmp,    \* comment-drafts.jsonl.tmp
    journal,      \* comment-threads.jsonl
    pc,           \* the next step of each call
    job,          \* the locals of each call
    stamp,        \* number of ids and texts handed out
    faults,       \* crashes and I/O errors so far
    confirmed,    \* comments whose creation was answered with success
    saved,        \* drafts whose creation was answered with success
    discarded,    \* drafts somebody asked to delete
    erased        \* comments whose deletion was answered with success

files == <<comments, commentsTmp, drafts, draftsTmp, journal>>
answers == <<confirmed, saved, erased>>
vars == <<files, pc, job, stamp, faults, answers, discarded>>

-----------------------------------------------------------------------------
(* Rows of the three files *)

\* A comment id is random in the code.  Here it is the stamp of the call that
\* made it and the draft it was published from (0: written directly).
CommentId == Nat \X Nat
NoComment == <<0, 0>>

Actors == {"human", "agent"}

\* A thread is named after its first comment.
Comment == [id: CommentId, thread: CommentId, actor: Actors,
            key: Keys \cup {NoKey}, text: Nat]

\* reply: the published thread a draft answers, or NoComment;
\* under: the draft it answers ("draft-thread:<id>:"), or 0.
Draft == [id: Nat, place: Places, reply: CommentId, under: Nat, text: Nat]

Event == [type: {"created", "added", "updated", "deleted"}, thread: CommentId,
          comment: CommentId, actor: Actors, key: Keys \cup {NoKey}]

Ids(rows) == {r.id : r \in rows}

Tombstones == {e.comment : e \in {f \in journal : f.type = "deleted"}}

\* The fault of reading the comment file without the journal's tombstones.
ReadAllUnfiltered == comments

\* readAll: rows of comments.jsonl that the journal has not tombstoned.
ReadAll == {m \in comments : m.id \notin Tombstones}

\* Threads as projectThreads lists them: those with a surviving comment.
OpenThreads == {m.thread : m \in ReadAll}

CreatedEvent(m) == [type |-> "created", thread |-> m.thread,
                    comment |-> NoComment, actor |-> m.actor, key |-> NoKey]
AddedEvent(m) == [type |-> "added", thread |-> m.thread, comment |-> m.id,
                  actor |-> m.actor, key |-> m.key]
UpdatedEvent(m) == [type |-> "updated", thread |-> m.thread, comment |-> m.id,
                    actor |-> m.actor, key |-> NoKey]
DeletedEvent(m) == [type |-> "deleted", thread |-> m.thread, comment |-> m.id,
                    actor |-> "human", key |-> NoKey]

-----------------------------------------------------------------------------
(* Calls *)

Steps == {"idle", "checked", "comments", "renameComments", "journal",
          "drafts", "renameDrafts", "answer"}
Ops == {"none", "create", "reply", "publish", "update", "delete", "draft"}

\* What a call carries after its reads: the contents it is going to write, the
\* events it is going to append, and what a successful answer confirms.
Job == [op: Ops, thread: CommentId, comments: SUBSET Comment,
        drafts: SUBSET Draft, events: SUBSET Event, makes: SUBSET CommentId,
        saves: SUBSET Nat, erases: SUBSET CommentId]

NoJob == [op |-> "none", thread |-> NoComment, comments |-> {}, drafts |-> {},
          events |-> {}, makes |-> {}, saves |-> {}, erases |-> {}]

\* The order in which each operation changes the files: the step that follows a
\* completed one.  Two faulty orders of publishing come first: drafts cleared
\* before the comments are in place, and drafts never cleared.
PublishDraftsFirst(step) ==
    CASE step = "load" -> "journal"
      [] step = "journal" -> "drafts"
      [] step = "renameDrafts" -> "comments"
      [] OTHER -> "answer"
PublishKeepsDrafts(step) ==
    CASE step = "load" -> "journal"
      [] step = "journal" -> "comments"
      [] OTHER -> "answer"
PublishOrder(step) ==
    CASE step = "load" -> "journal"
      [] step = "journal" -> "comments"
      [] step = "renameComments" -> "drafts"
      [] OTHER -> "answer"

\* The fault of a comment that is never entered in the journal.
CreateWithoutEvent(step) ==
    CASE step = "load" -> "comments"
      [] OTHER -> "answer"
CreateOrder(step) ==
    CASE step = "load" -> "comments"
      [] step = "renameComments" -> "journal"
      [] OTHER -> "answer"
UpdateOrder(step) ==
    CASE step = "load" -> "journal"
      [] step = "journal" -> "comments"
      [] OTHER -> "answer"
DeleteOrder(step) ==
    CASE step = "load" -> "journal"
      [] OTHER -> "answer"
DraftOrder(step) ==
    CASE step = "load" -> "drafts"
      [] OTHER -> "answer"

After(op, step) ==
    CASE op \in {"create", "reply"} -> CreateOrder(step)
      [] op = "publish" -> PublishOrder(step)
      [] op = "update" -> UpdateOrder(step)
      [] op = "delete" -> DeleteOrder(step)
      [] OTHER -> DraftOrder(step)

\* A call is inside the store from its reads to its answer.
Busy(c) == pc[c] \notin {"idle", "checked"}

\* The fault of a store without its mutex.
UnlockedAlways(c) == TRUE

\* The process-wide mutex is free.
Unlocked(c) == \A d \in Calls : Home[d] = Home[c] => ~Busy(d)

Stamped == stamp < MaxStamp /\ stamp' = stamp + 1

Begin(c, j) ==
    /\ job' = [job EXCEPT ![c] = j]
    /\ pc' = [pc EXCEPT ![c] = After(j.op, "load")]
    /\ UNCHANGED <<files, faults, answers>>

-----------------------------------------------------------------------------
(* Store operations: the locked reads that decide what a call writes *)

\* Store.Create without a thread: a new thread with its first comment.
CreateThread(c, actor) ==
    LET id == <<stamp + 1, 0>>
        m == [id |-> id, thread |-> id, actor |-> actor, key |-> NoKey,
              text |-> stamp + 1]
    IN  /\ pc[c] = "idle" /\ Unlocked(c)
        /\ Stamped
        /\ Begin(c, [NoJob EXCEPT !.op = "create",
                                  !.comments = ReadAll \cup {m},
                                  !.events = {CreatedEvent(m)},
                                  !.makes = {id}])
        /\ UNCHANGED discarded

\* CommentService.AddComment looks the thread up first and lets the mutex go.
CheckThread(c) ==
    /\ pc[c] = "idle" /\ Unlocked(c)
    /\ \E t \in OpenThreads : job' = [job EXCEPT ![c] = [NoJob EXCEPT !.thread = t]]
    /\ pc' = [pc EXCEPT ![c] = "checked"]
    /\ UNCHANGED <<files, stamp, faults, answers, discarded>>

\* The fault of matching a retried reply against nothing.
NoEarlierReply(t, actor, key) == {}

\* commentAddedByClientEvent: surviving comments the journal knows by that key.
EarlierReply(t, actor, key) ==
    {m \in ReadAll : /\ key # NoKey
                     /\ \E e \in journal : /\ e.type = "added"
                                           /\ e.thread = t /\ e.key = key
                                           /\ e.actor = actor /\ e.comment = m.id}

\* Store.Create with a thread, the key seen before: the stored comment is the
\* answer.
RepeatReply(c, actor, key) ==
    /\ pc[c] = "checked" /\ Unlocked(c)
    /\ EarlierReply(job[c].thread, actor, key) # {}
    /\ pc' = [pc EXCEPT ![c] = "answer"]
    /\ job' = [job EXCEPT ![c].op = "reply"]
    /\ UNCHANGED <<files, stamp, faults, answers, discarded>>

\* Store.Create with a thread: append a message to it.
AddReply(c, actor, key) ==
    LET id == <<stamp + 1, 0>>
        m == [id |-> id, thread |-> job[c].thread, actor |-> actor,
              key |-> key, text |-> stamp + 1]
    IN  /\ pc[c] = "checked" /\ Unlocked(c)
        /\ EarlierReply(job[c].thread, actor, key) = {}
        /\ Stamped
        /\ Begin(c, [NoJob EXCEPT !.op = "reply", !.thread = m.thread,
                                  !.comments = ReadAll \cup {m},
                                  !.events = {AddedEvent(m)},
                                  !.makes = {id}])
        /\ UNCHANGED discarded

\* Store.Update with a body.
UpdateComment(c) ==
    /\ pc[c] = "idle" /\ Unlocked(c)
    /\ Stamped
    /\ \E m \in ReadAll :
         Begin(c, [NoJob EXCEPT
                     !.op = "update",
                     !.comments = (ReadAll \ {m}) \cup {[m EXCEPT !.text = stamp + 1]},
                     !.events = {UpdatedEvent(m)}])
    /\ UNCHANGED discarded

\* Store.DeletePublished: only human comments; repeating a deletion succeeds
\* without a second tombstone.
DeletePublished(c) ==
    /\ pc[c] = "idle" /\ Unlocked(c)
    /\ \/ \E m \in {n \in ReadAll : n.actor = "human"} :
            Begin(c, [NoJob EXCEPT !.op = "delete", !.events = {DeletedEvent(m)},
                                   !.erases = {m.id}])
       \/ \E i \in Tombstones :
            /\ job' = [job EXCEPT ![c] = [NoJob EXCEPT !.op = "delete",
                                                       !.erases = {i}]]
            /\ pc' = [pc EXCEPT ![c] = "answer"]
            /\ UNCHANGED <<files, faults, answers>>
    /\ UNCHANGED <<stamp, discarded>>

\* Store.CreateDraft, with what the browser sends as the thread: nothing, a
\* published thread, or the key of another draft.
CreateDraft(c) ==
    LET Save(p, reply, under) ==
            Begin(c, [NoJob EXCEPT
                        !.op = "draft",
                        !.drafts = drafts \cup {[id |-> stamp + 1, place |-> p,
                                                 reply |-> reply, under |-> under,
                                                 text |-> stamp + 1]},
                        !.saves = {stamp + 1}])
    IN  /\ pc[c] = "idle" /\ Unlocked(c)
        /\ Stamped
        /\ \E p \in Places :
              \/ Save(p, NoComment, 0)
              \/ \E t \in OpenThreads : Save(p, t, 0)
              \/ \E d \in {e \in drafts : e.reply = NoComment /\ e.under = 0} :
                    Save(p, NoComment, d.id)
        /\ UNCHANGED discarded

\* Store.UpdateDraft.
UpdateDraft(c) ==
    /\ pc[c] = "idle" /\ Unlocked(c)
    /\ Stamped
    /\ \E d \in drafts :
         Begin(c, [NoJob EXCEPT
                     !.op = "draft",
                     !.drafts = (drafts \ {d}) \cup {[d EXCEPT !.text = stamp + 1]}])
    /\ UNCHANGED discarded

\* Store.DeleteDraft.
DeleteDraft(c) ==
    /\ pc[c] = "idle" /\ Unlocked(c)
    /\ \E d \in drafts :
         /\ Begin(c, [NoJob EXCEPT !.op = "draft", !.drafts = drafts \ {d}])
         /\ discarded' = discarded \cup {d.id}
    /\ UNCHANGED stamp

-----------------------------------------------------------------------------
(* Store.PublishDrafts *)

IsRoot(d) == d.reply = NoComment /\ d.under = 0

\* Drafts whose thread can be found: an open thread, or a selected draft.
\* One draft that cannot be placed fails the whole batch.
Publishable(sel) ==
    \A d \in sel : /\ d.reply # NoComment => d.reply \in OpenThreads
                   /\ d.under # 0 => d.under \in Ids(sel)

\* lead[i] is the draft that starts the thread draft i is published in: root
\* drafts of one place share the thread of the first one, a draft under another
\* goes where that one goes.
IsGrouping(lead, sel) ==
    \A d \in sel :
        /\ IsRoot(d) =>
              LET roots == {e \in sel : IsRoot(e) /\ e.place = d.place}
              IN  lead[d.id] \in Ids(roots) /\ \A e \in roots : lead[d.id] <= e.id
        /\ d.under # 0 => lead[d.id] = lead[d.under]
        /\ d.reply # NoComment => lead[d.id] = d.id

\* The fault of dropping the actor a draft is published for.
PublishedUnsigned(d, lead) ==
    [id |-> <<stamp + 1, d.id>>,
     thread |-> IF d.reply # NoComment THEN d.reply ELSE <<stamp + 1, lead[d.id]>>,
     actor |-> "unknown", key |-> NoKey, text |-> d.text]
\* The fault of publishing what a draft said when it was first saved.
PublishedFirstText(d, lead) ==
    [id |-> <<stamp + 1, d.id>>,
     thread |-> IF d.reply # NoComment THEN d.reply ELSE <<stamp + 1, lead[d.id]>>,
     actor |-> "human", key |-> NoKey, text |-> d.id]

Published(d, lead) ==
    [id |-> <<stamp + 1, d.id>>,
     thread |-> IF d.reply # NoComment THEN d.reply ELSE <<stamp + 1, lead[d.id]>>,
     actor |-> "human", key |-> NoKey, text |-> d.text]

\* thread.created for the first comment of each new thread, comment.added for
\* every other one.
PublishEvent(m) == IF m.id = m.thread THEN CreatedEvent(m) ELSE AddedEvent(m)

PublishDrafts(c) ==
    /\ pc[c] = "idle" /\ Unlocked(c)
    /\ Stamped
    /\ \E sel \in (SUBSET drafts) \ {{}} :
       \E lead \in [Ids(sel) -> Ids(sel)] :
         LET batch == {Published(d, lead) : d \in sel}
         IN  /\ Publishable(sel) /\ IsGrouping(lead, sel)
             /\ Begin(c, [NoJob EXCEPT
                            !.op = "publish",
                            !.comments = ReadAll \cup batch,
                            !.drafts = drafts \ sel,
                            !.events = {PublishEvent(m) : m \in batch},
                            !.makes = Ids(batch)])
    /\ UNCHANGED discarded

-----------------------------------------------------------------------------
(* The file steps of a call *)

Continue(c) == pc' = [pc EXCEPT ![c] = After(job[c].op, pc[c])]

\* writeAll: the new content goes to comments.jsonl.tmp ...
WriteCommentsTmp(c) ==
    /\ pc[c] = "comments"
    /\ commentsTmp' = {job[c].comments}
    /\ pc' = [pc EXCEPT ![c] = "renameComments"]
    /\ UNCHANGED <<comments, drafts, draftsTmp, journal, job, stamp, faults,
                   answers, discarded>>

\* ... which then replaces comments.jsonl, whoever wrote it last.
RenameComments(c) ==
    /\ pc[c] = "renameComments"
    /\ comments' \in commentsTmp
    /\ commentsTmp' = {}
    /\ Continue(c)
    /\ UNCHANGED <<drafts, draftsTmp, journal, job, stamp, faults, answers,
                   discarded>>

\* appendThreadEvent, one event at a time.
AppendEvent(c) ==
    /\ pc[c] = "journal"
    /\ \E e \in job[c].events :
         LET rest == job[c].events \ {e}
         IN  /\ journal' = journal \cup {e}
             /\ job' = [job EXCEPT ![c].events = rest]
             /\ IF rest = {} THEN Continue(c) ELSE UNCHANGED pc
    /\ UNCHANGED <<comments, commentsTmp, drafts, draftsTmp, stamp, faults,
                   answers, discarded>>

\* writeDrafts, in the same two steps.
WriteDraftsTmp(c) ==
    /\ pc[c] = "drafts"
    /\ draftsTmp' = {job[c].drafts}
    /\ pc' = [pc EXCEPT ![c] = "renameDrafts"]
    /\ UNCHANGED <<comments, commentsTmp, drafts, journal, job, stamp, faults,
                   answers, discarded>>

RenameDrafts(c) ==
    /\ pc[c] = "renameDrafts"
    /\ drafts' \in draftsTmp
    /\ draftsTmp' = {}
    /\ Continue(c)
    /\ UNCHANGED <<comments, commentsTmp, journal, job, stamp, faults, answers,
                   discarded>>

\* The operation returns, releasing the mutex, and the client hears of it.
Answer(c) ==
    /\ pc[c] = "answer"
    /\ confirmed' = confirmed \cup job[c].makes
    /\ saved' = saved \cup job[c].saves
    /\ erased' = erased \cup job[c].erases
    /\ pc' = [pc EXCEPT ![c] = "idle"]
    /\ job' = [job EXCEPT ![c] = NoJob]
    /\ UNCHANGED <<files, stamp, faults, discarded>>

-----------------------------------------------------------------------------
(* Failures *)

Abandon(cs) ==
    /\ pc' = [c \in Calls |-> IF c \in cs THEN "idle" ELSE pc[c]]
    /\ job' = [c \in Calls |-> IF c \in cs THEN NoJob ELSE job[c]]
    /\ UNCHANGED <<files, stamp, answers, discarded>>

\* A rename finds no .tmp file because another server has renamed it: the call
\* returns the error.
LoseTmp(c) ==
    /\ \/ pc[c] = "renameComments" /\ commentsTmp = {}
       \/ pc[c] = "renameDrafts" /\ draftsTmp = {}
    /\ Abandon({c})
    /\ UNCHANGED faults

\* A file operation returns an error, and the call with it.
FailCall(c) ==
    /\ faults < MaxFaults
    /\ Busy(c) /\ pc[c] # "answer"
    /\ Abandon({c})
    /\ faults' = faults + 1

\* A server process dies and is started again.
Crash(s) ==
    /\ faults < MaxFaults
    /\ \E c \in Calls : Home[c] = s /\ pc[c] # "idle"
    /\ Abandon({c \in Calls : Home[c] = s})
    /\ faults' = faults + 1

-----------------------------------------------------------------------------

Init ==
    /\ comments = {} /\ commentsTmp = {}
    /\ drafts = {} /\ draftsTmp = {}
    /\ journal = {}
    /\ pc = [c \in Calls |-> "idle"]
    /\ job = [c \in Calls |-> NoJob]
    /\ stamp = 0 /\ faults = 0
    /\ confirmed = {} /\ saved = {} /\ discarded = {} /\ erased = {}

Load(c) ==
    \/ \E actor \in Actors : CreateThread(c, actor)
    \/ CheckThread(c)
    \/ \E actor \in Actors, key \in Keys \cup {NoKey} :
          RepeatReply(c, actor, key) \/ AddReply(c, actor, key)
    \/ UpdateComment(c)
    \/ DeletePublished(c)
    \/ CreateDraft(c)
    \/ UpdateDraft(c)
    \/ DeleteDraft(c)
    \/ PublishDrafts(c)

FileStep(c) ==
    \/ WriteCommentsTmp(c) \/ RenameComments(c) \/ AppendEvent(c)
    \/ WriteDraftsTmp(c) \/ RenameDrafts(c) \/ Answer(c) \/ LoseTmp(c)

Next ==
    \/ \E c \in Calls : Load(c) \/ FileStep(c) \/ FailCall(c)
    \/ \E s \in Servers : Crash(s)

Spec == Init /\ [][Next]_vars

-----------------------------------------------------------------------------
(* What the store must guarantee *)

\* Every variable holds what its comment says.
TypeOK ==
    /\ comments \in SUBSET Comment
    /\ commentsTmp \in SUBSET SUBSET Comment
    /\ drafts \in SUBSET Draft
    /\ draftsTmp \in SUBSET SUBSET Draft
    /\ journal \in SUBSET Event
    /\ pc \in [Calls -> Steps]
    /\ job \in [Calls -> Job]
    /\ stamp \in Nat /\ faults \in Nat
    /\ confirmed \in SUBSET CommentId /\ erased \in SUBSET CommentId
    /\ saved \in SUBSET Nat /\ discarded \in SUBSET Nat

\* A comment whose deletion was answered with success is never read again, no
\* matter which server rewrites comments.jsonl from what it read before.
ErasedStaysErased == Ids(ReadAll) \cap erased = {}

\* A draft is accounted for while it is in the drafts file, or a comment
\* published from it is stored or was deleted as a comment.
Kept(d) ==
    \/ d \in Ids(drafts)
    \/ \E i \in Ids(comments) \cup Tombstones : i[2] = d

\* A saved draft is never lost: until someone deletes it, it is a draft or a
\* published comment, whatever crashed in between.
SavedDraftsAreKept == \A d \in saved \ discarded : Kept(d)

\* A comment whose creation or publication was answered with success stays
\* readable until it is deleted.
ConfirmedCommentsAreKept ==
    confirmed \subseteq Ids(ReadAll) \cup Tombstones

\* No draft is published twice.
PublishedOnce ==
    \A i, j \in Ids(comments) : i[2] = j[2] /\ i[2] # 0 => i = j

\* Repeating a reply with its client event id never leaves a second message
\* (deleted ones aside).
RetriesMakeOneComment ==
    \A m, n \in ReadAll :
        /\ m.thread = n.thread /\ m.actor = n.actor
        /\ m.key = n.key /\ m.key # NoKey
        => m = n

\* When no call is inside the store, the journal announces every comment a
\* client can read, and every message it announces can be read or was deleted.
JournalMatchesComments ==
    (\A c \in Calls : ~Busy(c)) =>
        /\ \A m \in ReadAll : CreatedEvent(m) \in journal \/ AddedEvent(m) \in journal
        /\ \A e \in journal : e.type = "added" =>
              e.comment \in Ids(ReadAll) \cup Tombstones

\* No rewrite puts an older text back: the body of a draft or comment only moves
\* forward, and a published comment says what its draft said last.
TextsMoveForward ==
    [][/\ \A d \in drafts, e \in drafts' : d.id = e.id => e.text >= d.text
       /\ \A m \in comments, n \in comments' : m.id = n.id => n.text >= m.text
       /\ \A n \in comments' : n.id[2] # 0 /\ n.id \notin Ids(comments) =>
             \E d \in drafts : d.id = n.id[2] /\ d.text = n.text
      ]_<<comments, drafts>>

\* A thread nobody can read any more does not come back: a comment that appears
\* starts its thread, or joins one that is there.
RepliesJoinOpenThreads ==
    [][\A n \in ReadAll' \ ReadAll :
          n.id \notin Ids(comments) => n.thread \in OpenThreads \cup Ids(ReadAll')
      ]_<<comments, journal>>

-----------------------------------------------------------------------------
(* The store implements ReviewBoard                                        *)

\* A draft stops being pending when its comment is in place; its row leaves the
\* drafts file a step later.
Board == INSTANCE ReviewBoard WITH
        board   <- {[id |-> m.id, text |-> m.text] : m \in ReadAll},
        pending <- {[id |-> d.id, text |-> d.text] :
                       d \in {e \in drafts : \A i \in Ids(comments) \cup Tombstones : i[2] # e.id}},
        gone    <- Tombstones

\* Every step of a server whose calls do not fail is one operation of the
\* review board, or none.
ImplementsBoard == Board!BoardSpec

\* However often a request is sent or sent again, there is one comment of it, published once.
RequestsCountOnce == PublishedOnce /\ RetriesMakeOneComment

\* Drafts and comments that the server has confirmed stay, whatever fails.
NothingSavedIsLost == SavedDraftsAreKept /\ ConfirmedCommentsAreKept

=============================================================================
