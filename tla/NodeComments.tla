---------------------------- MODULE NodeComments ----------------------------
(***************************************************************************)
(* Comments in the Node server: ViewerService (viewer-service.ts) over      *)
(* NodeCommentStore (node-comment-store.ts).  One process serves requests   *)
(* that interleave at every await.  Writes of all three files go through    *)
(* one promise chain, writeQueue; reads do not.  comments.jsonl and the     *)
(* drafts are replaced by a rename, the journal is rewritten in place, so   *)
(* that a read in between finds it empty or torn.                           *)
(*                                                                         *)
(* A request is a plan: the writes and announcements it still has to make.  *)
(***************************************************************************)
EXTENDS Naturals, Sequences, FiniteSets, SequencesExt

CONSTANTS
    Calls,      \* requests that can be served at the same time
    MaxStamp,   \* bound: ids and texts
    MaxFaults   \* bound: failed writes and crashes

\* What is there at first has three ids.
ASSUME NodeCommentsAssumption == MaxStamp \in Nat /\ 3 <= MaxStamp /\ MaxFaults \in Nat

VARIABLES
    comments,   \* comments.jsonl
    drafts,     \* draft-review-comments.jsonl
    journal,    \* comment-threads.jsonl
    torn,       \* the journal is being rewritten
    spoiled,    \* the journal ends in half a line: reading it fails
    writeQueue, \* calls with a write in the promise chain, oldest first
    seen,       \* what the write at its head has read, once it has
    plan,       \* what each call still has to do; <<>> when there is no call
    stamp,      \* ids and texts handed out
    faults,     \* failed writes and crashes so far
    delivered,  \* events activity subscribers were given
    confirmed,  \* comments whose request succeeded
    saved,      \* drafts whose request succeeded
    discarded   \* drafts somebody asked to delete

files == <<comments, drafts, journal, torn, spoiled>>
history == <<confirmed, saved, discarded>>
vars == <<files, writeQueue, seen, plan, stamp, faults, delivered, history>>

None == <<"none", 0, 0>>
Root(id) == <<"root", id, 0>>           \* a thread started by comment id
DraftThread(id) == <<"draft", id, 0>>   \* "draft-thread:" of draft id
Group(id, at) == <<"group", id, at>>    \* made for draft id by a publication

Events == ToSet(journal)
Idle(c) == plan[c] = <<>>
Busy(c) == ~Idle(c)

Task(do, what) == [do |-> do, what |-> what]
Announces(task) == task.do \in {"announce", "done"}

-----------------------------------------------------------------------------
(* Requests *)

\* Every write is put at the end of the chain as soon as the call gets to it.
Continue(c, queue, tasks) ==
    /\ plan' = [plan EXCEPT ![c] = tasks]
    /\ writeQueue' = IF tasks = <<>> \/ Announces(Head(tasks)) THEN queue
                     ELSE Append(queue, c)

Request(c, tasks) ==
    /\ Idle(c)
    /\ stamp < MaxStamp /\ stamp' = stamp + 1
    /\ Continue(c, writeQueue, tasks)
    /\ UNCHANGED <<files, seen, faults, delivered, confirmed, saved>>

Next1 == stamp + 1

\* store.createComment, store.createCommentThread and publishLatestActivity.
CreateNormalized(row) ==
    LET type == IF row.thread = Root(row.id[1]) THEN "thread_created" ELSE "comment_added"
    IN  << Task("addComment", row),
           Task("log", [type |-> type, thread |-> row.thread, comment |-> row.id]),
           Task("announce", [type |-> type, thread |-> row.thread]) >>

\* The fault of announcing first.
CreateAnnounced(row) ==
    Tail(CreateNormalized(row)) \o <<Head(CreateNormalized(row))>>

\* The fault of an event only for the threads that are new.
CreateLogged(row) ==
    IF row.thread = Root(row.id[1]) THEN CreateNormalized(row)
    ELSE SelectSeq(CreateNormalized(row), LAMBDA task : task.do # "log")

Creation(row) == CreateNormalized(row)

Row(id, thread, text) == [id |-> id, thread |-> thread, text |-> text]

\* The draft a comment was published from; 0: none.
From(row) == row.id[2]

Draft(id, target) == [id |-> id, target |-> target, text |-> id]

Threads == {row.thread : row \in comments}

\* createComment without a thread.
CreateThread(c) ==
    LET row == Row(<<Next1, 0>>, Root(Next1), Next1)
    IN  Request(c, Creation(row) \o <<Task("done", row)>>) /\ UNCHANGED discarded

\* addComment: the thread is looked up first.
AddComment(c, thread) ==
    /\ thread \in Threads /\ ~spoiled
    /\ LET row == Row(<<Next1, 0>>, thread, Next1)
       IN  Request(c, Creation(row) \o <<Task("done", row)>>)
    /\ UNCHANGED discarded

\* updateComment writes back the comment it has read, with the new body.
UpdateComment(c, row) ==
    /\ row \in comments
    /\ Request(c, << Task("editComment", [row EXCEPT !.text = Next1]),
                        Task("log", [type |-> "comment_updated",
                                     thread |-> row.thread, comment |-> row.id]),
                        Task("announce", [type |-> "comment_updated",
                                          thread |-> row.thread]) >>)
    /\ UNCHANGED discarded

Targets == {None} \cup Threads \cup {DraftThread(d.id) : d \in drafts}

SaveDraft(c, target) ==
    LET draft == Draft(Next1, target)
    IN  /\ target \in Targets
        /\ Request(c, <<Task("addDraft", draft), Task("done", draft)>>)
        /\ UNCHANGED discarded

EditDraft(c, draft) ==
    /\ draft \in drafts
    /\ Request(c, <<Task("editDraft", [draft EXCEPT !.text = Next1])>>)
    /\ UNCHANGED discarded

DeleteDraft(c, draft) ==
    /\ draft \in drafts
    /\ Request(c, <<Task("dropDraft", draft)>>)
    /\ discarded' = discarded \cup {draft.id}

\* draftOnlyPublishThreadId: a draft and those under it share a new thread when
\* they are published together.
PublishThread(draft, selected) ==
    LET root == IF draft.target = None THEN draft.id
                ELSE IF draft.target[1] = "draft" THEN draft.target[2] ELSE 0
    IN  IF root \in {d.id : d \in selected} THEN Group(root, Next1) ELSE draft.target

\* publishDraftReviewComments: what it does for one draft ...
PublishOne(draft, selected) ==
    Creation(Row(<<Next1, draft.id>>, PublishThread(draft, selected), draft.text))
        \o <<Task("dropDraft", draft)>>

\* The fault of clearing a draft before it is published.
PublishCleared(draft, selected) ==
    <<Task("dropDraft", draft)>> \o
        Creation(Row(<<Next1, draft.id>>, PublishThread(draft, selected), draft.text))

PublishStep(draft, selected) == PublishOne(draft, selected)

\* ... which takes so many tasks, and for all of them, one after the other, as they were listed.
TasksOfOne == 4

PublishDrafts(c, selected) ==
    /\ selected # {} /\ selected \subseteq drafts
    /\ \E listed \in [1 .. Cardinality(selected) -> selected] :
          /\ \A i, j \in DOMAIN listed : i < j => listed[i].id < listed[j].id
          /\ Request(c, [k \in 1 .. TasksOfOne * Cardinality(selected) |->
                PublishStep(listed[1 + (k - 1) \div TasksOfOne], selected)[1 + ((k - 1) % TasksOfOne)]])
    /\ UNCHANGED discarded

\* appendThreadReadActivity: nothing is recorded for a read that is found in the
\* journal; a torn journal has none.
ReadThread(c, thread) ==
    LET event == [type |-> "thread_read", thread |-> thread, comment |-> <<0, 0>>]
    IN  /\ thread \in Threads /\ ~spoiled
        /\ torn \/ event \notin Events
        /\ Request(c, <<Task("log", event),
                           Task("announce", [type |-> "thread_read", thread |-> thread])>>)
        /\ UNCHANGED discarded

-----------------------------------------------------------------------------
(* Steps of a request *)

Now(c) == Head(plan[c])
Chain == Tail(writeQueue)
Advance(c, queue) == Continue(c, queue, Tail(plan[c]))

\* The exception of a write ends its request, not the chain.
Fail(c) == plan' = [plan EXCEPT ![c] = <<>>] /\ writeQueue' = Chain

\* The fault of a chain that a failure breaks.
FailChain(c) == plan' = [plan EXCEPT ![c] = <<>>] /\ UNCHANGED writeQueue

Rejected(c) == Fail(c)

\* The file a write of this kind replaces, as it is now.
Content(task) ==
    IF task.do \in {"addComment", "editComment"} THEN comments
    ELSE IF task.do \in {"addDraft", "editDraft", "dropDraft"} THEN drafts
    ELSE journal

Ready(c) == writeQueue # <<>> /\ Head(writeQueue) = c

\* The write reads its file; the journal is then truncated, and what was spoiled
\* cannot be read.
ReadFile(c) ==
    /\ Busy(c) /\ Ready(c) /\ seen[c] = {}
    /\ IF Now(c).do = "log" /\ spoiled
       THEN Rejected(c) /\ UNCHANGED <<seen, torn>>
       ELSE /\ seen' = [seen EXCEPT ![c] = {Content(Now(c))}]
            /\ torn' = (Now(c).do = "log")
            /\ UNCHANGED <<plan, writeQueue>>
    /\ UNCHANGED <<comments, drafts, journal, spoiled, stamp, faults, delivered, history>>

\* The fault of reading before the other writes are done.
ReadEarly(c) ==
    /\ Busy(c) /\ c \in ToSet(writeQueue) /\ seen[c] = {}
    /\ seen' = [seen EXCEPT ![c] = {Content(Now(c))}]
    /\ torn' = (torn \/ Now(c).do = "log")
    /\ UNCHANGED <<comments, drafts, journal, spoiled, writeQueue, plan, stamp, faults,
                   delivered, history>>

ReadForWrite(c) == ReadFile(c)

\* What the write makes of it.
Replaced(task, content) ==
    IF task.do \in {"addComment", "addDraft"} THEN content \cup {task.what}
    ELSE IF task.do \in {"editComment", "editDraft"}
    THEN {IF row.id = task.what.id THEN [row EXCEPT !.text = task.what.text] ELSE row : row \in content}
    ELSE IF task.do = "dropDraft" THEN {row \in content : row.id # task.what.id}
    ELSE Append(content, task.what)

\* A comment or draft that is to be changed must still be there.
Missing(task, content) ==
    /\ task.do \in {"editComment", "editDraft", "dropDraft"}
    /\ \A row \in content : row.id # task.what.id

WriteFile(c) ==
    /\ Busy(c) /\ Ready(c)
    /\ \E content \in seen[c] :
         IF Missing(Now(c), content)
         THEN Rejected(c) /\ UNCHANGED <<comments, drafts, journal>>
         ELSE /\ Advance(c, Chain)
              /\ LET new == Replaced(Now(c), content) IN
                 /\ comments' = IF Now(c).do \in {"addComment", "editComment"}
                                THEN new ELSE comments
                 /\ drafts' = IF Now(c).do \in {"addDraft", "editDraft", "dropDraft"}
                              THEN new ELSE drafts
                 /\ journal' = IF Now(c).do = "log" THEN new ELSE journal
    /\ seen' = [seen EXCEPT ![c] = {}]
    /\ torn' = FALSE
    /\ UNCHANGED <<spoiled, stamp, faults, delivered, history>>

\* A rewrite of the journal that is cut short leaves its first lines, and
\* perhaps half of another.
CutShort ==
    /\ torn' = FALSE
    /\ IF torn
       THEN /\ \E n \in 0 .. Len(journal) : journal' = SubSeq(journal, 1, n)
            /\ spoiled' \in BOOLEAN
       ELSE UNCHANGED <<journal, spoiled>>

\* The disk refuses the write.
FailWrite(c) ==
    /\ Busy(c) /\ Ready(c) /\ seen[c] # {} /\ faults < MaxFaults
    /\ faults' = faults + 1
    /\ Rejected(c)
    /\ CutShort
    /\ seen' = [seen EXCEPT ![c] = {}]
    /\ UNCHANGED <<comments, drafts, stamp, delivered, history>>

\* publishLatestActivity: the last event of its type in the thread.
LatestActivity(what) ==
    LET found == {i \in DOMAIN journal : /\ journal[i].type = what.type
                                         /\ journal[i].thread = what.thread}
    IN  {journal[i] : i \in {j \in found : \A k \in found : k <= j}}

\* A torn journal has no events, or is no JSON and ends the request.
Announce(c) ==
    /\ Busy(c) /\ Now(c).do = "announce"
    /\ \/ /\ ~spoiled
          /\ delivered' = delivered \cup (IF torn THEN {} ELSE LatestActivity(Now(c).what))
          /\ Advance(c, writeQueue)
       \/ (torn \/ spoiled) /\ plan' = [plan EXCEPT ![c] = <<>>] /\ UNCHANGED <<delivered, writeQueue>>
    /\ UNCHANGED <<files, seen, stamp, faults, history>>

\* The response.
Done(c) ==
    /\ Busy(c) /\ Now(c).do = "done"
    /\ Advance(c, writeQueue)
    /\ confirmed' = IF "thread" \in DOMAIN Now(c).what
                    THEN confirmed \cup {Now(c).what.id} ELSE confirmed
    /\ saved' = IF "target" \in DOMAIN Now(c).what THEN saved \cup {Now(c).what.id}
                ELSE saved
    /\ UNCHANGED <<files, seen, stamp, faults, delivered, discarded>>

\* The process dies and is started again.
Crash ==
    /\ faults < MaxFaults /\ \E c \in Calls : Busy(c)
    /\ faults' = faults + 1
    /\ plan' = [c \in Calls |-> <<>>] /\ writeQueue' = <<>>
    /\ seen' = [c \in Calls |-> {}]
    /\ CutShort
    /\ UNCHANGED <<comments, drafts, stamp, delivered, history>>

-----------------------------------------------------------------------------

\* A thread, and up to two drafts, left by earlier requests.
Init ==
    /\ comments = {Row(<<1, 0>>, Root(1), 1)}
    /\ drafts \in SUBSET {Draft(2, None), Draft(3, DraftThread(2)), Draft(3, Root(1))}
    /\ \A d, e \in drafts : d.id = e.id => d = e
    /\ journal = <<[type |-> "thread_created", thread |-> Root(1), comment |-> <<1, 0>>]>>
    /\ torn = FALSE /\ spoiled = FALSE
    /\ writeQueue = <<>> /\ seen = [c \in Calls |-> {}]
    /\ plan = [c \in Calls |-> <<>>]
    /\ stamp = 3 /\ faults = 0
    /\ delivered = {} /\ confirmed = {<<1, 0>>} /\ saved = {d.id : d \in drafts}
    /\ discarded = {}

Step(c) ==
    ReadForWrite(c) \/ WriteFile(c) \/ Announce(c) \/ Done(c)

Next ==
    \/ \E c \in Calls :
          \/ CreateThread(c)
          \/ \E t \in Threads : AddComment(c, t) \/ ReadThread(c, t)
          \/ \E row \in comments : UpdateComment(c, row)
          \/ \E t \in Targets : SaveDraft(c, t)
          \/ \E d \in drafts : EditDraft(c, d) \/ DeleteDraft(c, d)
          \/ \E selected \in SUBSET drafts : PublishDrafts(c, selected)
          \/ Step(c) \/ FailWrite(c)
    \/ Crash

Spec == Init /\ [][Next]_vars

\* The event loop runs, and file operations end.
FairSpec == Spec /\ \A c \in Calls : WF_vars(Step(c))

-----------------------------------------------------------------------------
(* What clients rely on *)

Ids == 0 .. MaxStamp

TypeOK ==
    /\ \A row \in comments : row.id \in Ids \X Ids /\ row.text \in Ids
    /\ \A d \in drafts : d.id \in Ids /\ d.text \in Ids
    /\ torn \in BOOLEAN /\ spoiled \in BOOLEAN
    /\ ToSet(writeQueue) \subseteq Calls /\ IsInjective(writeQueue)
    /\ stamp \in Ids /\ faults \in 0 .. MaxFaults
    /\ \A e \in delivered : e.comment \in Ids \X Ids
    /\ confirmed \subseteq Ids \X Ids /\ saved \subseteq Ids /\ discarded \subseteq Ids

\* A comment the server has confirmed stays stored, whatever other requests,
\* failed writes and crashes there are.
ConfirmedCommentsAreKept == confirmed \subseteq {row.id : row \in comments}

\* A draft the server has confirmed stays until somebody deletes it or its text is
\* published: a publication that is cut short loses none.
SavedDraftsAreKept ==
    saved \subseteq {d.id : d \in drafts} \cup discarded \cup {From(row) : row \in comments}

\* A comment that subscribers were told of can be read.
AnnouncedCommentsExist ==
    \A e \in delivered : e.type # "thread_read" => \E row \in comments : row.id = e.comment

\* When no request is left and nothing failed, the journal has an event for every
\* comment.
JournalTellsEveryComment ==
    (\A c \in Calls : Idle(c)) /\ faults = 0 =>
        \A row \in comments : \E e \in Events : e.comment = row.id

\* Every request ends; a request that fails does not hold up those behind it.
RequestsEnd == \A c \in Calls : Busy(c) ~> Idle(c)

\* A draft makes one comment.
PublishedOnce ==
    \A a, b \in comments : From(a) # 0 /\ From(a) = From(b) => a = b

=============================================================================
