------------------------- MODULE WorkbenchComments -------------------------
(***************************************************************************)
(* The comments and drafts a browser page shows (ui/src/features/workbench/  *)
(* WorkbenchContainer.tsx with ui/src/state/comment-snapshots.ts), while     *)
(* agents and other pages write and delete comments.  The server tells the   *)
(* page of each change twice: by an event of the comment activity stream,    *)
(* and, a moment later, by a notice of the workspace stream that anything in *)
(* the comment files changed.  Only the second one makes answers that are on *)
(* their way invalid.                                                       *)
(*                                                                         *)
(* A request is served at one moment and answered at a later one, in any     *)
(* order.  A draft keeps its name when it is published; the comments of one  *)
(* file are one thread.                                                     *)
(***************************************************************************)
EXTENDS Integers, Sequences, FiniteSets, SequencesExt

CONSTANTS MaxId,        \* bound: comments and drafts that are ever written
          Documents,    \* files with comments
          AllPaths,     \* what loadComments(null) asks for
          MaxRequests,  \* bound: requests in flight
          MaxNotices     \* bound: events on their way

ASSUME CommentsAssumption == MaxId \in Nat \ {0}

VARIABLES
    names,                  \* names given so far
    published, saved,       \* the server's comments and drafts: [id, path]
    activities, attention,  \* the events on their way; the notice is one at most
    online,                 \* the streams are up
    spare,                  \* how often users, agents and faults act, from here on
    comments, draftComments, deleted, revision,     \* the page
    asked,               \* its requests in flight
    clouded,    \* history: an answer the page needed did not come, came late or was not applied
    astray      \* history: drafts whose answer did not come, or came late

server == <<names, published, saved, activities, attention>>
page == <<comments, draftComments, deleted, revision>>
commentVars == <<server, online, spare, page, asked, clouded, astray>>

Ids == 1..MaxId
Note(id, path) == [id |-> id, path |-> path]
IdsOf(notes) == {note.id : note \in notes}
At(notes, path) == {note \in notes : path \in {AllPaths, note.path}}
Name(id) == id = names + 1 /\ id \in Ids /\ names' = id
Busy(do) == {i \in DOMAIN asked : asked[i].do = do}

\* A request: what to do, on which ids or file; what the server answered.
Request(do, ids, path) ==
    [do |-> do, ids |-> ids, path |-> path, revision |-> revision, follows |-> FALSE,
     done |-> FALSE, failed |-> FALSE, result |-> {}]
LoadComments(path) == Request("comments", {}, path)
Ask(request) == Len(asked) < MaxRequests /\ asked' = Append(asked, request)
Use(what) == spare[what] > 0 /\ spare' = [spare EXCEPT ![what] = @ - 1]

CommentsTypeOK ==
    /\ comments \subseteq [id : Ids, path : Documents] /\ draftComments \subseteq [id : Ids, path : Documents]
    /\ deleted \subseteq Ids /\ revision \in Nat
    /\ \A i \in DOMAIN asked : asked[i].revision <= revision
    /\ \A p, q \in comments : p.id = q.id => p = q

\* The page has been opened on what there is.
CommentsInit ==
    /\ names = 1 /\ \E path \in Documents : published \in {{}, {Note(1, path)}}
    /\ saved = {} /\ activities = <<>> /\ attention = FALSE /\ online = TRUE
    /\ comments = {} /\ draftComments = {} /\ deleted = {} /\ revision = 0
    /\ LET Asked(do) == [do |-> do, ids |-> {}, path |-> AllPaths, revision |-> 0,
                         follows |-> FALSE, done |-> FALSE, failed |-> FALSE, result |-> {}]
       IN  asked = <<Asked("comments"), Asked("drafts")>>
    /\ clouded = FALSE /\ astray = {}

-----------------------------------------------------------------------------
(* The server *)

Publicize(event) ==
    IF online THEN /\ Len(activities) < MaxNotices
                   /\ activities' = Append(activities, event) /\ attention' = TRUE
    ELSE UNCHANGED <<activities, attention>>

Tell(type, note) == Publicize([type |-> type, id |-> note.id, path |-> note.path])

\* An agent, or another page, writes a comment, deletes one, or reads a thread.
AgentWrites(id, path) ==
    /\ Use("agents") /\ Name(id)
    /\ published' = published \cup {Note(id, path)} /\ Tell("comment_added", Note(id, path))
    /\ UNCHANGED <<saved, online, page, asked, clouded, astray>>

OtherDeletes(note) ==
    /\ Use("agents") /\ published' = published \ {note} /\ Tell("comment_deleted", note)
    /\ UNCHANGED <<names, saved, online, page, asked, clouded, astray>>

AgentReads(note) ==
    /\ Use("agents") /\ Tell("thread_read", note)
    /\ UNCHANGED <<names, published, saved, online, page, asked, clouded, astray>>

\* What a request does, and is answered.
Serve(i) ==
    LET request == asked[i]
        chosen == {note \in saved : note.id \in request.ids}
        Answer(result) == asked' = [asked EXCEPT ![i].done = TRUE, ![i].result = result]
        Refuse == asked' = [asked EXCEPT ![i].done = TRUE, ![i].failed = TRUE]
    IN  /\ ~request.done
        /\ \/ /\ request.do = "comments" /\ Answer(At(published, request.path))
              /\ UNCHANGED server
           \/ /\ request.do = "drafts" /\ Answer(saved) /\ UNCHANGED server
           \/ /\ request.do = "save"
              /\ saved' = saved \cup {Note(id, request.path) : id \in request.ids}
              /\ Answer(saved' \ saved) /\ UNCHANGED <<published, activities, attention>>
           \/ /\ request.do = "deleteDraft" /\ saved' = saved \ chosen
              /\ IF chosen = {} THEN Refuse ELSE Answer(chosen)
              /\ UNCHANGED <<published, activities, attention>>
           \/ LET gone == {note \in published : note.id \in request.ids}
              IN  /\ request.do = "deletePublished" /\ published' = published \ gone
                  /\ IF gone = {} THEN Refuse /\ UNCHANGED <<activities, attention>>
                     ELSE Answer(gone) /\ Tell("comment_deleted", CHOOSE note \in gone : TRUE)
                  /\ UNCHANGED saved
           \/ /\ request.do = "publish"
              /\ published' = published \cup chosen /\ saved' = saved \ chosen
              /\ IF chosen = {} THEN Refuse /\ UNCHANGED <<activities, attention>>
                 ELSE /\ Answer(At(published', request.path))
                      /\ Tell("comment_added", CHOOSE note \in chosen : TRUE)
    /\ UNCHANGED <<names, online, spare, page, clouded, astray>>

-----------------------------------------------------------------------------
(* The page asks *)

\* loadFile asks for the comments of the file it has loaded.
OpenCommentedFile(path) ==
    /\ Use("users") /\ Ask(LoadComments(path))
    /\ UNCHANGED <<server, online, page, clouded, astray>>

CreateComment(id, path) ==
    /\ Use("users") /\ Name(id) /\ Ask(Request("save", {id}, path))
    /\ UNCHANGED <<published, saved, activities, attention, online, page, clouded, astray>>

DeletePublishedComment(note) ==
    /\ Use("users") /\ Ask(Request("deletePublished", {note.id}, note.path))
    /\ UNCHANGED <<server, online, page, clouded, astray>>

DeleteDraftReviewComment(note) ==
    /\ Use("users") /\ Ask(Request("deleteDraft", {note.id}, note.path))
    /\ UNCHANGED <<server, online, page, clouded, astray>>

\* The button of a file publishes its drafts, unless some are being published or saved.
DraftSavingCount == Cardinality(Busy("save"))
DraftPublishing == Busy("publish") # {} \/ \E i \in Busy("comments") : asked[i].follows
PublishDraftReviewComments(path) ==
    /\ At(draftComments, path) # {} /\ ~DraftPublishing /\ DraftSavingCount = 0
    /\ Use("users") /\ Ask(Request("publish", IdsOf(At(draftComments, path)), path))
    /\ UNCHANGED <<server, online, page, clouded, astray>>

-----------------------------------------------------------------------------
(* CommentSnapshots *)

Retained(notes, gone) == {note \in notes : note.id \notin gone}

\* The fault of replacing whatever was there.
ApplyAny(request) == Retained((comments \ At(comments, request.path)) \cup request.result, deleted)

\* An answer from before the last invalidation is not applied.
Apply(request) ==
    IF request.revision # revision THEN Retained(comments, deleted)
    ELSE Retained((comments \ At(comments, request.path)) \cup request.result, deleted)

\* History: the loads in flight that would have been applied.
CurrentLoads == {i \in Busy("comments") : asked[i].revision = revision}

\* (The fault of a revision that starts again.)
KnowDeletedAnew(ids) ==
    /\ deleted' = deleted \cup ids /\ revision' = 0
    /\ comments' = Retained(comments, deleted') /\ UNCHANGED clouded

\* A deletion that is known, whether this page asked for it or not.
KnowDeleted(ids) ==
    /\ deleted' = deleted \cup ids /\ revision' = revision + 1
    /\ comments' = Retained(comments, deleted')
    /\ clouded' = (clouded \/ CurrentLoads # {})

-----------------------------------------------------------------------------
(* The page is answered *)

Ended(i) == asked' = RemoveAt(asked, i)

\* (The fault of leaving them for the next load, which only adds.)
ClearLater(request) == UNCHANGED draftComments

ClearPublished(request) ==
    IF request.failed THEN UNCHANGED draftComments
    ELSE draftComments' = Retained(draftComments, request.ids)

CommentsLoaded(i) ==
    LET request == asked[i]
    IN  /\ request.do = "comments" /\ Ended(i)
        /\ comments' = Apply(request)
        /\ UNCHANGED <<server, online, spare, draftComments, deleted, revision, clouded, astray>>

\* (The fault of taking an answer for all there is.)
DraftsReplaced(i) ==
    /\ asked[i].do \in {"drafts", "save"} /\ Ended(i)
    /\ draftComments' = asked[i].result /\ UNCHANGED astray
    /\ UNCHANGED <<server, online, spare, comments, deleted, revision, clouded>>

\* mergeDraftComments: drafts are added, never taken away.
DraftsLoaded(i) ==
    /\ asked[i].do \in {"drafts", "save"} /\ Ended(i)
    /\ draftComments' = draftComments \cup asked[i].result
    /\ astray' = astray \cup {id \in IdsOf(asked[i].result) : id \notin IdsOf(saved)}
    /\ UNCHANGED <<server, online, spare, comments, deleted, revision, clouded>>

DraftDeleted(i) ==
    /\ asked[i].do = "deleteDraft" /\ Ended(i) /\ ClearPublished(asked[i])
    /\ astray' = IF asked[i].failed THEN astray \cup asked[i].ids ELSE astray
    /\ UNCHANGED <<server, online, spare, comments, deleted, revision, clouded>>

PublishedDeleted(i) ==
    /\ asked[i].do = "deletePublished" /\ Ended(i)
    /\ IF asked[i].failed THEN UNCHANGED <<page, clouded>>
       ELSE KnowDeleted(asked[i].ids) /\ UNCHANGED draftComments
    /\ UNCHANGED <<server, online, spare, astray>>

\* The fault of showing every comment of the answer.
MergeAll(result) == comments \cup result

\* mergeComments of what is not known to be deleted.
MergePublished(result) ==
    LET kept == Retained(result, deleted)
    IN  Retained(comments, IdsOf(kept)) \cup kept

\* ... and all comments are loaded once more before the button works again.
DraftsPublished(i) ==
    LET request == asked[i]
    IN  /\ request.do = "publish" /\ ClearPublished(request)
        /\ IF request.failed THEN Ended(i) /\ UNCHANGED <<comments, revision, clouded>>
           ELSE /\ clouded' = FALSE /\ revision' = revision + 1 /\ comments' = MergePublished(request.result)
                /\ asked' = Append(RemoveAt(asked, i),
                       [LoadComments(AllPaths) EXCEPT !.revision = revision + 1, !.follows = TRUE])
        /\ astray' = IF request.failed THEN astray \cup request.ids ELSE astray
        /\ UNCHANGED <<server, online, spare, deleted>>

Answered(i) ==
    /\ asked[i].done
    /\ CommentsLoaded(i) \/ DraftsLoaded(i) \/ DraftDeleted(i) \/ PublishedDeleted(i) \/ DraftsPublished(i)

\* A request, or its answer, is lost: the user sees an error.
RequestLost(i) ==
    /\ Use("faults") /\ Ended(i)
    /\ clouded' = TRUE /\ astray' = astray \cup asked[i].ids \cup
                  (IF asked[i].do = "drafts" THEN Ids ELSE {})
    /\ UNCHANGED <<server, online, page>>

-----------------------------------------------------------------------------
(* The streams *)

\* commentActivityRefreshTarget: the file of the event's thread, if it is known.
ReceiveActivity ==
    LET event == Head(activities)
        target == IF At(comments, event.path) # {} THEN event.path ELSE AllPaths
        after == IF event.type = "comment_deleted" THEN revision + 1 ELSE revision
    IN  /\ online /\ activities # <<>> /\ activities' = Tail(activities)
        /\ IF event.type = "comment_deleted" THEN KnowDeleted({event.id})
           ELSE UNCHANGED <<comments, deleted, revision, clouded>>
        /\ IF event.type = "thread_read" /\ target # AllPaths THEN UNCHANGED asked
           ELSE Ask([LoadComments(target) EXCEPT !.revision = after])
        /\ UNCHANGED <<names, published, saved, attention, online, spare, draftComments, astray>>

\* (The fault of loading without invalidating.)
AttentionOnly ==
    /\ online /\ attention /\ attention' = FALSE /\ Ask(LoadComments(AllPaths))
    /\ UNCHANGED <<names, published, saved, activities, online, spare, page, clouded, astray>>

\* The notice makes what is on its way invalid and asks for everything.
ReceiveAttention ==
    /\ online /\ attention /\ attention' = FALSE
    /\ revision' = revision + 1 /\ Ask([LoadComments(AllPaths) EXCEPT !.revision = revision + 1])
    /\ clouded' = FALSE
    /\ UNCHANGED <<names, published, saved, activities, online, spare, comments, draftComments, deleted, astray>>

StreamsBreak ==
    /\ Use("faults") /\ online /\ online' = FALSE /\ activities' = <<>> /\ attention' = FALSE
    /\ UNCHANGED <<names, published, saved, page, asked, clouded, astray>>

\* Everything is asked for again; what is on its way is not made invalid.
StreamsReturn ==
    /\ ~online /\ online' = TRUE /\ Len(asked) + 2 <= MaxRequests
    /\ asked' = asked \o <<Request("drafts", {}, AllPaths), LoadComments(AllPaths)>>
    /\ clouded' = (clouded \/ CurrentLoads # {})
    /\ UNCHANGED <<server, spare, page, astray>>

CommentsNext ==
    \/ \E id \in Ids, path \in Documents : AgentWrites(id, path) \/ CreateComment(id, path)
    \/ \E note \in published : OtherDeletes(note) \/ AgentReads(note)
    \/ \E note \in comments : DeletePublishedComment(note)
    \/ \E note \in draftComments : DeleteDraftReviewComment(note)
    \/ \E path \in Documents : OpenCommentedFile(path) \/ PublishDraftReviewComments(path)
    \/ \E i \in DOMAIN asked : Serve(i) \/ Answered(i) \/ RequestLost(i)
    \/ ReceiveActivity \/ ReceiveAttention \/ StreamsBreak \/ StreamsReturn

-----------------------------------------------------------------------------
(* Properties *)

CommentsQuiet == online /\ activities = <<>> /\ ~attention /\ asked = <<>>

\* A comment whose deletion the page knows of is not shown again, by any answer that
\* was on its way, any publication of its thread or any event.
DeletedStaysGone == comments = Retained(comments, deleted)

\* When nothing is on its way the page shows exactly the server's comments, whatever
\* overtook what; except after a request failed, or in the cases named by clouded.
CommentsConverge == CommentsQuiet /\ ~clouded => comments = published

\* ... and it offers exactly the server's drafts, none that was published or deleted
\* and every one that was saved, except those whose answer was lost or came late.
DraftsConverge ==
    CommentsQuiet => \A id \in Ids \ astray : id \in IdsOf(draftComments) <=> id \in IdsOf(saved)

\* No message is shown twice, as a draft and as the comment it became, once the
\* publication has ended.
NoneShownTwice ==
    IdsOf(comments) \cap IdsOf(draftComments) # {} =>
        \/ DraftPublishing
        \/ IdsOf(comments) \cap IdsOf(draftComments) \subseteq astray

=============================================================================
