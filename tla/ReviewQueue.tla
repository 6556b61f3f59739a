---------------------------- MODULE ReviewQueue -----------------------------
(***************************************************************************)
(* What the browser remembers of the workspace's changes, of the files the *)
(* reader looked at and of what agents did with the comments               *)
(* (state/review-events.ts, review-attention.ts, comment-activity.ts),     *)
(* what asks for the reader's attention, and where "next" leads            *)
(* (state/review-queue.ts, review-navigation.ts, review-command-           *)
(* actions.ts, git-review.ts and the lists of Inspector.tsx).              *)
(*                                                                         *)
(* Events and activities are listed newest first.  Paths, threads and      *)
(* comments are numbers, in the order of their names.                      *)
(***************************************************************************)
EXTENDS Integers, Sequences, FiniteSets, SequencesExt

CONSTANTS RenameWindow,        \* 2000 ms between a removal and an addition
          ActivityWindow,      \* reviewActivityWindowMs
          MaxTimerDelay,       \* the longest delay that a timer takes
          MaxThreadEvents,     \* maxEventsPerThread
          MaxSeenIds,          \* maxSeenEventIds
          Never                \* no time

\* A list in the order of Before, equal elements as they were.
Ordering(list, Before(_, _)) ==
    LET Put(sorted, x) ==
            LET after == SelectLastInSeq(sorted, LAMBDA y : ~Before(x, y))
            IN  InsertAt(sorted, after + 1, x)
    IN  FoldLeft(Put, <<>>, list)

\* The fault of listing them the other way round.
OldestFirst(list) == Ordering(list, LAMBDA a, b : a.at < b.at)

NewestFirst(list) == Ordering(list, LAMBDA a, b : a.at > b.at)

-----------------------------------------------------------------------------
(* Changes of files *)

OfPath(list, path) == SelectSeq(list, LAMBDA e : e.path = path)

Same(a, b) == a.path = b.path /\ a.type = b.type

\* The fault of keeping the last event of each type only.
CompactToNewest(events) ==
    LET sorted == NewestFirst(events)
        Newest(k) == \A j \in 1 .. k - 1 : ~Same(sorted[j], sorted[k])
        heads == SelectSeq([k \in DOMAIN sorted |-> k], Newest)
    IN  [i \in DOMAIN heads |-> sorted[heads[i]]]

\* Of the changes of a file only the last is kept, of its additions and of its
\* removals the first and the last.
CompactReviewEvents(events) ==
    LET sorted == NewestFirst(events)
        Newest(k) == \A j \in 1 .. k - 1 : ~Same(sorted[j], sorted[k])
        Group(k) == SelectSeq(sorted, LAMBDA e : Same(e, sorted[k]))
        Kept(k) == IF sorted[k].type = "change" \/ Len(Group(k)) = 1
                   THEN <<Group(k)[1]>> ELSE <<Group(k)[1], Last(Group(k))>>
        heads == SelectSeq([k \in DOMAIN sorted |-> k], Newest)
    IN  NewestFirst(FlattenSeq([i \in DOMAIN heads |-> Kept(heads[i])]))

Recent(list, now) == SelectSeq(list, LAMBDA e : now - e.at <= ActivityWindow)

RecordReviewEvent(events, event) ==
    CompactReviewEvents(<<event>> \o Recent(events, event.at))

\* A file that is added within two seconds of the removal of another of the same
\* directory and extension (kind) is taken for that file with a new name.
Apart(a, b) == IF a.at > b.at THEN a.at - b.at ELSE b.at - a.at
LooksLikeRename(remove, add) ==
    /\ Apart(remove, add) <= RenameWindow
    /\ remove.path # add.path /\ remove.kind = add.kind

\* The fault of taking any event for a removal.
AnyUnused(event, used) == event \notin used

UnusedRemoval(event, used) == event.type = "unlink" /\ event \notin used

DetectRenamePairs(events) ==
    LET Additions == SelectSeq(events, LAMBDA e : e.type = "add")
        Match(found, add) ==
            LET used == {found[i].removal : i \in DOMAIN found}
                removal == SelectInSeq(events, LAMBDA e : UnusedRemoval(e, used) /\ LooksLikeRename(e, add))
            IN  IF removal = 0 THEN found
                ELSE Append(found, [from |-> events[removal].path, to |-> add.path,
                                    at |-> IF events[removal].at > add.at THEN events[removal].at ELSE add.at,
                                    removal |-> events[removal]])
        found == FoldLeft(Match, <<>>, Additions)
    IN  [i \in DOMAIN found |-> [from |-> found[i].from, to |-> found[i].to, at |-> found[i].at]]

\* The last pair that leaves, and the last that enters, a path.
Leaving(pairs, path) == SelectLastInSeq(pairs, LAMBDA p : p.from = path)
Entering(pairs, path) == SelectLastInSeq(pairs, LAMBDA p : p.to = path)

\* The first pair of the chain that ends with a pair, and the paths between.
RECURSIVE ChainOf(_, _, _, _)
ChainOf(pairs, first, through, visited) ==
    LET before == Entering(pairs, first.from)
    IN  IF before = 0 \/ first.from \in visited THEN [first |-> first, through |-> through]
        ELSE ChainOf(pairs, pairs[before], {first.from} \cup through, visited \cup {first.from})

\* The paths that the renames lead through, from a path on, until one comes again.
RECURSIVE Walk(_, _)
Walk(pairs, path) ==
    LET pair == Leaving(pairs, Last(path))
    IN  IF pair = 0 THEN <<>>
        ELSE IF Contains(path, pairs[pair].to)
        THEN SubSeq(path, SelectInSeq(path, LAMBDA p : p = pairs[pair].to), Len(path))
        ELSE Walk(pairs, Append(path, pairs[pair].to))

CollapseRenameChains(pairs) ==
    LET ends == SelectSeq(pairs, LAMBDA p : Leaving(pairs, p.to) = 0)
        Chain(pair) == LET chain == ChainOf(pairs, pair, {}, {pair.to})
                       IN  [from |-> chain.first.from, to |-> pair.to, through |-> chain.through]
        Cycle(done, seed) ==
            LET cycle == Walk(pairs, <<seed.from>>)
                latest == CHOOSE i \in DOMAIN cycle :
                              \A j \in DOMAIN cycle :
                                  LET At(k) == pairs[Leaving(pairs, cycle[k])].at
                                  IN  At(j) < At(i) \/ (At(j) = At(i) /\ i <= j)
                final == pairs[Leaving(pairs, cycle[latest])].to
            IN  IF seed.from \in UNION {d.through \cup {d.to} : d \in ToSet(done)} \/ cycle = <<>> THEN done
                ELSE Append(done, [from |-> final, to |-> final, through |-> ToSet(cycle) \ {final}])
    IN  [i \in DOMAIN ends |-> Chain(ends[i])] \o FoldLeft(Cycle, <<>>, pairs)

RenameSuppressedPaths(pair) ==
    pair.through \cup (IF pair.from = pair.to THEN {} ELSE {pair.from})

\* The files that changed, those that are gone, and what was renamed.
Summary(events, pairs) ==
    LET left == UNION {RenameSuppressedPaths(p) : p \in ToSet(pairs)}
        latest == [path \in {e.path : e \in ToSet(events)} \ left |-> OfPath(events, path)[1]]
        removed == {path \in DOMAIN latest : latest[path].type = "unlink"}
    IN  [changed |-> (DOMAIN latest \ removed) \cup ({p.to : p \in ToSet(pairs)} \ removed),
         removed |-> removed, latest |-> latest, pairs |-> pairs]

SummarizeReviewEvents(events) == Summary(events, CollapseRenameChains(DetectRenamePairs(events)))

\* watcherReviewChanges: the changes as the queue shows them without Git.
WatcherReviewChanges(state) ==
    LET renamed == {p \in ToSet(state.pairs) : p.from # p.to /\ p.to \notin state.removed}
        paths == {p.to : p \in renamed}
    IN  {[path |-> p.to, status |-> "renamed", from |-> p.from] : p \in renamed}
        \cup {[path |-> path, from |-> path,
               status |-> IF path \in DOMAIN state.latest /\ state.latest[path].type = "add"
                          THEN "added" ELSE "modified"] : path \in state.changed \ paths}
        \cup {[path |-> path, from |-> path, status |-> "deleted"] : path \in state.removed \ paths}

-----------------------------------------------------------------------------
(* Attention: when each path was looked at or changed *)

Earlier(a, b) == IF a < b THEN a ELSE b

\* The fault of believing the time an event claims for itself.
TouchAtObserved(clock, path, observed, received) ==
    LET current == clock[path]
    IN  IF current # Never /\ current <= received /\ current >= observed THEN clock
        ELSE [clock EXCEPT ![path] = observed]

TouchReviewAttention(clock, path, observed, received) ==
    LET safe == Earlier(observed, received)
        current == clock[path]
    IN  IF current # Never /\ current <= received /\ current >= safe THEN clock
        ELSE [clock EXCEPT ![path] = safe]

Touch(clock, touch) == TouchReviewAttention(clock, touch.path, touch.observed, touch.received)

RecentReviewAttentionPaths(clock, now) ==
    {path \in DOMAIN clock : clock[path] # Never /\ clock[path] <= now /\ now - clock[path] < ActivityWindow}

\* The fault of asking a timer for more than it can wait.
UncappedExpiryDelay(clock, now) ==
    LET ends == {clock[path] + ActivityWindow : path \in RecentReviewAttentionPaths(clock, now)}
    IN  IF ends = {} THEN Never ELSE (CHOOSE e \in ends : \A f \in ends : e <= f) - now

\* When the next path ceases to be recent; Never if none is.
NextReviewAttentionExpiryDelay(clock, now) ==
    LET ends == {clock[path] + ActivityWindow : path \in RecentReviewAttentionPaths(clock, now)}
    IN  IF ends = {} THEN Never
        ELSE Earlier(MaxTimerDelay, (CHOOSE e \in ends : \A f \in ends : e <= f) - now)

-----------------------------------------------------------------------------
(* What happened to the comments *)

IsAgentThreadRead(event) == event.type = "thread_read" /\ ~event.human

\* The fault of keeping the latest events only.
RetainLatest(events) ==
    LET sorted == NewestFirst(events) IN SubSeq(sorted, 1, Earlier(Len(sorted), MaxThreadEvents))

\* The latest events, and the last time an agent read, however old.
RetainThreadActivities(events) ==
    LET sorted == NewestFirst(events)
        recent == SubSeq(sorted, 1, Earlier(Len(sorted), MaxThreadEvents))
        read == SelectInSeq(sorted, IsAgentThreadRead)
    IN  IF read = 0 \/ read <= Len(recent) THEN recent
        ELSE NewestFirst(Append(SubSeq(recent, 1, MaxThreadEvents - 1), sorted[read]))

AddCommentActivity(state, event) ==
    IF Contains(state.seen, event.id) THEN state
    ELSE LET seen == <<event.id>> \o state.seen
         IN  [events |-> RetainThreadActivities(Append(state.events, event)),
              seen |-> SubSeq(seen, 1, Earlier(Len(seen), MaxSeenIds))]
AddCommentActivities(events) == FoldLeft(AddCommentActivity, [events |-> <<>>, seen |-> <<>>], events)

\* When the human said the last thing of a thread, and whether an agent read it.
LatestTime(times) == CHOOSE t \in times : \A u \in times : u <= t
LatestHumanFeedbackAt(thread) ==
    LatestTime({thread.created} \cup {c.updated : c \in {d \in ToSet(thread.comments) : d.human}})
CommentThreadReviewReceipt(thread, events) ==
    LET reads == SelectSeq(NewestFirst(events), IsAgentThreadRead)
    IN  IF reads # <<>> /\ reads[1].at >= LatestHumanFeedbackAt(thread) THEN "agent-read" ELSE "not-read"

\* The label on the thread's card, from what summarizeThreadActivity keeps.
ReviewReceiptLabel(thread, events) ==
    LET feedback == {c.updated : c \in {d \in ToSet(thread.comments) : d.human}}
        timeline == {e.at : e \in {f \in ToSet(events) : IsAgentThreadRead(f)}}
        latest == LatestTime(feedback \cup {0})
    IN  IF latest > 0 /\ LatestTime(timeline \cup {0}) >= latest THEN "Seen" ELSE "Unseen"

-----------------------------------------------------------------------------
(* The queue of what asks for attention *)

NoChange == "none"
NoItem == 0          \* no path, thread or comment

-----------------------------------------------------------------------------
(* Changes *)

\* mergeReviewChanges: what Git says, if it answers; if it gave up looking for new
\* files, what was seen of the others as well.
MergeReviewChanges(watcher, git) ==
    IF ~git.available THEN watcher
    ELSE git.changes \cup
         (IF git.partial
          THEN {c \in watcher : \A g \in git.changes : g.path # c.path} ELSE {})

\* filterRecentReviewChanges.
FilterRecentReviewChanges(changes, state, retained) ==
    {c \in changes : c.path \in state.changed \cup state.removed \cup retained
                                \cup {p.to : p \in ToSet(state.pairs)}}

-----------------------------------------------------------------------------
(* The queue *)

\* Of each path: its change, the times of its comments and whether an agent has
\* seen them, the times of its drafts, the inputs with text, and when it was last
\* looked at.
IsHumanFeedback(comment) == comment.human

PathsOf(list) == {x.path : x \in ToSet(list)}
\* The fault of leaving the drafts out.
AsksByActivity(of) ==
    {c.path : c \in of.changes} \cup {p \in DOMAIN of.recent : of.recent[p] # Never} \cup of.unseen

AsksForAttention(of) ==
    {c.path : c \in of.changes} \cup {p \in DOMAIN of.recent : of.recent[p] # Never}
    \cup of.unseen \cup PathsOf(of.drafts) \cup PathsOf(of.inputs)

QueueItem(of, path) ==
    LET own(list) == {x \in ToSet(list) : x.path = path}
        feedback == {c \in own(of.comments) : IsHumanFeedback(c)}
    IN  [path |-> path,
         change |-> IF \E c \in of.changes : c.path = path
                    THEN (CHOOSE c \in of.changes : c.path = path).status ELSE NoChange,
         comments |-> Cardinality(feedback),
         last |-> LatestTime({IF of.recent[path] = Never THEN 0 ELSE of.recent[path]}
                             \cup {c.at : c \in feedback} \cup {d.at : d \in own(of.drafts)}),
         drafts |-> Cardinality(own(of.drafts)), inputs |-> Cardinality(own(of.inputs)),
         unread |-> path \in of.unseen]

Pending(item) == item.unread \/ item.drafts > 0 \/ item.inputs > 0

\* compareReviewQueueItems.
ComesBefore(a, b) ==
    CASE Pending(a) # Pending(b) -> Pending(a)
      [] a.last # b.last -> a.last > b.last
      [] OTHER -> a.path < b.path

BuildReviewQueueItems(of) ==
    Ordering(SetToSeq({QueueItem(of, p) : p \in AsksForAttention(of) \ of.missing}), ComesBefore)

\* buildUnavailableFeedbackItems.
BuildUnavailableFeedbackItems(of) ==
    {p \in of.missing : \/ \E c \in ToSet(of.comments) : c.path = p /\ IsHumanFeedback(c)
                        \/ p \in PathsOf(of.drafts)}

\* What the Inspector lists: the feedback that waits, then the recent files; the
\* inputs that can be resumed, and the feedback of files that are not there.
FeedbackItems(queue) == SelectSeq(queue, Pending)
RecentItems(queue) == SelectSeq(queue, LAMBDA item : ~Contains(FeedbackItems(queue), item))
Shown(of) ==
    LET queue == BuildReviewQueueItems(of)
    IN  [groups |-> FeedbackItems(queue) \o RecentItems(queue),
         resumable |-> PathsOf(of.inputs), unavailable |-> BuildUnavailableFeedbackItems(of)]

-----------------------------------------------------------------------------
(* Next and previous *)

IsReviewChangeOpenable(change) == change \notin {"deleted", "directory"}
IsReviewQueueItemOpenable(item) == IsReviewChangeOpenable(item.change)

Reviewable(queue) ==
    LET open == SelectSeq(queue, IsReviewQueueItemOpenable)
    IN  [i \in DOMAIN open |-> open[i].path]

Edge(list, direction) == IF direction = "previous" THEN Last(list) ELSE list[1]

\* The fault of stopping at the ends.
ToTheEnd(index, direction, n) ==
    IF direction = "previous" THEN (IF index = 1 THEN 1 ELSE index - 1)
    ELSE IF index = n THEN n ELSE index + 1

Onwards(index, direction, n) ==
    IF direction = "previous" THEN ((index - 2 + n) % n) + 1 ELSE (index % n) + 1

Neighbour(list, index, direction) == list[Onwards(index, direction, Len(list))]

NextReviewQueueItemPath(queue, current, direction) ==
    LET paths == Reviewable(queue)
        index == SelectInSeq(paths, LAMBDA p : p = current)
    IN  IF paths = <<>> THEN NoItem
        ELSE IF index = 0 THEN Edge(paths, direction)
        ELSE Neighbour(paths, index, direction)

\* The fault of expecting it at the head of the queue.
HeadOfQueue(queue) == IF queue # <<>> /\ queue[1].unread THEN queue[1].path ELSE NoItem

LatestUnreadReviewItemPath(queue) ==
    LET index == SelectInSeq(queue, LAMBDA item : item.unread /\ IsReviewQueueItemOpenable(item))
    IN  IF index = 0 THEN NoItem ELSE queue[index].path

-----------------------------------------------------------------------------
(* Threads of feedback *)

InThread(comments, thread) == SelectSeq(comments, LAMBDA c : c.thread = thread)

\* threadTarget: where a thread is, and its earliest comment.
ThreadTarget(comments, thread) ==
    LET own == InThread(comments, thread)
        first == Ordering(own, LAMBDA a, b : a.at < b.at)[1]
    IN  [thread |-> thread, path |-> own[1].path, line |-> own[1].line, comment |-> first.id]

\* The fault of leaving the lines out.
TargetByThread(a, b) == IF a.path # b.path THEN a.path < b.path ELSE a.thread < b.thread

\* compareTargets and compareThreads.
TargetBefore(a, b) ==
    CASE a.path # b.path -> a.path < b.path
      [] a.line # b.line -> a.line < b.line
      [] OTHER -> a.thread < b.thread

FeedbackNavigationTargets(comments) ==
    LET human == {t \in {c.thread : c \in ToSet(comments)} :
                     \E c \in ToSet(InThread(comments, t)) : IsHumanFeedback(c)}
    IN  Ordering(SetToSeq({ThreadTarget(comments, t) : t \in human}), TargetBefore)

\* moveReviewNavigationTarget: on from the comment that is open, or else from the
\* first thread of the file that is shown; the place in the list.
MoveReviewNavigationTarget(targets, path, comment, direction) ==
    LET index == SelectInSeq(targets, LAMBDA t : IF comment # NoItem THEN t.comment = comment
                                                 ELSE t.path = path)
        places == [i \in DOMAIN targets |-> i]
    IN  IF targets = <<>> THEN NoItem
        ELSE IF index = 0 THEN Edge(places, direction)
        ELSE Neighbour(places, index, direction)

FirstRelevantThreadForReviewItem(path, comments) ==
    LET own == SelectSeq(FeedbackNavigationTargets(comments), LAMBDA t : t.path = path)
    IN  IF own = <<>> THEN NoItem ELSE own[1].thread

-----------------------------------------------------------------------------
(* The command palette *)

\* reviewCommandActions: what is offered ...
ReviewCommandActions(queue, unseen, targets) ==
    (IF unseen # {} THEN {"open-latest-unseen"} ELSE {})
    \cup (IF queue # <<>> THEN {"open-next-review", "focus-review-queue"} ELSE {})
    \cup (IF targets # <<>> THEN {"open-next-thread", "open-previous-thread"} ELSE {})

\* ... and what runPaletteAction then opens.
RunPaletteAction(action, queue, targets, current) ==
    CASE action = "open-latest-unseen" -> LatestUnreadReviewItemPath(queue)
      [] action = "open-next-review" -> NextReviewQueueItemPath(queue, current, "next")
      [] action = "focus-review-queue" ->
            IF \E i \in DOMAIN queue : IsReviewQueueItemOpenable(queue[i]) THEN 1 ELSE NoItem
      [] action = "open-next-thread" -> MoveReviewNavigationTarget(targets, current, NoItem, "next")
      [] OTHER -> MoveReviewNavigationTarget(targets, current, NoItem, "previous")

=============================================================================
