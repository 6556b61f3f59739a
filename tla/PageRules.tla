----------------------------- MODULE PageRules ------------------------------
(***************************************************************************)
(* Short histories of files, looks and comments, small workspaces as the   *)
(* page lists them, and what must hold of what the reader is told to look  *)
(* at next and of how files are shown.                                     *)
(***************************************************************************)
EXTENDS DocumentRules, ReviewQueue, TreeRows

-----------------------------------------------------------------------------
(* Inputs *)

\* What can happen to files of which some exist; the third is of another kind.
Outcome(exists, op) == IF op.type = "unlink" THEN exists \ {op.path} ELSE exists \cup {op.path}
Histories(paths, length) ==
    LET Legal(start, ops) ==
            LET before[k \in 0 .. Len(ops)] == IF k = 0 THEN start ELSE Outcome(before[k - 1], ops[k])
            IN  \A k \in DOMAIN ops : (ops[k].path \in before[k - 1]) <=> (ops[k].type # "add")
        Timed(ops, gaps) ==
            LET at[k \in 0 .. Len(ops)] == IF k = 0 THEN 0 ELSE at[k - 1] + gaps[k]
            IN  [k \in DOMAIN ops |-> [type |-> ops[k].type, path |-> ops[k].path, at |-> at[k],
                                       kind |-> IF ops[k].path = 3 THEN 2 ELSE 1]]
    IN  {[start |-> start, ops |-> Timed(ops, gaps)] :
            <<start, ops, gaps>> \in
                {<<s, o, g>> \in (SUBSET paths)
                                 \X [1 .. length -> [type : {"add", "unlink", "change"}, path : paths]]
                                 \X [1 .. length -> {1, RenameWindow + 1}] : Legal(s, o)}}

\* Looks at two files, which arrive in this order, and claim a time of their own.
Looks == [path : 1 .. 2, observed : 1 .. 5, received : 1 .. 5]

\* What agents and people did with a thread of up to two comments.
Activities ==
    {[id |-> i, type |-> type, human |-> human, at |-> at] :
        i \in 1 .. 3, type \in {"thread_read", "comment_added"}, human \in BOOLEAN, at \in 1 .. 2}
Thread(times) ==
    [created |-> 1, comments |-> [i \in DOMAIN times |-> [human |-> i = 1, updated |-> times[i]]]]

\* A file as the queue finds it.
Profile(change, recent, feedback, unseen, draft, typed, missing) ==
    [change |-> change, recent |-> recent, feedback |-> feedback, unseen |-> unseen,
     draft |-> draft, typed |-> typed, missing |-> missing]
Profiles ==
    {Profile(NoChange, 1, 0, FALSE, 0, FALSE, FALSE), Profile(NoChange, Never, 0, FALSE, 0, FALSE, FALSE),
     Profile("modified", 2, 0, FALSE, 0, FALSE, FALSE), Profile("deleted", Never, 1, TRUE, 0, FALSE, FALSE),
     Profile("modified", Never, 2, TRUE, 0, FALSE, FALSE), Profile(NoChange, Never, 1, FALSE, 2, FALSE, FALSE),
     Profile(NoChange, 2, 0, FALSE, 0, TRUE, FALSE), Profile("directory", Never, 0, FALSE, 0, FALSE, FALSE),
     Profile("deleted", Never, 1, TRUE, 0, FALSE, TRUE), Profile(NoChange, Never, 0, FALSE, 1, TRUE, TRUE)}

Rows == 1 .. 3
QueueOf(profiles) ==
    LET Some(P(_)) == SetToSeq({f \in Rows : P(profiles[f])})
        Each(files, Make(_)) == [i \in DOMAIN files |-> Make(files[i])]
    IN  [changes |-> {[path |-> f, status |-> profiles[f].change, from |-> f] :
                         f \in {g \in Rows : profiles[g].change # NoChange}},
         recent |-> [f \in Rows |-> profiles[f].recent],
         unseen |-> {f \in Rows : profiles[f].unseen},
         comments |-> Each(Some(LAMBDA p : p.feedback > 0),
                           LAMBDA f : [path |-> f, human |-> TRUE, at |-> profiles[f].feedback]),
         drafts |-> Each(Some(LAMBDA p : p.draft > 0), LAMBDA f : [path |-> f, at |-> profiles[f].draft]),
         inputs |-> Each(Some(LAMBDA p : p.typed), LAMBDA f : [path |-> f]),
         missing |-> {f \in Rows : profiles[f].missing}]

\* Comments of two files as the server lists them, with their threads.
Remark == [thread : 1 .. 3, at : 1 .. 2, human : BOOLEAN]
Remarks(list) ==
    [i \in DOMAIN list |->
        [id |-> i, thread |-> list[i].thread, at |-> list[i].at, human |-> list[i].human,
         path |-> IF list[i].thread = 3 THEN 2 ELSE 1, line |-> 4 - list[i].thread]]

QueueInput ==
    \/ \E h \in Histories(1 .. 3, 3) \cup Histories({1, 2}, 4) \cup Histories({1}, 5) :
          input = [what |-> "history", start |-> h.start, ops |-> h.ops]
    \/ \E looks \in BoundedSeq(Looks, 3) : input = [what |-> "looks", looks |-> looks]
    \/ \E events \in BoundedSeq(Activities, 3) \cup
                     {<<[id |-> 1, type |-> "thread_read", human |-> FALSE, at |-> at]>> \o
                      [i \in 1 .. 3 |-> [id |-> i + 1, type |-> "comment_added", human |-> FALSE, at |-> ats[i]]] :
                         at \in 1 .. 2, ats \in [1 .. 3 -> 1 .. 3]} :
          \E times \in BoundedSeq(1 .. 3, 2) :
              times # <<>> /\ input = [what |-> "activities", events |-> events, thread |-> Thread(times)]
    \/ \E profiles \in [Rows -> Profiles] : input = [what |-> "queue", of |-> QueueOf(profiles)]
    \/ \E list \in BoundedSeq(Remark, 3) : input = [what |-> "remarks", comments |-> Remarks(list)]

-----------------------------------------------------------------------------

LastTime == Last(input.ops).at
Remembered == Recent(FoldLeft(RecordReviewEvent, <<>>, input.ops), LastTime)
NoLooks == [path \in 1 .. 2 |-> Never]
Directions == {"next", "previous"}

QueueAnswer ==
    CASE input.what = "history" -> SummarizeReviewEvents(Remembered)
      [] input.what = "looks" -> FoldLeft(Touch, NoLooks, input.looks)
      [] input.what = "activities" -> AddCommentActivities(input.events)
      [] input.what = "queue" -> BuildReviewQueueItems(input.of)
      [] input.what = "remarks" -> FeedbackNavigationTargets(input.comments)
      [] OTHER -> ReadingAnswer

-----------------------------------------------------------------------------
(* Properties *)

Existing == FoldLeft(Outcome, input.start, input.ops)
Lately == Recent(Reverse(input.ops), LastTime)
Touched == PathsOf(Lately)
Changes == WatcherReviewChanges(answer)

\* Git has the files that were there first; it may have no time to look for new ones.
GitSays(available, partial) ==
    LET Entry(path, status) == [path |-> path, from |-> path, status |-> status]
    IN  [available |-> available, partial |-> partial,
         changes |-> {Entry(path, "deleted") : path \in input.start \ Existing}
                     \cup {Entry(path, "modified") : path \in Touched \cap input.start \cap Existing}
                     \cup (IF partial THEN {} ELSE {Entry(path, "added") : path \in Existing \ input.start})]
Answers == {GitSays(FALSE, FALSE), GitSays(TRUE, TRUE), GitSays(TRUE, FALSE)}

\* The queue calls a file deleted if, and only if, it is gone, and a file is listed
\* once, however often files were removed, added and taken for renamed ones, and
\* whatever Git says about it.
ChangedFilesExist ==
    Of("history") =>
        \A git \in Answers :
            LET listed == FilterRecentReviewChanges(MergeReviewChanges(Changes, git), answer, {})
            IN  \A c \in listed :
                    /\ (c.status = "deleted") <=> (c.path \notin Existing)
                    /\ \A d \in listed : d.path = c.path => d = c

\* What is kept of the events says of every file what all of them say.
CompactionKeepsTheSummary ==
    Of("history") => WatcherReviewChanges(SummarizeReviewEvents(Lately)) = Changes

\* A file that is there and was updated is in the queue's changes ...
UpdatedFilesAppear ==
    Of("history") => \A path \in Touched \cap Existing : \E c \in Changes : c.path = path

\* ... as long as no path is removed and added again: then its removal is taken for
\* a renaming to another file.
ReturningPaths ==
    {input.ops[k].path : k \in {l \in DOMAIN input.ops :
        /\ input.ops[l].type = "add"
        /\ \E j \in 1 .. l - 1 : input.ops[j].type = "unlink" /\ input.ops[j].path = input.ops[l].path}}
LastingFilesAppear == Of("history") /\ ReturningPaths = {} => UpdatedFilesAppear

\* A path is recent if one of the times at which it was looked at is; times that claim to
\* be in the future count as now, and a look that comes late takes nothing back.
TimesOf(path) ==
    {Earlier(input.looks[k].observed, input.looks[k].received) :
        k \in {l \in DOMAIN input.looks : input.looks[l].path = path}}
Arriving == \A k \in 2 .. Len(input.looks) : input.looks[k - 1].received <= input.looks[k].received
RecentIsRemembered ==
    Of("looks") /\ input.looks # <<>> /\ Arriving =>
        LET now == Last(input.looks).received
        IN  \A wait \in 0 .. ActivityWindow + 1 :
                RecentReviewAttentionPaths(answer, now + wait) =
                    {path \in DOMAIN answer : \E t \in TimesOf(path) : now + wait - t < ActivityWindow}

\* The queue is built anew when the first file ceases to be recent, neither later nor,
\* while a timer can wait that long, earlier.
ExpiryIsNotMissed ==
    Of("looks") =>
        \A now \in 1 .. 6 :
            LET recent == RecentReviewAttentionPaths(answer, now)
                delay == NextReviewAttentionExpiryDelay(answer, now)
            IN  IF recent = {} THEN delay = Never
                ELSE /\ delay \in 1 .. MaxTimerDelay
                     /\ \A wait \in 0 .. delay - 1 : recent \subseteq RecentReviewAttentionPaths(answer, now + wait)
                     /\ \/ delay = MaxTimerDelay
                        \/ ~(recent \subseteq RecentReviewAttentionPaths(answer, now + delay))

\* However much happens afterwards, an agent's reading is not forgotten and counted once, and the
\* card of the thread and the queue agree about it.
SeenIsNotForgotten ==
    Of("activities") =>
        LET once == {k \in DOMAIN input.events : \A j \in 1 .. k - 1 : input.events[j].id # input.events[k].id}
            all == SetToSeq({input.events[k] : k \in once})
            receipt == CommentThreadReviewReceipt(input.thread, answer.events)
        IN  /\ receipt = CommentThreadReviewReceipt(input.thread, all)
            /\ (receipt = "agent-read") <=> (ReviewReceiptLabel(input.thread, answer.events) = "Seen")
            /\ \A i, j \in DOMAIN answer.events : answer.events[i].id = answer.events[j].id => i = j

\* Whatever waits for the reader or for an agent is on the Inspector's lists: a draft,
\* a comment no agent has seen, a typed text.
PendingIsListed ==
    Of("queue") =>
        LET shown == Shown(input.of)
            listed == PathsOf(shown.groups) \cup shown.resumable \cup shown.unavailable
        IN  input.of.unseen \cup PathsOf(input.of.drafts) \cup PathsOf(input.of.inputs) \subseteq listed

\* "Next" goes down the list as it is shown, "previous" up; each visits all that can be opened.
NextVisitsAll ==
    Of("queue") =>
        LET rows == Shown(input.of).groups
            open == {i \in DOMAIN rows : IsReviewQueueItemOpenable(rows[i])}
            Led(i, direction) == NextReviewQueueItemPath(answer, rows[i].path, direction)
            Below(i) == {j \in open : j > i}
        IN  \A i \in open :
                /\ Led(i, "next") =
                       rows[CHOOSE j \in (IF Below(i) = {} THEN open ELSE Below(i)) :
                                \A k \in (IF Below(i) = {} THEN open ELSE Below(i)) : j <= k].path
                /\ \A j \in open : (Led(i, "next") = rows[j].path) <=> (Led(j, "previous") = rows[i].path)

\* Unseen feedback comes before everything else that waits.
UnseenComesFirst ==
    Of("queue") => \A i, j \in DOMAIN answer : i < j /\ answer[j].unread => answer[i].unread

\* A command that is offered leads somewhere, unless the files it would open are gone.
Gone(of, path) ==
    path \in of.missing \/ \E c \in of.changes : c.path = path /\ ~IsReviewChangeOpenable(c.status)
OfferedActionsAct ==
    Of("queue") /\ (\A path \in Rows : ~Gone(input.of, path)) =>
        \A action \in ReviewCommandActions(answer, input.of.unseen, <<>>) :
            \A current \in Rows \cup {NoItem} : RunPaletteAction(action, answer, <<>>, current) # NoItem

\* From the thread that was opened, "next" leads to every other thread with feedback of a
\* person before it comes back, from file to file and down each file; "previous" undoes it.
\* A file of the queue is opened at the first of its own.
Opened(i) == [path |-> answer[i].path, comment |-> answer[i].comment]
Move(i, direction) == MoveReviewNavigationTarget(answer, Opened(i).path, Opened(i).comment, direction)
MoveVisitsEveryThread ==
    Of("remarks") =>
        LET human == {c.thread : c \in {d \in ToSet(input.comments) : d.human}}
            after[n \in 0 .. Len(answer)] == IF n = 0 THEN 1 ELSE Move(after[n - 1], "next")
        IN  /\ {answer[i].thread : i \in DOMAIN answer} = human
            /\ answer # <<>> => {answer[after[n]].thread : n \in 1 .. Len(answer)} = human
            /\ \A i \in DOMAIN answer :
                  /\ Move(Move(i, "next"), "previous") = i
                  /\ i = 1 \/ answer[i - 1].path # answer[i].path =>
                         FirstRelevantThreadForReviewItem(answer[i].path, input.comments) = answer[i].thread
                  /\ i > 1 => \/ answer[i - 1].path < answer[i].path
                              \/ answer[i - 1].path = answer[i].path /\ answer[i - 1].line < answer[i].line

-----------------------------------------------------------------------------
(* The tree *)

CONSTANT MaxKeys    \* bound: keys pressed

-----------------------------------------------------------------------------
(* Inputs *)

\* A folder in a folder, another one beside it, and files at every depth.
AllPaths == << <<1>>, <<1, 1>>, <<1, 1, 1>>, <<1, 2>>, <<2>>, <<2, 1>>, <<3>> >>
TreeFolders == {<<1>>, <<1, 1>>, <<2>>}
TreeFiles == ToSet(AllPaths) \ TreeFolders
Without(gone) == SelectSeq(AllPaths, LAMBDA path : path \notin gone /\ Ancestors(path) \cap gone = {})

TreeInput ==
    \/ \E gone \in {{}, {<<1, 1, 1>>}, {<<1, 2>>}, {<<3>>}, {<<2>>}, {<<1, 1>>}, {<<1>>}},
          listed \in SUBSET TreeFolders, expanded \in SUBSET TreeFolders, reveal \in TreeFiles \cup {NoPath} :
          input = [what |-> "tree", preorder |-> Without(gone), folders |-> TreeFolders, listed |-> listed,
                   expanded |-> expanded, reveal |-> reveal, selected |-> NoPath]
    \/ \E expanded \in SUBSET TreeFolders, unread \in SUBSET TreeFiles, review \in SUBSET TreeFiles,
          open \in {{<<1, 1, 1>>, <<3>>}}, stop \in {NoPath, <<1, 2>>, <<2, 1>>}, selected \in TreeFiles :
          input = [what |-> "rows", expanded |-> expanded, selected |-> selected,
                   marks |-> [unread |-> unread, review |-> review, open |-> open, stop |-> stop,
                              changed |-> review \ unread, removed |-> {<<3>>},
                              comments |-> [path \in TreeFiles |-> Len(path)]]]

TreeAnswer ==
    IF input.what = "tree"
    THEN TreeOf(input.preorder, input.listed)
    ELSE ReviewSummaries(AllPaths, TreeFolders, input.marks)

PageInput == TreeInput
PageAnswer == IF input.what \in {"tree", "rows"} THEN TreeAnswer ELSE QueueAnswer

-----------------------------------------------------------------------------
(* Properties: the tree *)

Side(active) == [active |-> active, expanded |-> input.expanded, listed |-> input.listed, opened |-> NoPath]
RowsOf(expanded) == BoundedVisibleTreeRows(answer, expanded, input.reveal)

\* A revealed file has a row once its folders are listed, however many rows there are.
RevealedIsRendered ==
    Of("tree") => LET rows == RowsOf(EnsureVisibleAncestors(input.expanded, input.reveal))
                  IN  input.reveal \in ToSet(answer) => input.reveal \in ToSet(rows)

\* The tree is first shown with no more rows than it may expand to, and those of the entries
\* of the root after the folder that reached the limit, unless a revealed file needs more.
FirstRowsAreFew ==
    Of("tree") /\ input.reveal = NoPath =>
        Len(FlattenVisibleTreeRows(answer, InitialExpandedPaths(answer, TreeFolders, input.listed, NoPath)))
            <= MaxAutoExpanded + Len(ChildrenOf(answer, NoPath))

\* Whichever row has the focus, the left arrow leads out of every folder it is in, one folder
\* at a time, and closes them, although rows are left out.
LeftLeadsOut ==
    Of("tree") => \A start \in ToSet(RowsOf(input.expanded)) :
        LET left[n \in 0 .. 2 * Len(start)] ==
                IF n = 0 THEN Side(start) ELSE PressKey(input, left[n - 1], "ArrowLeft")
        IN  /\ \A n \in DOMAIN left : IsPrefix(left[n].active, start)
            /\ left[2 * Len(start)].active = <<start[1]>>
            /\ left[2 * Len(start)].expanded = input.expanded \ (Ancestors(start) \cup {start})

\* Every file whose folder's rows can all be rendered can be opened with keys alone.
KeysOpenEveryFile ==
    Of("tree") /\ input.reveal = NoPath =>
        LET After(sides, i) ==
                sides \cup {PressKey(input, side, key) :
                               side \in sides, key \in {"ArrowDown", "ArrowRight", "ArrowLeft"}}
            reached == FoldLeft(After, {Side(NoPath)}, [i \in 1 .. MaxKeys |-> i])
            fits(path) == Len(FlattenVisibleTreeRows(input.preorder, Ancestors(path))) <= MaxTreeRows
        IN  {path \in ToSet(input.preorder) \ TreeFolders : fits(path)}
                \subseteq {PressKey(input, side, "Enter").opened : side \in reached}

\* When the folders on the way to a path are listed as they are asked for, the path gets a row
\* or is known to be missing; before, a file that is there is never taken for missing.
PathsAreShownOrMissing ==
    Of("tree") => \A path \in TreeFiles :
        LET asked[n \in 0 .. 3] ==
                IF n = 0 THEN input.listed
                ELSE asked[n - 1] \cup
                     UnloadedAncestors(TreeOf(input.preorder, asked[n - 1]), TreeFolders, asked[n - 1], path)
            nodes == TreeOf(input.preorder, asked[3])
        IN  /\ path \in ToSet(nodes) <=> path \in ToSet(input.preorder)
            /\ IsPathKnownMissing(nodes, TreeFolders, asked[3], path) <=> path \notin ToSet(nodes)
            /\ path \in ToSet(input.preorder) =>
                  ~IsPathKnownMissing(answer, TreeFolders, input.listed, path)

\* Rows that are not those of open folders tell of everything in the workspace once: no unseen
\* feedback is hidden in a closed folder, and the selected file is in one place.
ClosedFoldersTell ==
    Of("rows") =>
        LET rows == ToSet(FlattenVisibleTreeRows(AllPaths, input.expanded))
            ends == rows \ (TreeFolders \cap input.expanded)
            Total(field) == FoldFunctionOnSet(+, 0, [path \in ends |-> answer[path][field]], ends)
        IN  /\ \A field \in {"comments", "open", "review", "unread"} : Total(field) = answer[NoPath][field]
            /\ answer[NoPath].unread = Cardinality(input.marks.unread)
            /\ Cardinality({path \in rows : LocatesSelection(path, TreeFolders, input.expanded, input.selected)}) = 1

\* A folder leads to the first file in it of those that most need a look, as the rows go.
FoldersLeadToTheNextStop ==
    Of("rows") => \A folder \in TreeFolders \cup {NoPath} :
        LET inside == SelectSeq(AllPaths, LAMBDA path : path \in TreeFiles /\ IsPrefix(folder, path))
            Priority(path) == StopPriority[FileReviewStopKind(input.marks, path)]
            stops == {i \in DOMAIN inside : Priority(inside[i]) > 0}
        IN  IF stops = {} THEN answer[folder].stop = NoPath
            ELSE \E i \in stops :
                    /\ answer[folder].stop = inside[i]
                    /\ \A j \in stops : \/ Priority(inside[j]) < Priority(inside[i])
                                        \/ Priority(inside[j]) = Priority(inside[i]) /\ i <= j

\* Whoever hears the label of a row is told all that others see on it, and the current stop is
\* named where it is, for files and folders alike.
LabelsSayWhatIsShown ==
    Of("rows") =>
        /\ \A path \in TreeFiles, diffstat \in BOOLEAN :
              FileReason(input.marks, path) \cup FileBadges(input.marks, path, diffstat)
                  \subseteq FileLabel(input.marks, path, input.selected)
        /\ \A folder \in TreeFolders :
              LET contains == Under(folder, input.marks.stop)
                  label == FolderLabel(answer[folder], contains)
                  reason == FolderReason(answer[folder], contains)
              IN  /\ label.stop = reason.stop /\ label.stop.file # NoPath <=> label.stop.kind # "none"
                  /\ label.stop.kind = "current" <=> contains
                  /\ contains => label.stop.file = input.marks.stop
                  /\ reason.counts \cup FolderBadges(answer[folder]) \subseteq label.counts

=============================================================================
