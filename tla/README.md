# A TLA+ verification of vivi

vivi is a local review server. A server process serves one workspace directory to a browser page;
people read files and changes there and leave comments, and coding agents read those comments and
answer them. There are two servers with the same interface, one in Go (`src/server`, `src/cli`) and
one for Node (`src/server/typescript`), and one browser page (`src/ui`). This directory holds TLA+
models of them, TLC configurations that check the models on small instances, and TLAPS proofs about
them for every instance. `PROJECT.json` lists the components, the runs, one mutant of the code for
every checked property, the source lines of every definition, the hazards and the theorems.

## 1. The system

| Component | State it keeps | Operations | Interacts with |
|---|---|---|---|
| Go comment store (`server/comments`) | `comments.jsonl`, `comment-threads.jsonl` (append-only journal), `comment-drafts.jsonl`, one mutex per process | create, reply, update, delete, drafts, publish, list | **other server processes of the workspace, through the files** |
| Go feedback inbox (`read_receipts.go`, resolvers, `inbox_client.go`) | `thread.read` events in the journal | list the threads an agent has not seen, note what was returned | comment store, agents |
| Go workspace watcher (`workspace_watcher.go`) | known entries, watched directories, a scheduled reconciliation | watch, handle events and errors, reconcile, poll | file system, page |
| Node comment store and service (`node-comment-store.ts`, `viewer-service.ts`) | the same three files, a chain of writes | requests that interleave at every `await` | activity subscribers |
| Node review ledger and receipts | one ledger file with its `.tmp`; receipts in the journal | save, read, prune; note a listed thread as read | clients, several calls at a time |
| Node watcher (`node-watcher.ts`) | what is known of each path, timers, checks | messages of a worker thread, debounced checks, announcements | file system, event streams |
| Node git review (`git-change-review.ts`) | git processes, a cooldown | change list, diff, the last commit without git, stop | git, the workspace |
| Node files (`node-file-system.ts`, `path-policy.ts`, `search.ts`) | an index of names with its age | tree, search by name and text, read | the disk while it changes |
| Node process (`http-server.ts`, `main.ts`) | connections, streams, the stage of a shutdown | serve, stream events, shut down with deadlines | clients, signals |
| Browser editor (`WorkbenchContainer.tsx`, `tabs.ts`, `editor-layout.ts`, ...) | tabs, panes, contents, loads in flight, sessions | open, move, split, close, refresh on events, restore | a server's GraphQL, REST and events |
| Browser comments and drafts | snapshots of both, versions | load, refresh, save, publish, delete | the server, other pages, agents |
| Browser change review, tree, palette and focus | lists, diffs, listings, dialogs, where the reader is | refresh, poll, expand, reveal, search, jump | the server |
| Browser comment input, rendered threads, source and diff viewers | typed text, cards, markers, coloured lines, selections | type, save, collapse, discard, resume; press, drag, click | browser storage, a sandboxed frame by messages |
| Pure rules | none | anchors, threads, diffs, blocks, outlines, links, the review queue, tree rows, paths, ranking, transports | all of the above |

### What is hard in it

* **Several processes, one directory.** Two Go servers of one workspace share the data directory and
  each locks only itself: whole-file rewrites race.
* **Several files, no transaction.** An operation changes up to three files; a crash or an I/O error
  between two of them leaves a half-done operation.
* **Every `await` is an interleaving.** The Node server and the page have one thread, and state that is
  read before an `await`, a timer or a message is used after it.
* **Answers out of order.** The page refreshes on events while earlier requests are in flight; an
  answer may be older than what is shown.
* **Events that do not come.** Watches are added after the directory they are for, queues overflow,
  streams break, messages beyond a limit are dropped.
* **Retries and repetitions.** Agents repeat a call whose answer they did not get; clients ask again
  under the same event id.
* **The world changes under a walk.** Trees, searches, git reviews and readings of a repository take
  many steps while files, commits and branches change.

### What makes each component correct

* Stores: nothing confirmed is lost, nothing deleted comes back, nothing is stored twice, a body never
  goes backwards; the journal tells of every comment; subscribers are told of comments that exist.
* Inbox and receipts: feedback that was not given stays listed, feedback given once is not listed again
  until it changes, a request that was answered is noted once.
* Watchers: when they are at rest the picture is the workspace, and subscribers know it.
* Git, files, process: an answer was right about everything that stayed the same while it was made; what
  has to end ends.
* Page: what is shown is what the server has, once nothing is on its way; what a reader typed is not
  lost, saved once, and gone when it was discarded; the reader is not moved; cards, markers and focus do
  what they say.
* Rules: a comment finds its block, its lines and its card again, server and page agree, the queue lists
  what waits, and every file can be reached.

## 2. Modules

`MC...` modules compose components that share no variable: a behaviour is about one `concern`, and the
others stand still in an initial state in which nothing is asked of them. Parts of one check that
belong together are conjunctions; section 3 names their parts.

| Module | Models |
|---|---|
| `CommentStore` | the Go comment store of any number of server processes on one data directory |
| `ReviewBoard` | abstract: what the store promises, a board with atomic operations |
| `FeedbackInbox` | how published feedback reaches agents, with read receipts |
| `WorkspaceWatcher` | how a Go server's picture of its workspace follows the file system |
| `NodeComments` | comments of the Node server: requests as plans, the chain of writes |
| `NodeRecords` | the Node server's review ledger, file operation by file operation, and its read receipts |
| `NodeWatcher`, `NodeGitReview`, `NodeFiles`, `NodeServer` | watcher, change list and diffs with git and the last commit without, walks and searches, life and streams of the Node server |
| `ViviApi`, `NodeRules` | transports, paths, globs, listings, payloads and ranking as operators with inputs |
| `CommentDomain`, `DiffView` | anchors, threads and statuses on both sides; differences, their parsing and their cards |
| `RenderedBlocks`, `DocumentText`, `DocumentRules` | blocks of rendered pages and their cards; front matter, outline, links, source lines; small documents |
| `ReviewQueue`, `TreeRows`, `PageRules` | what asks for attention; rows and keys of the tree; small histories and workspaces |
| `WorkbenchFiles` | tabs and panes as operators; the files a page shows |
| `WorkbenchComments` | comments and drafts of a page |
| `WorkbenchReview`, `WorkspaceTree`, `WorkbenchFocus`, `CommandPalette` | changes and diffs, the tree's listings, where the reader is, the dialogs |
| `CommentInputs` | what is typed before it is saved, and the composer beside a selection |
| `RenderedThreads`, `SourceLines`, `DiffComments` | cards of rendered documents (page and frame), lines of a source file with their markers and colours, comments of a diff |
| `MCCommentStore`, `MCReadRecords`, `MCWorkspaceWatcher`, `MCNodeRuntime`, `MCReviewRules`, `MCWorkbench`, `MCWorkbenchUpkeep`, `MCComposing` | instances |
| `CommentStoreProofs`, `OneServer`, `ReadRecordProofs`, `WatcherProofs`, `NodeRuntimeProofs`, `UpkeepProofs`, `WorkbenchProofs`, `ComposingProofs` | theorems (section 4) |

### CommentStore and ReviewBoard

Each **call** is a process with a program counter. It takes its server's mutex, reads the files and
computes what it is going to write (`CreateThread`, `AddReply`, `PublishDrafts`, ...: one action per
operation of `comments.go`); then it changes the files one step at a time (`WriteCommentsTmp`,
`RenameComments`, `AppendEvent`, `WriteDraftsTmp`, `RenameDrafts`) in the order its code has; then it
answers and lets the mutex go. `Unlocked` sees the calls of the same server only. `CheckThread` is the
look-up `AddComment` makes before it calls `Create`; the mutex is free in between. `FailCall` is an
error of a file operation, `Crash` the death and restart of a process, `LoseTmp` the failing rename of a
`.tmp` file that another server has renamed meanwhile.

Files are sets of rows, ids are the numbers of the calls that made them, a thread is named after its
first comment, bodies are the numbers of the calls that wrote them. The reads at the start of an
operation are one step, and so is the filling of a `.tmp` file; an append that is torn by a crash is not
modelled. `confirmed`, `saved`, `discarded` and `erased` are history.

`ReviewBoard` has readable comments, pending drafts and deleted ids. The mapping (`Board`) takes the
readable rows as the board, and the rows of the drafts file that no stored comment came from as the
pending drafts: the rename of `comments.jsonl` is the instant of a publication.

### FeedbackInbox

Each agent is a process: `Fetch` is the listing, `Observe` one receipt, `Answer` the response. People
and agents write at any time; `LoseAnswer` is a timeout or lost connection, `Crash` the death of the
server. `given` and `missed` are history: there are two ways into `missed`, both in the code, a comment
written between the listing and the receipt, and a lost answer. Time is the number of writes.

### WorkspaceWatcher

The goroutine of `watchWorkspace` against a file system that changes at any time and a platform that
watches single directories (`watches`), queues events in order, and puts an error into the queue where
it lost one. `known` is the map `previous`, `watched` the map `watchedDirs`: what the code believes.
Changes happen between any two of its steps, in particular between the watch of a directory and the scan
that follows. `blind` holds the paths that changed where nobody watched, until a scan sees them;
`reported` the directories whose creation an event announced. No action of the watcher reads either. A
scan is one step and does not fail; entries that are hidden, excluded, linked or moved away are left
out.

### The Node server

`NodeComments` gives each request a plan: the writes and announcements it still has to make. A write
waits in `writeQueue`, reads its file and replaces it in two steps; a failed write ends its request, not
the chain; a rewrite of the journal that is cut short leaves its first lines and perhaps half of another
one (`spoiled`), after which it cannot be read. `NodeRecords` numbers inodes, because a call goes on
writing to the file it has opened whatever its name has become. `NodeWatcher` has the messages, timers
and checks of each path; `SlowChecks` says whether a check may still be under way when the timer of the
next event of its path ends. `NodeGitReview` has every git command as a process with a time limit, and
entries that change while they are looked at. Its second part reads HEAD, references, objects and the
working file one after another while commits, checkouts, packing and edits happen. `NodeFiles` lists and
looks at entries one by one while they come and go; each read remembers which files stayed the same.
`NodeServer` has the stages of a shutdown whose waits may hang, and streams with their buffers.

### The page

A request is served at one moment and answered at a later one, in any order, or fails. `WorkbenchFiles`
has the disk on the other side, `WorkbenchComments` the server's comments with agents and other pages;
versions, invalidations and reconnections are as in the code. `WorkbenchReview` has debounce, polling
and versions; `WorkspaceTree` listings of a chain of directories; `WorkbenchFocus` jumps that load files
on their way; `CommandPalette` the dialogs for a reader with a keyboard. In `CommentInputs` text is a
set of thoughts typed one by one; `Cautions` names what the reader refrains from, because without it the
code does lose text (section 5). In `RenderedThreads` a handler sees the state of the last render,
effects run after renders, and a message to a frame whose script does not run is lost.

### The rules

In `review_rules` every behaviour is one input and its answer: the operators are translations of the
pure functions, the properties say what their callers rely on, and the inputs are all small anchors,
comment lists, pairs of files, documents, paths, words, histories and trees within the bounds.

## 3. Runs

| Run | Instance | Shows |
|---|---|---|
| `store_reliable` | 1 server, 2 calls, 4 stamps, no faults | `RequestsCountOnce` (no draft published twice, a retried reply makes one comment), `JournalMatchesComments`; `ImplementsBoard` |
| `store_faults` | 1 server, 3 stamps, 2 faults | `NothingSavedIsLost` (drafts and comments), `TextsMoveForward`, `TypeOK` |
| `store_servers` | 2 servers, 3 stamps, 1 fault | `ErasedStaysErased` |
| `records` | an agent with 1 key or two pollers, 3 writes, 1 fault; 2 ledger calls, 2 saves, 1 mishap; 2 deliveries | `NothingSlipsBy`, `RereadIsSeen`, `RepeatedReadsKeepTheReceipt`, `PollersDrain`; `NodeRecordsHold` |
| `watcher` | 2 nested directories, 2 files, 5 changes, queue of 2, 1 fault | `KnownIsCurrent`, `ReportedDirsAreComplete`, `PictureSettles` |
| `node_runtime` | 2 requests, 5 stamps, 1 fault; 2 paths; 2 entries, 1 git request; 2 files; 2 streams; 2 commits, 2 moves of git | `CommentsAreKept`, `WatcherKnows`, `GitAnswersFit`, `ServerAnswers`, `WorkEnds` |
| `workbench` | 2 files, 3 panes, 2 loads; 2 files, 3 comments, 3 requests | `EditorIsRight`, `CommentsAreRight` |
| `workbench_upkeep` | 2 files, 3 calls; 2 searches with 2 hits; 2 directories below the root, 4 listings; 4 key strokes | `ReviewIsCurrent`, `TreeIsLoaded`, `DialogsHold`, `ListBecomesCurrent`, `ResumeYields`, `FocusIsKept` |
| `composing` | 2 places, 3 thoughts, 2 versions; 2 blocks, 3 comments, 3 actions; 3 lines, 4 gestures; 2 texts and themes | `WritingIsKept`, `CardsFollow`, `LinesShowTheInputs`, `MarkersDoAsTheySay`, `SelectionIsCurrent`, `ExchangeEnds` |
| `review_rules` | all inputs up to 3 lines, 3 comments, 4 elements, 4 rows | `CommentsAndDiffsAgree`, `ServerRulesHold`, `BlocksAreFound`, `DocumentsReadAlike`, `QueueTellsWhatWaits`, `TreeShowsTheWorkspace` |
| `inbox_race` | 1 agent, no faults | counterexample: feedback marked as read and never given |
| `input_lost` | inputs without one caution | counterexample: a reload loses what a rendered composer is saving |

The properties of the composed runs are conjunctions, defined at the end of each `MC` module, where the
comment says what they mean together:

* `NodeRecordsHold`: `LedgerTypeOK`, `LoneCallsKeepTheLedger`, `ReceiptsTypeOK`, `AnsweredIsNoted`,
  `RetriesAreNotedOnce`, `HeardIsNoted`.
* `CommentsAreKept`: `TypeOK`, `ConfirmedCommentsAreKept`, `SavedDraftsAreKept`,
  `AnnouncedCommentsExist`, `JournalTellsEveryComment`. `WatcherKnows`: `WatcherTypeOK`, `QuietIsKnown`,
  `ToldIsKnown`. `GitAnswersFit`: `GitTypeOK`, `StoppedLeavesNoProcess`, `CompleteIsComplete`,
  `DiffFitsTheFile`, `ObjectsTypeOK`, `SidesAreOfTheRequest`, `RefusedNeedsGit`. `ServerAnswers`:
  `FilesTypeOK`, `AnswersFitWhatStayed`, `IndexIsRecent`, `FailuresHaveACause`, `ServerTypeOK`,
  `StreamsMissNothing`. `WorkEnds`: `RequestsEnd`, `ChangesAreAnnounced`, `GitRequestsEnd`,
  `ShutdownEnds`.
* `EditorIsRight`: `TypeOK`, `MissingIsRight`, `ShownIsCurrent`, `OnePreviewPerPane`,
  `SessionsRestore`. `CommentsAreRight`: `CommentsTypeOK`, `DeletedStaysGone`, `CommentsConverge`,
  `DraftsConverge`, `NoneShownTwice`.
* `ReviewIsCurrent`: `ReviewTypeOK`, `QueuedIsScheduled`, `DiffsAreCurrent`. `TreeIsLoaded`:
  `TreeTypeOK`, `ListingsAreCurrent`, `RevealedIsLoaded`. `DialogsHold`: `FocusTypeOK`,
  `SearchIsForTheQuery`, `PaletteTypeOK`, `ArrowsReachEveryResult`, `FocusReturns`.
* `WritingIsKept`: `InputsTypeOK`, `TypedTextIsKept`, `SavedOnce`, `FreshIsCurrent`,
  `DiscardedStaysGone`. `CardsFollow`: `RenderedTypeOK`, `FrameShowsThePage`, `ActiveHasACard`,
  `OpenInputHasACard`, `WishIsShown`. `LinesShowTheInputs`: `SourceTypeOK`, `LoneInputIsShown`,
  `PromisedIsOpen`, `SelectionTypeOK`, `DiffTypeOK`, `LoneDraftIsShown`, `LinesAreTheFile`,
  `LinesAreColoured`. `MarkersDoAsTheySay`: `ClickHides`, `ClickShowsAll`, `MarkerCloses`,
  `OthersStay`, `NewDiffIsClean`, `SelectionIsSteady`. `SelectionIsCurrent`: `SentIsCurrent`,
  `ResumedIsShown`.
* The parts of `review_rules` are listed in `MCReviewRules`.

Bounds. `MaxStamp` of the store counts the calls that create an id or write a body: three are enough
for a draft, its edit and its publication, or for a thread, a reply and its retry; four add a second draft
or thread. Two calls and two servers are enough for every stale read, which needs one writer between a
read and a rewrite. For the inbox three writes make a thread with two comments, or a comment, a reply and
an edit of either. For the watcher five changes (the clock starts at one) create a directory, remove it,
create it again and fill it; a queue of two overflows within one handler. In `node_runtime` two requests
overlap in every way, five stamps are two requests beyond what is there at first, `MaxPending = 1` drops
a message, a file index lives for one tick of two, and two moves of git are a commit and its packing, or a
checkout between two reads. For the page two files, two loads and three requests suffice for an answer
that is overtaken by another one and by an event. Where a bound hides something it is said in section 5.
The runs turn deadlock checking off: when the bounds are used up, a model stops.

Fairness. Safety properties assume none. `PollersDrain` assumes that agents poll again and again and that
the server finishes the request it works on. `PictureSettles` assumes that the watcher's goroutine goes on
running (`WF_vars(Watcher)`). `RequestsEnd`, `ChangesAreAnnounced`, `GitRequestsEnd`, `ShutdownEnds` assume
that the event loop runs: file operations end, timers fire, checks go on, a git process ends or runs into
its time limit. `ListBecomesCurrent` assumes the page's timers, the server's answers (which may be errors)
and the events; `ExchangeEnds` that the page renders, the frame loads and messages are delivered. No
fairness makes anybody write, lose an answer or change a file.

## 4. Proofs

TLC checks the instances above; the theorems hold for every value of the constants. Each proof names an
inductive invariant, shows that the initial states satisfy it, that each action keeps it (one step or
lemma per action), and that it implies the property; the last step is temporal.

### The Go comment store (`CommentStoreProofs`, `OneServer`)

For any number of servers, from `StoreAssumption` alone:

* `TypeCorrect`: `[]TypeOK`.
* `DeletionHolds`: `[]ErasedStaysErased`. `DeletionInv` adds that every call that will confirm a deletion
  has the tombstone in the journal or among the events it is about to append (`Buries`); the journal only
  grows and every read honours tombstones, so no stale rewrite can bring the comment back.

For one server (`SoleServer`: all calls have the same home), with any number of calls, crashes and failing
file operations:

* `NothingSavedGetsLost`: `[]NothingSavedIsLost`, and `TextsGoForward`: `TextsMoveForward`. `KeepInv` says
  of each call between its steps what it is about to write: while a call holds the mutex nobody else is
  inside the store, what it read is still what the files have but for what it wrote itself, its `.tmp`
  contents include every row it read, and what it is going to answer is recorded or about to be. With two
  servers both are false, which is why `SoleServer` is there: the mutex is one per process
  (`comments.go`), and a second server drops a draft or comment when it rewrites a file from a stale read.

For one server and no failures (`NoFaults`: `MaxFaults = 0`):

* `JournalAnnouncesComments`: `[]JournalMatchesComments`, and `EveryRequestCountsOnce`:
  `[]RequestsCountOnce`. `JournalInv` adds to `KeepInv` what the call inside has done so far: the events
  it still has to append are those of the rows it has written. With a crash both are false (section 5).
* `StoreIsABoard`: `ImplementsBoard`, the refinement of `ReviewBoard`. The initial states map to its
  initial states; each step maps to one operation of the board or to a stutter: the rename of
  `comments.jsonl` to `Post`, `Edit` or `Publish`, the append of a tombstone to the deletion, the rename of
  the drafts file to a change of the drafts, and everything else to nothing anybody sees.

### The feedback inbox (`ReadRecordProofs`)

From `InboxAssumption`: `InboxTypeCorrect`; `RepeatsAreReads` (`[]RereadIsSeen`), from `InThePast`: no
comment and no receipt is from the future, and a receipt is at least as late as every version it was
written for, which makes the two notions of "the same feedback", a hash and a comparison of times, agree;
`FirstReadStays` (an action property), from the same invariant; `FeedbackIsAccountedFor`
(`[]NothingSlipsBy`), whose invariant `Accounted` speaks of every receipt and of the threads that were
listed and not yet noted.

### The Go watcher (`WatcherProofs`)

From `WatcherAssumption`, for any directories, files, changes, queue and faults: `WatcherTypeCorrect`;
`PictureIsCurrent` (`[]KnownIsCurrent`); `ReportedDirsMissNothing` (`[]ReportedDirsAreComplete`).
`PictureInv` says why a path that is not blind and differs from the picture is no mistake: an event for
it, or for a directory above it, is queued, or a scan is due (every such path is explained; at most one
rescan is under way; what exists has its directories). `WatchInv` says that a directory of the picture
is watched, or about to be, or that its removal is queued; `CompleteInv` joins the two for reported
directories. The last property was false as it was first stated, beyond the bounds of its run (seven
changes, a queue of six, no faults): the stale "remove" of an earlier directory takes the watches of the
directories below away that were created again meanwhile, and the late "remove" of their parent takes
the parent out of the picture although it is back, unwatched. The property now speaks of directories that
were not removed, nor those above them.

### Comments of the Node server (`NodeRuntimeProofs`)

`CommentsStayKept`: `[]CommentsAreKept`, from the assumptions of the module, for any number of requests,
ids and failures. A request is a plan, and `CommentsInv` is about the plans: a request says that a comment
or draft is there only after the task that writes it, drops a draft only after the comment made of it, and
has the journal entry of a comment right after it (`PlansFit`); a request that writes is in the chain
exactly once, only the first one there has read its file, and the file is still what it has read
(`ChainFits`); what was confirmed is stored, discarded or published, and what was announced exists
(`HistoryFits`); and as long as nothing failed, a comment without an event has a request that records it
next (`Recorded`).

### The other parts of the Node server (`NodeRuntimeProofs`)

* `WatcherIsRight`: `~SlowChecks => []WatcherKnows`. `WatcherInv`: at most one check per path is under way,
  it knows what is known, and what it has found is still so unless a message or timer of the path is
  waiting. With overlapping checks (`SlowChecks`), which need a look at a file that takes longer than the
  debounce of the next event, answers can arrive out of order and the property is false.
* `GitIsRight`: `[]GitAnswersFit`. `GitInv` follows each request: what it has gathered so far contains
  every entry that stayed changed (`Gathered`), so that an answer called complete is; a diff is of the file
  as it was after the request began; processes belong to requests, and a stop empties both. `ObjectsInv`
  (`RepositoryInv`, `BranchWasHead`, `CommitWasHead`): each thing that was read on the way from HEAD to the
  object was the current one at a moment of this request, so that the two sides of the diff are; and a
  refusal has its reason in the layout, a packed object or a missing one.
* `AnswersAreRight`: `[]ServerAnswers`. `FilesInv`: of the files that stayed the same, those a walk still
  has to look at are listed (`TodoIsListed`), those it found are wanted (`FoundIsWanted`) and those that are
  wanted are found or still to come, unless the limit is reached (`WantedIsFound`); a text is only read
  where the walk found it; an index is no older than the moment its listing began. `ServerInv` is
  inductive as it is stated.

Every part has to be kept by the steps of the other five, which leave its variables alone (`PartsGoOn`).

### The ledger and the read receipts of the Node server (`ReadRecordProofs`)

`NodeRecordsStand`: `MCSpec => []NodeRecordsHold`, for any calls, subjects, requests, threads, event ids,
failures and crashes, from `LedgerAssumption` (a finite number of calls at a time) and
`ReceiptsAssumption` (a request lists some threads, and the names of nobody and of replies are no requests
or ids). The two halves share no variable; `RecordsInv` is the conjunction of their invariants.

* The ledger (`LedgerInv`). `Keeps(rows, snapshot)` says that rows are what `compactSnapshot` may leave of a
  snapshot: nothing else, one row about each subject, and of each the last one that is still shown. It is an
  induction over the rows (`PutKeeps`, `PassedOverKeeps`, `CompactKeeps` by `SetInduction`), and it stays true
  when time passes. `LoneCallsKeepTheLedger` speaks of the published file only, and a rename publishes what
  was written long before. So `LoneCallFits` follows a call that is alone: what it is going to write keeps what
  it was sent, or what was saved last; the file it has opened is the `.tmp` file and has nothing in it before it
  is written; and `LoneCalls` says that a call that is alone is the only one, since whoever comes ends that for
  both. `UnusedIs` counts the files: a new `.tmp` file is none that has a name or a writer.
* The receipts (`ReceiptsInv`). A thread that was listed is noted, or still in the list of its request, or
  the journal could not be read (`ListedIsNoted`). Of an id whose deliveries never came together there is at
  most one request at a time, and if it waits to note a thread there is no receipt among the first events of
  that thread (`ApartIsOnce`): that is lost between the look-up and the append as soon as another request
  of the id is served, or the look-up met a torn journal. An event that is appended is the last of its thread
  (`JournalGrows`, `FirstsComeFirst`), so it makes no receipt one of the first ones. The chain has everybody
  once, its first one writes (`ChainGrows`, `ChainShrinks`), and every request in it has a thread to note.

### What a page keeps up to date (`UpkeepProofs`)

* `TreeStaysLoaded`: `[]TreeIsLoaded`, from `TreeAssumption` (the depth is a natural number). `TreeInv`
  speaks of the view, of the directories an event is on its way for and of those whose change went
  unseen: two listings under way differ in their version, and a directory has a current version exactly
  while that listing is under way (`LatestIsThere`); the root is loaded or being listed, unless its event
  was lost (`RootIsComing`); the latest listing shows the directory as it is or will (`CallsFit`), and so
  does a loaded directory without one (`LoadedFits`), but for a directory that was taken for the root;
  what a revealed file needs next is being listed (`RevealIsComing`). One action applies an answer and may
  then ask for another directory, so the lemmas are about views, and an action puts two of them together.
* `ReviewStaysCurrent`: `[]ReviewIsCurrent`, from `ReviewAssumption` (the documents are finitely many).
  `ReviewInv`: two calls for a difference of one file differ in their version, of the calls for the list
  one is the first and at most one another (`AsksFit`); the call with the current version of a file shows
  it as it is or will, and without one the difference on the page does, unless an event for it is queued,
  passed over or waits for the timer (`Follows`, `DiffsFit`); a file that waits has its timer running.
* `DialogsStand`: `[]DialogsHold`, and `LateFilesDoNotResume`: `ResumeYields`, from `FocusAssumption` (a
  search has at least one hit to mark) and `PaletteAssumption` (what can be found or done is a sequence).
  `FocusInv`: the search that waits for its timer or is under way is for what is typed now, and is one of
  both (`SearchesFit`), because closing, typing and switching the mode clear the one and abort the other; and
  of the loads that will take an input up again, those with the newest version are for what was asked for
  last (`WaysFit`). `PaletteInv`: the open dialog remembers the focus that will be given back, and when none
  is open the last frame that is asked for gives it back, or it is there, or the control is gone
  (`WillReturn`). That arrow keys mark every result is no invariant of steps but arithmetic: from any mark the
  n-th key leads n results on, modulo their number (`ArrowsGoRound`).
* `KeysStayInTheDialog`: `FocusIsKept`. `DialogsEnter` says that any frame that gives the focus to the page
  has one behind it in which the open dialog takes it; frames come all at once, and the last that moves the
  focus decides. `TrapKeeps`: from each element of a dialog the tabulator has an element to go to, but
  backwards from a mode when the first mode is not the selected one.

### The comments of a page (`WorkbenchProofs`)

`CommentsStayRight`: `[]CommentsAreRight`, from `CommentsAssumption` (at least one comment can be
written), for any documents, comments, requests in flight and events on their way. `CommentInv` is about
everything that carries a comment or draft: the server, the page, each request with its answer, and each
event.

* `NotesFit`: a name means one note at one path, wherever it occurs; a draft that is still to be saved has
  a name nobody uses; no pending draft has the name of anything that is or was public; what is known to be
  deleted is not published again; what an answer on its way took from the drafts is not among them. So no
  late answer can mix two notes up, or show a deleted one.
* `DraftsFit`: a draft the server has and the page has not is in an answer on its way; one the page has
  and the server has not was taken by a request on its way; one that is public as well was published by
  such a request. The exceptions are the drafts whose answer was lost or overtaken (`astray`). With no
  request left, this is `DraftsConverge`, and `NoneShownTwice` while none publishes.
* `CommentsFit`: while no notice waits and nothing was lost (`clouded`), every served load of the current
  revision has what the server has now, and a page that differs from the server has asked for all paths
  in the current revision. `CommentsConverge` alone is not inductive: it says nothing of a page that waits.

Removing one of several requests keeps the rest in order (`RemoveAtIs`), and the lemmas before the actions
say what an invariant part needs when requests, notes and events only become fewer (`NothingNew`,
`DraftsStay`).

### The files a page shows (`WorkbenchProofs`)

`EditorStaysRight`: `[]EditorIsRight`, from no assumption: for any files, any number of panes, and loads,
refreshes and events in any order. `FilesInv` joins what holds of tabs and panes at any time (`TabsOK`,
`LayoutOK`: one preview per pane, at least one pane) with `ContentFits`, about everything that carries a
file: the disk, the copy on the page, every load, refresh and fetch with its answer, every event.

* `EventsFit`, `KnownFits`: the last "add" or "unlink" of a file on its way tells whether the file is there,
  and with none on its way what the page knows of it is right, and so is the answer of the load that will
  be believed, the one with the newest version. With nothing on its way this is `MissingIsRight`.
* `CopiesFit`: a copy that was not left behind (`strays`) is right, or the file is known to be gone, or an
  event, a timer or a refresh will put it right (`Right`); the same of every answer that may become the
  copy, but for those older than it (`ReadsAreOld`). With nothing on its way this is `ShownIsCurrent`, which
  alone is not inductive: it says nothing of a page that still waits.
* `SessionsRestore` needs that every tab is in a pane and every pane has a name of its own, but its own
  hypothesis says so, so nothing is assumed of the layout. `NextPaneNumberFor` is a maximum, found by an
  induction over the panes (`WellFoundedInduction`), and a filtered tab list has the wanted tabs in their
  order, as below.

### What a reader types, and the cards and lines that show it (`ComposingProofs`)

`WhatIsTypedIsKept`: `[]WritingIsKept`, and `TheSelectionIsCurrent`: `SelectionIsCurrent`, both of a reader
who takes all the `Cautions` (`Careful`): without them the code loses text (`input_lost` and section 5), so
no theorem without them holds. They are for any places, panes, thoughts and versions, and, besides, from
`CautionsAssumption`. Sessions are a sequence that is filtered; by `KeepingPicks`, an induction over how
much of it was looked at (`SetInduction`), a filtered sequence has the wanted sessions in their order. From
there on, the lemmas on the operations (`EnterIs` to `RestoredIs`) speak of the text at each place, the
places that are open, the first of these, and the stale ones.

* `TextsFit`: a thought is at one place only; none that was discarded is anywhere; one that was saved is
  still in a session only while its answer is on its way to a composer that waits for it; a save that its
  composer does not wait for has left its session without the text it carries. So a save that fails can
  put its text back before what was typed since, and one that succeeds can discard its session.
* `ShowsFit`: what is being saved is shown in the pane that is used. It needs to know what is shown when no
  session is open: one thread, or threads that were published and have no session.
* `SelectionTexts`, `HeldFits`: the same of the composer beside a selection, which keeps the text in its
  session until it is saved; the selection that is held is of the version that is shown, or its session
  is stale, which is why nothing older is sent.

The cards and lines hold for any reader, without `Careful`. `CardsFollowThePage`: `[]CardsFollow`, from
`RenderedAssumption`, for any blocks, comments and numbers of messages. `CardsInv` says what may be on its
way between the page and its sandboxed frame:

* `FrameFits`, `CommentsFit`: the last state that was posted is that of the last rendering, and what the
  frame shows or asks for is a comment the page had. So a frame with an empty queue shows the page.
* `PendingFits`, `ActiveFits`, `EffectsFit`: a frame that waits has asked for a thread, or is told of one;
  a comment that became active without a card is told to the frame, and when it was told, the frame has
  asked for it; what a rendering leaves to be done, its effects do before the next message.
* `WishFits`: of the card that was asked for last, either the message is on its way with nothing after it
  that would take it back (`WishWaits`), or it is shown and no state on its way closes it (`WishStands`).

`TheLinesShowTheInputs`: `[]LinesShowTheInputs`, and `MarkersDoThat`: `MarkersDoAsTheySay`, from
`LinesAssumption` and `DiffAssumption`, for files, diffs and threads of any size; `LinesInv` has three parts:

* `SourceInv`: no two inputs are on the same lines; while a button is held, or clicked and heard, nothing is
  promised, and what is promised is open. The threads that a marker hides and shows are told apart by their
  keys: a new input has one beyond all saved threads (`DraftKey`).
* `HighlightsInv`: a job that will be heard makes the lines that are wanted now, and the surface keeps back
  only lines it was given while text is selected.
* `DiffInv`: the inputs of a diff are distinct. That one that overlaps no other is shown needs that it is
  the first of the line it leads (`Leads`), which the search for the first spanning row gives.

### Model-checked only

* Liveness (`PollersDrain`, `PictureSettles`, `WorkEnds`, `ExchangeEnds`, `ListBecomesCurrent`): fairness
  and `ENABLED` are out of the prover's reach.
* The rules of `review_rules`: recursive operators and folds, whose values for every input need induction
  over data. Where a proof above needs such a value, of a filter or of `compactSnapshot`, the model has a
  recursive function and the proof an induction over a set of numbers.

## 5. Limits, and what was met on the way

### Findings with a run

* `inbox_race`: a comment written between the listing of an inbox and the receipt of its thread is
  hidden from the agent, which was never given it (`schema.resolvers.go:226`;
  `docs/contracts/03-cli-or-api-contract.md:665-667`).
* `input_lost`: a composer of a rendered document empties its stored session before the server has the
  draft; a reload, or leaving it and a failing save, loses the text (`CodeCommentThread.tsx:207`;
  `docs/adr/17-ui-product-decisions.md:169`).

### Known gaps without a run

Each is a state some hypothesis, caution or history variable of the models excludes or names.

* Go store: two servers lose a draft or comment to a stale rewrite; a crash after the rename lets a
  retried reply be written twice and drafts be published again; a reply brings back a thread that was
  deleted between the look-up and the write; a torn line in the journal makes every later operation fail
  (not modelled). `PublishDrafts` gives one thread to all new drafts of a place
  (`docs/contracts/22-comment-thread-lifecycle.md:150`). A thread whose feedback was deleted and whose reply
  remains is never seen.
* Go watcher: a directory that is removed between its watch and its scan stays in `watchedDirs` and is
  never watched again; stale events of a directory tree that was created anew can drop a file that exists
  from the picture until its next event or a full scan; files written in the gap between the scan and the
  watches of the start are missed.
* Node store: overlapping publications publish a draft twice
  (`docs/contracts/22-comment-thread-lifecycle.md:91-93`); a torn journal stays unreadable. Overlapping calls
  of the review ledger undo each other or publish an emptied file; two overlapping deliveries of one event
  each note a receipt (`docs/contracts/22-comment-thread-lifecycle.md:49-51`).
* Node watcher: changes in the two seconds before the watch starts are missed; overlapping checks come out
  of order; the end of the worker is not noticed.
* Node git: the reading without git refuses linked worktrees, packed objects and workspaces below the
  repository root; a partial list lets the diff of an untracked file say "no change".
* Page, files: a late load overwrites newer content; an inactive cached file that was replaced atomically
  stays stale; a reconnection refreshes active paths only. Page, comments: an answer in flight brings back
  a published or deleted draft; a reconnection does not invalidate loads in flight.
* Page, tree: directories emptied by the listing of a parent stay empty while they are expanded
  (`docs/product/02-requirements.md:19`). Palette: Shift+Tab leaves the dialog from its mode bar; a result that
  disappears drops the focus. Jumps: a review target whose file arrives late opens its comment again after
  it was closed (`openReviewTarget`, `WorkbenchContainer.tsx:1604-1605`).
* Page, inputs: text typed before the workspace is known, in two panes, or during a failing save that the
  reader has left is lost; deleting the last draft of a thread discards what is typed in it. These are the
  `Cautions` of `CommentInputs`. A double click on another block of a Markdown document does not always
  replace the composer (`docs/adr/17-ui-product-decisions.md:170`).
* Page, lines: Shift-click never extends a range (`docs/contracts/04-data-model.md:164-165`, as the
  comments of `SourceLines` say); two typed comments that share a line have one composer; coloured lines
  stay those of the old file when the mouse is released elsewhere (`LinesStayTheFile`).
* Rules: headings in code fences, quotes and setext style are counted differently in outline and document;
  CRLF documents shift the source lines of blocks; a blank changed line is left out of a parsed diff; the
  statuses of a thread differ between server and page.

### Modelling limits

* Bodies, times, names and texts are numbers or model values; lengths are small. Layout, styling, logging
  and telemetry are left out.
* One page, one workspace: two tabs on one browser storage and two pages are only in
  `WorkbenchComments` (other pages' writes).
* In `RenderedThreads` a page that was rendered runs its effects before the next message (`settling`), and
  a frame loads more slowly than the page renders.
* A scan of the Go watcher, the reads at the start of a store operation and the filling of a `.tmp` file of
  the Go store are single steps.
* Not modelled: the Go server's activity feed, workspace events, attention, ledger, registry, git review
  and GraphQL conversion; the command line; browser presentation and stories; tooling and telemetry.

### Plan

1. Stores, inbox, watchers, the Node server, the page and the rules: modelled and checked.
2. Proofs of the servers and of the page: done, but for liveness.
3. Left to TLC: liveness and the rules.
