---------------------------- MODULE MCNodeRuntime ----------------------------
(***************************************************************************)
(* The parts of the Node server share nothing but the workspace they read:    *)
(* each is checked from its own initial states while the others stand still,   *)
(* in states where nothing is asked of them.                                  *)
(***************************************************************************)
EXTENDS NodeComments, NodeWatcher, NodeGitReview, NodeFiles, NodeServer

CONSTANTS c1, c2, p, q, b1

VARIABLE concern    \* which of them a behaviour is about

runtimeVars == <<vars, watcherVars, gitVars, filesVars, serverVars, objectVars, concern>>

MCInit ==
    /\ Init /\ WatcherInit /\ GitInit /\ FilesInit /\ ServerInit /\ ObjectsInit
    /\ concern \in {"comments", "watcher", "git", "files", "server", "objects"}
    /\ concern = "comments" \/ drafts = {}
    /\ concern = "git" \/ tree = [e \in Entries |-> "clean"]
    /\ concern = "files" \/ disk = [n \in Names |-> "gone"]
    /\ gitMoves = IF concern = "objects" THEN MaxGitMoves ELSE 0
    /\ concern = "objects" \/ (layout = "none" /\ working = "binary" /\ commits = <<NoText>> /\ checkedOut = b1)
    /\ IF concern = "watcher" THEN worker = "starting"
       ELSE worker = "none" /\ onDisk = [path \in Paths |-> "none"]

MCNext ==
    /\ UNCHANGED concern
    /\ \/ concern = "comments" /\ Next
          /\ UNCHANGED <<watcherVars, gitVars, filesVars, serverVars, objectVars>>
       \/ concern = "watcher" /\ WatcherNext
          /\ UNCHANGED <<vars, gitVars, filesVars, serverVars, objectVars>>
       \/ concern = "git" /\ GitNext
          /\ UNCHANGED <<vars, watcherVars, filesVars, serverVars, objectVars>>
       \/ concern = "files" /\ FilesNext
          /\ UNCHANGED <<vars, watcherVars, gitVars, serverVars, objectVars>>
       \/ concern = "server" /\ ServerNext
          /\ UNCHANGED <<vars, watcherVars, gitVars, filesVars, objectVars>>
       \/ concern = "objects" /\ ObjectsNext
          /\ UNCHANGED <<vars, watcherVars, gitVars, filesVars, serverVars>>

MCFairness == (\A c \in Calls : WF_vars(Step(c))) /\ WatcherFairness /\ GitFairness /\ ServerFairness

MCSpec == MCInit /\ [][MCNext]_runtimeVars /\ MCFairness

-----------------------------------------------------------------------------
(* What is checked, by what it is about *)

\* What the server has confirmed is stored, whatever fails: comments, the drafts of a publication
\* that is cut short, and what subscribers were told of.
CommentsAreKept ==
    TypeOK /\ ConfirmedCommentsAreKept /\ SavedDraftsAreKept /\ AnnouncedCommentsExist /\ JournalTellsEveryComment

\* The watcher knows the paths it has looked at as they are, and its subscribers know them.
WatcherKnows == WatcherTypeOK /\ QuietIsKnown /\ ToldIsKnown

\* What is said of the changes against a commit was so while it was looked for, with git and
\* without it, and a server that stopped has no git process left.
GitAnswersFit ==
    /\ GitTypeOK /\ StoppedLeavesNoProcess /\ CompleteIsComplete /\ DiffFitsTheFile
    /\ ObjectsTypeOK /\ SidesAreOfTheRequest /\ RefusedNeedsGit

\* Searches and trees are right about every file that stayed the same, fail for a reason, and
\* listeners get every event as long as their stream is open.
ServerAnswers ==
    FilesTypeOK /\ AnswersFitWhatStayed /\ IndexIsRecent /\ FailuresHaveACause /\ ServerTypeOK /\ StreamsMissNothing

\* Requests end, changes are announced, git is waited for no longer than it may take, and the
\* server stops when it is told to.
WorkEnds == RequestsEnd /\ ChangesAreAnnounced /\ GitRequestsEnd /\ ShutdownEnds

=============================================================================
