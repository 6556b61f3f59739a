---------------------------- MODULE NodeGitReview ----------------------------
(***************************************************************************)
(* The change list of the Node server:                                       *)
(* server/typescript/infrastructure/git-change-review.ts.                     *)
(*                                                                         *)
(* A request asks git for the repository, then for the status of the tree and  *)
(* looks at every untracked entry itself.  Each command is a process with a    *)
(* time limit; after a status that timed out, git is left alone for a while.   *)
(* The server may stop at any moment and leaves no process behind.             *)
(* The second part is what a diff is made from where no git is installed.     *)
(***************************************************************************)
EXTENDS Integers, Sequences, FiniteSets

CONSTANTS Entries,      \* what may have changed in the workspace
          Hidden,       \* those that are ignored or excluded
          Requests,     \* requests for the list or a diff
          Cooldown,     \* gitTimeoutCooldownMs, in ticks of the clock
          MaxTime       \* bound: ticks

ASSUME GitReviewAssumption == Hidden \subseteq Entries /\ Cooldown \in Nat \ {0} /\ MaxTime \in Nat

VARIABLES
    tree,           \* each entry: clean, tracked (changed), untracked, directory, repository (embedded) or link (outside)
    held,           \* for each request, the entries that did not change since it began, as they are
    clock, gitSuppressedUntil, stopped,
    request,        \* each request: the list or the diff of an entry, its step, and what it has gathered
    processes       \* git processes that run: the requests they run for

gitVars == <<tree, held, clock, gitSuppressedUntil, stopped, request, processes>>

States == {"clean", "tracked", "untracked", "directory", "repository", "link"}
IdleRequest == [step |-> "idle", want |-> "list", found |-> {}, partial |-> FALSE, answer |-> "none"]
Untracked(e) == tree[e] \in {"untracked", "directory", "repository", "link"}
TimeoutReason == "timeout"

GitTypeOK ==
    /\ tree \in [Entries -> States] /\ processes \subseteq Requests
    /\ \A r \in Requests : request[r].step \in {"idle", "repo", "full", "tracked", "classify", "diff", "head"}
    /\ \A r \in processes : request[r].step \in {"repo", "full", "tracked", "diff"}
    /\ gitSuppressedUntil <= clock + Cooldown

GitInit ==
    /\ tree \in [Entries -> {"clean", "tracked", "directory"}] /\ held = [r \in Requests |-> {}]
    /\ clock = 0 /\ gitSuppressedUntil = 0 /\ stopped = FALSE
    /\ request = [r \in Requests |-> IdleRequest] /\ processes = {}

To(r, step) == request' = [request EXCEPT ![r].step = step]
Steady == UNCHANGED <<tree, clock, stopped>>

\* (The fault of starting a process without looking whether the server stopped.)
RunAlways(r) == processes' = processes \cup {r}

\* tryGit: after stop nothing is started, and the command counts as timed out.
Run(r) == processes' = IF stopped THEN processes ELSE processes \cup {r}

IsGitSuppressed == clock < gitSuppressedUntil

\* readChanges, which readDiff begins with as well, unless its file is hidden.
ReadChanges(r, want) ==
    /\ request[r].step = "idle" /\ held' = [held EXCEPT ![r] = Entries]
    /\ UNCHANGED gitSuppressedUntil /\ Steady
    /\ IF want \in Hidden \/ IsGitSuppressed
       THEN /\ request' = [request EXCEPT ![r] =
                  [IdleRequest EXCEPT !.answer = IF want \in Hidden THEN "excluded" ELSE TimeoutReason]]
            /\ UNCHANGED processes
       ELSE /\ request' = [request EXCEPT ![r] = [IdleRequest EXCEPT !.step = "repo", !.want = want]]
            /\ Run(r)

\* (The fault of a process that is not waited for.)
EndsLate(r) == UNCHANGED processes

\* A command is answered by its process or, when the server stopped, by stop's cancellation.
Ends(r) == processes' = processes \ {r}

\* The git commands are tried in turn while they are not found; then, and on any other error, the
\* reason is the answer.  Without any git a diff is made from what git has stored.
GitFails(r) ==
    /\ r \in processes
    /\ \E reason \in {"no git", "no repository", "too much output"} :
          IF reason = "no git" /\ request[r].want # "list" /\ request[r].step # "diff" THEN To(r, "head")
          ELSE request' = [request EXCEPT ![r].step = "idle", ![r].answer = reason]
    /\ Ends(r) /\ UNCHANGED <<held, gitSuppressedUntil>> /\ Steady

ResolveGitWorkspace(r) ==
    /\ request[r].step = "repo" /\ r \in processes
    /\ To(r, "full") /\ UNCHANGED <<processes, held, gitSuppressedUntil>> /\ Steady

\* (The fault of a list without the untracked entries that does not say so.)
GatherAll(r, found, partial) ==
    request' = [request EXCEPT ![r].step = "classify", ![r].found = found]

Gather(r, found, partial) ==
    request' = [request EXCEPT ![r].step = "classify", ![r].found = found, ![r].partial = partial]

\* The status lists what is changed at this moment; that of tracked files only, as the fallback.
GitStatus(r) ==
    /\ request[r].step \in {"full", "tracked"} /\ r \in processes
    /\ LET full == request[r].step = "full"
       IN  Gather(r, {e \in Entries \ Hidden : tree[e] = "tracked" \/ (full /\ Untracked(e))}, ~full)
    /\ Ends(r) /\ UNCHANGED <<held, gitSuppressedUntil>> /\ Steady

\* (The fault of trying the same again.)
TryAgain(r) == UNCHANGED request

AfterFullStatus(r) == To(r, "tracked")

\* The limit of a command is over, or the server stopped: the full status is followed by the
\* other one, which needs a process of its own; of the others git is given a rest, but of a diff.
TimesOut(r) ==
    /\ request[r].step \in {"repo", "full", "tracked", "diff"}
    /\ IF request[r].step = "full"
       THEN /\ AfterFullStatus(r) /\ UNCHANGED gitSuppressedUntil
            /\ processes' = IF stopped THEN processes \ {r} ELSE processes \cup {r}
       ELSE /\ Ends(r) /\ request' = [request EXCEPT ![r].step = "idle", ![r].answer = TimeoutReason]
            /\ gitSuppressedUntil' = IF request[r].step = "diff" THEN gitSuppressedUntil ELSE clock + Cooldown
    /\ UNCHANGED held /\ Steady

\* What an entry counts as: a link to the outside is left out, a directory is replaced by its
\* files, and what is gone meanwhile is listed as a file.
Classified(e) == CASE tree[e] = "link" -> {} [] tree[e] = "repository" -> {<<e, "embedded-repo">>}
                   [] tree[e] = "directory" -> {<<e, "files">>} [] OTHER -> {<<e, "file">>}

DiffPossible(r, changes) == <<request[r].want, "file">> \in changes

\* The list is answered; a diff goes on with its file, which git reads, or the server if it is new.
ClassifyChange(r) ==
    LET changes == UNION {Classified(e) : e \in request[r].found}
        more == request[r].want # "list" /\ DiffPossible(r, changes)
    IN  /\ request[r].step = "classify"
        /\ request' = [request EXCEPT ![r].found = changes, ![r].step = IF more THEN "diff" ELSE "idle",
              ![r].answer = IF request[r].want # "list" THEN "no change"
                            ELSE IF request[r].partial THEN "partial" ELSE "complete"]
        /\ IF more THEN Run(r) ELSE UNCHANGED processes
        /\ UNCHANGED <<held, gitSuppressedUntil>> /\ Steady

ReadGitDiff(r) ==
    /\ request[r].step = "diff" /\ r \in processes /\ Ends(r)
    /\ request' = [request EXCEPT ![r].step = "idle",
          ![r].answer = IF tree[request[r].want] \in {"tracked", "untracked"} THEN "diff" ELSE "no change"]
    /\ UNCHANGED <<held, gitSuppressedUntil>> /\ Steady

\* A file that git has not stored has no such diff.
ReadHeadDiffWithoutGit(r) ==
    /\ request[r].step = "head"
    /\ request' = [request EXCEPT ![r].step = "idle",
          ![r].answer = CASE tree[request[r].want] = "tracked" -> "diff"
                          [] tree[request[r].want] = "clean" -> "no change" [] OTHER -> "not stored"]
    /\ UNCHANGED <<processes, held, gitSuppressedUntil>> /\ Steady

\* A file or directory of the workspace changes.
TreeChanges(e, state) ==
    /\ tree[e] # state /\ tree' = [tree EXCEPT ![e] = state]
    /\ held' = [r \in Requests |-> held[r] \ {e}]
    /\ UNCHANGED <<clock, gitSuppressedUntil, stopped, request, processes>>

Tick ==
    /\ clock < MaxTime /\ clock' = clock + 1
    /\ UNCHANGED <<tree, held, gitSuppressedUntil, stopped, request, processes>>

Stop == stopped' = TRUE /\ processes' = {}

GitReviewStops == ~stopped /\ Stop /\ UNCHANGED <<tree, held, clock, gitSuppressedUntil, request>>

GitNext ==
    \/ \E r \in Requests :
          \/ \E want \in Entries \cup {"list"} : ReadChanges(r, want)
          \/ GitFails(r) \/ ResolveGitWorkspace(r) \/ GitStatus(r) \/ TimesOut(r)
          \/ ClassifyChange(r) \/ ReadGitDiff(r) \/ ReadHeadDiffWithoutGit(r)
    \/ \E e \in Entries, state \in States : TreeChanges(e, state)
    \/ Tick \/ GitReviewStops

\* A process ends or its limit is over, and the answer is put together.
GitFairness == \A r \in Requests :
    WF_gitVars(GitFails(r) \/ ResolveGitWorkspace(r) \/ GitStatus(r) \/ TimesOut(r) \/ ClassifyChange(r)
                \/ ReadGitDiff(r) \/ ReadHeadDiffWithoutGit(r))

-----------------------------------------------------------------------------
(* Properties *)

\* When the server has stopped no git process is left, whatever the requests were doing.
StoppedLeavesNoProcess == stopped => processes = {}

\* A list that does not say it is partial has every reviewable change that was there all the
\* time the list was read, and each of its entries was hidden from nobody.
CompleteIsComplete ==
    \A r \in Requests : request[r].answer = "complete" =>
        \A e \in held[r] \ Hidden : tree[e] \notin {"clean", "link"} => \E change \in request[r].found : change[1] = e

\* The answer to a diff of a file that stayed the same all the time fits it, unless the list was
\* partial: a changed file has a diff, any other entry has none.
DiffFitsTheFile ==
    \A r \in Requests : LET want == request[r].want IN
        want # "list" /\ want \in held[r] /\ ~request[r].partial =>
            /\ request[r].answer = "diff" => tree[want] \in {"tracked", "untracked"}
            /\ request[r].answer = "no change" /\ request[r].step = "idle" =>
                  want \in Hidden \/ tree[want] \notin {"tracked", "untracked"}

\* Every request is answered in the end: timeouts, failures and the stop leave none waiting.
GitRequestsEnd == \A r \in Requests : request[r].step # "idle" ~> request[r].step = "idle"

-----------------------------------------------------------------------------
(***************************************************************************)
(* The diff of a file where no git is installed: the Node server reads the   *)
(* last commit's copy from the files of the repository itself                *)
(* (readHeadDiffWithoutGit and what it calls, in                              *)
(* server/typescript/infrastructure/git-change-review.ts), one file after    *)
(* another, while git is used from elsewhere on the same directory.           *)
(*                                                                         *)
(* A commit is a number, and what it has at the path of the request is a text *)
(* or one of the things a path can be that is no file.                       *)
(***************************************************************************)

CONSTANTS Branches, Texts, MaxCommits, MaxGitMoves   \* the last two are bounds

\* A branch is no commit.
ASSUME ObjectsAssumption == Branches \cap Nat = {} /\ MaxCommits \in Nat /\ MaxGitMoves \in Nat

VARIABLES
    layout,     \* what the workspace's .git is
    commits,    \* what each commit has at the path
    checkedOut, \* HEAD: a branch, or a commit if it is detached
    looseRefs, packedRefs,      \* the commit of a branch, in its own file and in packed-refs
    loose, packed,              \* objects, each in a file of its own or in a pack
    working,                    \* the file of the workspace
    gitMoves,                   \* how often git or an editor is used from here on
    reading,                    \* the request
    heads, works                \* history: commits that were HEAD's, files there were, since it began

objectVars == <<layout, commits, checkedOut, looseRefs, packedRefs, loose, packed, working, gitMoves,
                reading, heads, works>>

NoText == "no file"
NoCommit == 0
Stored == Texts \cup {"binary", "link", "under a file", "submodule", NoText}
Layouts == {"directory", "moved", "linked worktree", "none"}
NotReading == [step |-> "idle", branch |-> NoCommit, commit |-> NoCommit, head |-> NoText, answer |-> "none"]

\* The objects that are needed to reach what a commit has at the path.
Objects(c) == {<<"commit", c>>, <<"tree", c>>, <<"subtree", commits[c]>>, <<"blob", commits[c]>>}

ObjectsTypeOK ==
    /\ \A c \in DOMAIN commits : commits[c] \in Stored
    /\ \A b \in Branches : {looseRefs[b], packedRefs[b]} \subseteq DOMAIN commits \cup {NoCommit}
    /\ loose \cap packed = {} /\ (reading.step # "idle" => reading.answer = "none")

TipOf(branch) == IF looseRefs[branch] # NoCommit THEN looseRefs[branch] ELSE packedRefs[branch]
HeadCommit == IF checkedOut \in Branches THEN TipOf(checkedOut) ELSE checkedOut

ObjectsInit ==
    /\ layout \in Layouts /\ \E v \in Stored : commits = <<v>>
    /\ \E main \in Branches :
          /\ checkedOut = main
          /\ looseRefs = [b \in Branches |-> IF b = main THEN 1 ELSE NoCommit]
    /\ packedRefs = [b \in Branches |-> NoCommit]
    /\ loose = Objects(1) /\ packed = {} /\ working \in Texts \cup {"binary"}
    /\ reading = NotReading /\ heads = {} /\ works = {}

\* What git does is seen in the history as soon as it is done.
Witnessed == heads' = heads \cup {HeadCommit'} /\ works' = works \cup {working'}
\* (Bound: until there is an answer.)
GitIsUsed == reading.answer = "none" /\ gitMoves > 0 /\ gitMoves' = gitMoves - 1 /\ UNCHANGED <<layout, reading>>

-----------------------------------------------------------------------------
(* Git and an editor, from elsewhere *)

Edit(text) ==
    /\ GitIsUsed /\ working' = text
    /\ UNCHANGED <<commits, checkedOut, looseRefs, packedRefs, loose, packed>> /\ Witnessed

\* The new objects are written first and the reference last; a reference has its own file then.
Commit(stored) ==
    LET new == Len(commits) + 1
    IN  /\ Len(commits) < MaxCommits /\ GitIsUsed /\ commits' = Append(commits, stored)
        /\ loose' = loose \cup ({<<"commit", new>>, <<"tree", new>>, <<"subtree", stored>>,
                                 <<"blob", stored>>} \ packed)
        /\ IF checkedOut \in Branches
           THEN looseRefs' = [looseRefs EXCEPT ![checkedOut] = new] /\ UNCHANGED checkedOut
           ELSE checkedOut' = new /\ UNCHANGED looseRefs
        /\ UNCHANGED <<packedRefs, packed, working>> /\ Witnessed

\* Another branch, a new one for the same commit, or a commit of no branch.
Checkout(target) ==
    /\ GitIsUsed /\ target # checkedOut /\ checkedOut' = target
    /\ looseRefs' = IF target \in Branches /\ TipOf(target) = NoCommit
                    THEN [looseRefs EXCEPT ![target] = HeadCommit] ELSE looseRefs
    /\ UNCHANGED <<commits, packedRefs, loose, packed, working>> /\ Witnessed

\* The branch is moved to an older commit.
Reset(c) ==
    /\ GitIsUsed /\ checkedOut \in Branches /\ looseRefs' = [looseRefs EXCEPT ![checkedOut] = c]
    /\ UNCHANGED <<commits, checkedOut, packedRefs, loose, packed, working>> /\ Witnessed

\* References are packed before their own files are removed, and objects likewise.
PackRefs ==
    /\ GitIsUsed /\ packedRefs' = [b \in Branches |-> TipOf(b)]
    /\ looseRefs' = [b \in Branches |-> NoCommit]
    /\ UNCHANGED <<commits, checkedOut, loose, packed, working>> /\ Witnessed

CollectGarbage ==
    /\ GitIsUsed /\ packed' = packed \cup loose /\ loose' = {}
    /\ UNCHANGED <<commits, checkedOut, looseRefs, packedRefs, working>> /\ Witnessed

-----------------------------------------------------------------------------
(* The request *)

Repository == UNCHANGED <<layout, commits, checkedOut, looseRefs, packedRefs, loose, packed, working, gitMoves>>
Reads == Repository /\ UNCHANGED <<heads, works>>

BeginReading ==
    /\ reading = NotReading /\ reading' = [NotReading EXCEPT !.step = "dotgit"]
    /\ heads' = {HeadCommit} /\ works' = {working} /\ Repository

On(step) == reading' = [reading EXCEPT !.step = step]
\* (The fault of an answer that does not end the request.)
RepliesOnly(answer) == reading' = [reading EXCEPT !.answer = answer]
Replies(answer) == reading' = [reading EXCEPT !.step = "idle", !.answer = answer]

\* A .git file leads to the directory that it names; that of a linked worktree has a HEAD, but
\* neither references nor objects.
ResolveGitDir ==
    /\ reading.step = "dotgit" /\ Reads
    /\ IF layout = "none" THEN Replies("not a repository") ELSE On("HEAD")

ReadHead ==
    /\ reading.step = "HEAD" /\ Reads
    /\ reading' = IF checkedOut \in Branches
                  THEN [reading EXCEPT !.step = "ref", !.branch = checkedOut]
                  ELSE [reading EXCEPT !.step = "commit", !.commit = checkedOut]

RefsAreHere == layout # "linked worktree"

\* (The fault of looking into packed-refs first.)
ReadPackedFirst ==
    /\ reading.step = "ref" /\ Reads
    /\ reading' = IF RefsAreHere /\ packedRefs[reading.branch] # NoCommit
                  THEN [reading EXCEPT !.step = "commit", !.commit = packedRefs[reading.branch]]
                  ELSE IF RefsAreHere /\ looseRefs[reading.branch] # NoCommit
                  THEN [reading EXCEPT !.step = "commit", !.commit = looseRefs[reading.branch]]
                  ELSE [reading EXCEPT !.step = "idle", !.answer = "no such reference"]

\* (The fault of a branch without a file of its own taken for none.)
ReadLooseRef ==
    /\ reading.step = "ref" /\ Reads
    /\ reading' = IF RefsAreHere /\ looseRefs[reading.branch] # NoCommit
                  THEN [reading EXCEPT !.step = "commit", !.commit = looseRefs[reading.branch]]
                  ELSE [reading EXCEPT !.step = "idle", !.answer = "no such reference"]

ReadRef ==
    /\ reading.step = "ref" /\ Reads
    /\ reading' = IF RefsAreHere /\ looseRefs[reading.branch] # NoCommit
                  THEN [reading EXCEPT !.step = "commit", !.commit = looseRefs[reading.branch]]
                  ELSE [reading EXCEPT !.step = "packed-refs"]

ReadPackedRef ==
    /\ reading.step = "packed-refs" /\ Reads
    /\ reading' = IF RefsAreHere /\ packedRefs[reading.branch] # NoCommit
                  THEN [reading EXCEPT !.step = "commit", !.commit = packedRefs[reading.branch]]
                  ELSE [reading EXCEPT !.step = "idle", !.answer = "no such reference"]

\* An object that is not in a file of its own is taken for a packed one.
ReadGitObject(object, found) ==
    IF RefsAreHere /\ object \in loose THEN found ELSE Replies("packed")

ReadCommit ==
    /\ reading.step = "commit" /\ Reads
    /\ ReadGitObject(<<"commit", reading.commit>>, On("tree"))

\* What the entry of a tree is, of which only a file is read.
FoundInTree(stored) ==
    IF stored = NoText THEN Replies("not committed")
    ELSE IF stored = "link" THEN Replies("not a file")
    ELSE On("blob")

\* The tree, and the one in it: a path below a file has no tree there, one in a submodule none here.
FindBlobInTree ==
    LET stored == commits[reading.commit]
    IN  /\ Reads
        /\ \/ /\ reading.step = "tree" /\ ReadGitObject(<<"tree", reading.commit>>, On("subtree"))
           \/ /\ reading.step = "subtree"
              /\ CASE stored = "submodule" -> Replies("packed")
                   [] stored = "under a file" ->
                        ReadGitObject(<<"subtree", stored>>, Replies("invalid tree"))
                   [] OTHER -> ReadGitObject(<<"subtree", stored>>, FoundInTree(stored))

ReadBlob ==
    /\ reading.step = "blob" /\ Reads
    /\ LET stored == commits[reading.commit]
       IN  ReadGitObject(<<"blob", stored>>, reading' = [reading EXCEPT !.step = "working", !.head = stored])

\* The file of the workspace comes last: what is missing is deleted, what is equal unchanged.
CompareWithWorking ==
    /\ reading.step = "working" /\ Reads
    /\ Replies(IF "binary" \in {reading.head, working} THEN "binary"
               ELSE IF working = NoText THEN "deleted"
               ELSE IF working = reading.head THEN "no change"
               ELSE "diff")

ObjectsNext ==
    \/ \E text \in Texts \cup {NoText} : Edit(text)
    \/ \E stored \in Texts \cup {NoText} : Commit(stored)
    \/ \E target \in Branches \cup {1} : Checkout(target)
    \/ \E c \in DOMAIN commits : Reset(c)
    \/ PackRefs \/ CollectGarbage
    \/ BeginReading \/ ResolveGitDir \/ ReadHead \/ ReadRef \/ ReadPackedRef
    \/ ReadCommit \/ FindBlobInTree \/ ReadBlob \/ CompareWithWorking

-----------------------------------------------------------------------------
(* Properties *)

AnsweredWith(answers) == reading.step = "idle" /\ reading.answer \in answers
SomeHead(P(_)) == \E c \in heads : P(commits[c])
SomeWork(P(_)) == \E w \in works : P(w)

\* What the answer says of the last commit and of the file was so at some moment of the request,
\* whatever git did to the references and objects meanwhile.
SidesAreOfTheRequest ==
    /\ AnsweredWith({"deleted", "no change", "diff"}) =>
          SomeHead(LAMBDA stored : stored = reading.head)
    /\ AnsweredWith({"deleted"}) => NoText \in works
    /\ AnsweredWith({"no change"}) => reading.head \in works
    /\ AnsweredWith({"diff"}) => SomeWork(LAMBDA w : w \in Texts \ {reading.head})
    /\ AnsweredWith({"not committed"}) => SomeHead(LAMBDA stored : stored = NoText)

\* A diff that is refused although the file is stored needs git: its objects are packed, or the
\* repository is elsewhere.
RefusedNeedsGit ==
    layout \in {"directory", "moved"} =>
        /\ ~AnsweredWith({"no such reference", "not a repository"})
        /\ AnsweredWith({"packed"}) =>
              packed # {} \/ SomeHead(LAMBDA stored : stored = "submodule")
        /\ AnsweredWith({"not a file", "invalid tree"}) =>
              SomeHead(LAMBDA stored : stored \in {"link", "under a file"})

=============================================================================
