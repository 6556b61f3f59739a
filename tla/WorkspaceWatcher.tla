-------------------------- MODULE WorkspaceWatcher --------------------------
(***************************************************************************)
(* The goroutine that keeps a server's picture of its workspace up to date *)
(* (src/server/workspace_watcher.go).  The platform (inotify, kqueue)      *)
(* reports changes of the directories it was asked to watch, not of those  *)
(* below them, so the watcher scans, adds watches for the directories it   *)
(* finds, and scans again where an event announces a new directory.        *)
(* Meanwhile files come and go.                                            *)
(*                                                                         *)
(* Paths are sequences of names.  A scan and the handling of one event are *)
(* steps; every watch that is added is a step of its own.                  *)
(***************************************************************************)
EXTENDS Naturals, Sequences

CONSTANTS
    Dirs,        \* directories that may exist below the root
    Files,       \* files that may exist
    MaxChanges,  \* bound: changes of the workspace
    MaxQueue,    \* events the platform keeps
    MaxFaults    \* bound: lost events and refused watches

Root == <<>>

Parent(p) == SubSeq(p, 1, Len(p) - 1)

Paths == Dirs \cup Files

ASSUME WatcherAssumption ==
    /\ \A p \in Paths : p \in Seq(STRING) /\ Len(p) > 0 /\ Parent(p) \in Dirs \cup {Root}
    /\ Dirs \cap Files = {}
    /\ MaxChanges \in Nat /\ MaxQueue \in Nat /\ MaxFaults \in Nat

VARIABLES
    disk,       \* time of the last change of each path; 0: there is none
    clock,      \* changes so far
    watches,    \* directories the platform watches
    queue,      \* its events and errors, oldest first
    step,       \* what the watcher is doing
    known,      \* previous: the entries the watcher has announced
    watched,    \* watchedDirs: directories it believes are watched
    todo,       \* directories it is about to watch ...
    rescan,     \* ... and the one it then scans, if any
    scheduled,  \* reconcileScheduled
    ready,      \* watchReady is closed: browsers are told "connected"
    faults,     \* lost events and refused watches so far
    blind,      \* paths that changed unwatched since they were last scanned
    reported,   \* directories whose creation is or was in the queue
    replaced    \* directories that were removed at some time

platform == <<watches, queue, faults>>
picture == <<step, known, watched, todo, rescan, scheduled, ready>>
history == <<reported, replaced>>
vars == <<disk, clock, platform, picture, blind, history>>

\* watchPathHasPrefix, or the path itself.
Within(d) == {p \in Paths : Len(d) <= Len(p) /\ SubSeq(p, 1, Len(d)) = d}

Exists(p) == p # Root => disk[p] > 0

-----------------------------------------------------------------------------
(* Changes of the workspace *)

\* The platform reports a change in a watched directory, or loses the event and
\* reports that instead.  It is silent about all others: new are the paths that
\* have changed.
Report(op, p, new) ==
    IF Parent(p) \in watches \/ (op = "remove" /\ p \in watches)
    THEN /\ blind' = blind \ new
         /\ \/ /\ Len(queue) < MaxQueue
               /\ queue' = Append(queue, [op |-> op, path |-> p])
               /\ reported' = IF op = "create" THEN reported \cup ({p} \cap Dirs)
                              ELSE reported \ {p}
               /\ UNCHANGED faults
            \/ /\ Len(queue) >= MaxQueue /\ faults < MaxFaults
               /\ queue' = Append(queue, [op |-> "error", path |-> Root])
               /\ faults' = faults + 1
               /\ reported' = reported \ {p}
    ELSE /\ blind' = blind \cup new
         /\ reported' = reported \ {p}
         /\ UNCHANGED <<queue, faults>>

Change(p, new, at) ==
    /\ clock < MaxChanges
    /\ clock' = clock + 1
    /\ disk' = [q \in Paths |-> IF q \in new THEN at ELSE disk[q]]
    /\ UNCHANGED picture

\* A file or directory is created.
Create(p) ==
    /\ ~Exists(p) /\ Exists(Parent(p))
    /\ Change(p, {p}, clock + 1)
    /\ Report("create", p, {p})
    /\ UNCHANGED <<watches, replaced>>

Write(f) ==
    /\ f \in Files /\ Exists(f)
    /\ Change(f, {f}, clock + 1)
    /\ Report("write", f, {f})
    /\ UNCHANGED <<watches, replaced>>

\* A directory is moved here with all there is in it.
Arrive(d, new) ==
    /\ d \in Dirs /\ ~Exists(d) /\ Exists(Parent(d))
    /\ d \in new /\ new \subseteq Within(d)
    /\ \A p \in new \ {d} : Parent(p) \in new
    /\ Change(d, new, clock + 1)
    /\ Report("create", d, new)
    /\ UNCHANGED <<watches, replaced>>

\* Something is removed; with a directory goes its watch.
Remove(p) ==
    /\ Exists(p) /\ \A q \in Within(p) \ {p} : ~Exists(q)
    /\ Change(p, {p}, 0)
    /\ Report("remove", p, {p})
    /\ watches' = watches \ {p}
    /\ replaced' = replaced \cup ({p} \cap Dirs)

-----------------------------------------------------------------------------
(* The watcher *)

\* The workspace as a scan finds it.
Scanned(ps) == [p \in Paths |-> IF p \in ps THEN disk[p] ELSE known[p]]

\* Paths that an event still in the queue will remove from the picture.
Doomed == UNION {Within(queue[i].path) :
                    i \in {j \in DOMAIN queue : queue[j].op = "remove"}}

\* The fault of watching whatever was found.
ReconcileWatchingAll(ps) ==
    /\ known' = Scanned(ps)
    /\ blind' = blind \ (ps \ Doomed)
    /\ todo' = {p \in ps : Exists(p)}

\* reconcileWorkspace and reconcileWatchSubtree: the picture of ps is replaced
\* and watches are due for the directories in it.
Reconcile(ps) ==
    /\ known' = Scanned(ps)
    /\ blind' = blind \ (ps \ Doomed)
    /\ todo' = {d \in Dirs \cap ps : Exists(d)}

\* watchWorkspace begins by watching the root; if that is refused it polls.
Start ==
    /\ step = "start"
    /\ \/ step' = "scan" /\ watches' = {Root} /\ watched' = {Root}
       \/ step' = "poll" /\ UNCHANGED <<watches, watched>>
    /\ UNCHANGED <<disk, clock, queue, faults, known, todo, rescan,
                   scheduled, ready, blind, history>>

\* The startup reconciliation.
StartupScan ==
    /\ step = "scan"
    /\ step' = "work"
    /\ Reconcile(Paths)
    /\ UNCHANGED <<disk, clock, platform, watched, rescan, scheduled, ready,
                   history>>

\* addDirectoryWatch, in the order of the paths: parents first.  A directory believed
\* to be watched is left alone; adding the watch fails when the directory is gone,
\* or when the platform refuses.
AddWatch(d) ==
    /\ step = "work" /\ d \in todo
    /\ \A q \in todo : d \in Within(q) => q = d
    /\ todo' = todo \ {d}
    /\ \/ d \notin watched /\ Exists(d)
          /\ watches' = watches \cup {d} /\ watched' = watched \cup {d}
          /\ UNCHANGED faults
       \/ (d \in watched \/ ~Exists(d)) /\ UNCHANGED <<watches, watched, faults>>
       \/ d \notin watched /\ Exists(d) /\ faults < MaxFaults
          /\ faults' = faults + 1 /\ UNCHANGED <<watches, watched>>
    /\ UNCHANGED <<disk, clock, queue, step, known, rescan, scheduled,
                   ready, blind, history>>

AfterRescan ==
    /\ rescan' = {}
    /\ UNCHANGED <<disk, clock, platform, step, watched, scheduled, ready, history>>

\* The fault of announcing the new directory without looking into it.
RescanDirOnly ==
    /\ step = "work" /\ todo = {}
    /\ \E d \in rescan : Reconcile({d})
    /\ AfterRescan

\* The focused reconciliation after a new directory was watched.
Rescan ==
    /\ step = "work" /\ todo = {}
    /\ \E d \in rescan : Reconcile(Within(d))
    /\ AfterRescan

Idle == step = "work" /\ todo = {} /\ rescan = {}

\* removeWatchPath: the path and all below it, when the path is known.
HandleRemove(p) ==
    LET gone == IF known[p] > 0 THEN {q \in Within(p) : known[q] > 0} ELSE {}
    IN  /\ known' = [q \in Paths |-> IF q \in gone THEN 0 ELSE known[q]]
        /\ watched' = watched \ gone
        /\ watches' = watches \ (watched \cap gone)
        /\ UNCHANGED <<todo, rescan, blind>>

\* The path is looked at now, not as it was when the event happened.
HandleUpdate(p) ==
    /\ \/ ~Exists(p) /\ UNCHANGED <<known, todo, rescan>>
       \/ Exists(p) /\ p \in Files
          /\ known' = [known EXCEPT ![p] = disk[p]]
          /\ UNCHANGED <<todo, rescan>>
       \/ Exists(p) /\ p \in Dirs
          /\ todo' = {p} /\ rescan' = {p}
          /\ UNCHANGED known
    /\ UNCHANGED <<watched, watches, blind>>

\* handlePlatformWatchEvent, while the startup queue is drained and later.
TakeEvent ==
    /\ Idle /\ queue # <<>> /\ Head(queue).op # "error"
    /\ queue' = Tail(queue)
    /\ IF Head(queue).op = "remove" THEN HandleRemove(Head(queue).path)
       ELSE HandleUpdate(Head(queue).path)
    /\ UNCHANGED <<disk, clock, faults, step, scheduled, ready, history>>

\* drainStartupWatchEvents ends when nothing is waiting in its channels; an event
\* may be on its way there.
BecomeReady ==
    /\ Idle /\ ~ready
    /\ ready' = TRUE
    /\ UNCHANGED <<disk, clock, platform, step, known, watched, todo, rescan,
                   scheduled, blind, history>>

TakeAnError ==
    /\ Idle /\ queue # <<>> /\ Head(queue).op = "error"
    /\ queue' = Tail(queue)

\* An error during startup is answered by a reconciliation at once ...
StartupError ==
    /\ ~ready /\ TakeAnError
    /\ Reconcile(Paths)
    /\ UNCHANGED <<disk, clock, watches, faults, step, watched, rescan,
                   scheduled, ready, history>>

\* The fault of logging an error and nothing else.
TakeErrorOnly ==
    /\ ready /\ TakeAnError
    /\ UNCHANGED <<disk, clock, watches, faults, step, known, watched, todo,
                   rescan, scheduled, ready, blind, history>>

\* ... and later by one that is scheduled.
TakeError ==
    /\ ready /\ TakeAnError
    /\ scheduled' = TRUE
    /\ UNCHANGED <<disk, clock, watches, faults, step, known, watched, todo,
                   rescan, ready, blind, history>>

TimerFires ==
    /\ Idle /\ scheduled
    /\ scheduled' = FALSE
    /\ Reconcile(Paths)
    /\ UNCHANGED <<disk, clock, platform, step, watched, rescan, ready,
                   history>>

Scan ==
    /\ step = "poll"
    /\ known' = disk
    /\ blind' = {}
    /\ ready' = TRUE
    /\ UNCHANGED <<disk, clock, platform, step, watched, todo, rescan, scheduled,
                   history>>

\* The fault of not scanning again.
PollOnce == ~ready /\ Scan

\* watchWorkspaceByPolling.
Poll == Scan

-----------------------------------------------------------------------------

Init ==
    /\ disk \in [Paths -> {0, 1}]
    /\ \A p \in Paths : disk[p] > 0 => Exists(Parent(p))
    /\ clock = 1 /\ faults = 0
    /\ watches = {} /\ queue = <<>>
    /\ step = "start"
    /\ known = [p \in Paths |-> 0]
    /\ watched = {} /\ todo = {} /\ rescan = {} /\ scheduled = FALSE
    /\ ready = FALSE /\ blind = {} /\ reported = {} /\ replaced = {}

Watcher ==
    \/ Start \/ StartupScan \/ Rescan \/ TakeEvent
    \/ \E d \in Dirs : AddWatch(d)
    \/ BecomeReady \/ StartupError \/ TakeError \/ TimerFires \/ Poll

Next ==
    \/ \E p \in Paths : Create(p) \/ Remove(p)
    \/ \E f \in Files : Write(f)
    \/ \E d \in Dirs : \E new \in SUBSET Within(d) : Arrive(d, new)
    \/ Watcher

Spec == Init /\ [][Next]_vars

\* The goroutine runs on, and its timer fires.
FairSpec == Spec /\ WF_vars(Watcher)

-----------------------------------------------------------------------------
(* What the browser relies on *)

\* What the platform may put into the queue.
Events == [op: {"create", "write", "remove"}, path: Paths]
          \cup [op: {"error"}, path: {Root}]

\* Every variable holds what its comment says.
TypeOK ==
    /\ clock \in Nat /\ faults \in Nat
    /\ disk \in [Paths -> Nat] /\ known \in [Paths -> Nat]
    /\ watches \subseteq Dirs \cup {Root} /\ watched \subseteq Dirs \cup {Root}
    /\ queue \in Seq(Events)
    /\ scheduled \in BOOLEAN
    /\ step \in {"start", "scan", "work", "poll"}
    /\ todo \subseteq Dirs /\ rescan \subseteq Dirs
    /\ ready \in BOOLEAN
    /\ blind \subseteq Paths /\ reported \subseteq Dirs /\ replaced \subseteq Dirs

\* The watcher has nothing left to do.
Quiet == Idle /\ ready /\ queue = <<>> /\ ~scheduled

\* Once it has nothing left to do, the watcher's picture is the workspace, but for
\* paths that changed while nobody watched them; events and errors in any order,
\* stale events and lost ones make no difference.
KnownIsCurrent ==
    Quiet => \A p \in Paths : known[p] = disk[p] \/ p \in blind

\* Directories whose creation was reported and that stay, with all above them.
LastingDirs == {d \in reported : \A r \in replaced : d \notin Within(r)}

\* Unless events were lost or watches refused, nothing is missed in the root or in
\* a directory whose creation was reported, as long as neither it nor a directory
\* above it is removed.
ReportedDirsAreComplete ==
    Quiet /\ faults = 0 =>
        \A p \in Paths : Parent(p) \in LastingDirs \cup {Root} => known[p] = disk[p]

\* A directory the watcher knows and that still exists is watched, unless the
\* platform refused.
KnownDirsAreWatched ==
    Quiet /\ faults = 0 =>
        \A d \in Dirs : known[d] > 0 /\ Exists(d) => d \in watches

\* When the workspace comes to rest the picture becomes right and stays right,
\* also where there are no events and the watcher polls.
PictureSettles ==
    <>[](\A p \in Paths : known[p] = disk[p] \/ (p \in blind /\ step # "poll"))

=============================================================================
