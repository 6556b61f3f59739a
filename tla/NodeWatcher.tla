----------------------------- MODULE NodeWatcher -----------------------------
(***************************************************************************)
(* The watcher of the Node server:                                           *)
(* server/typescript/infrastructure/node-watcher.ts.                          *)
(*                                                                         *)
(* A worker thread watches the workspace, after a delay, and posts the paths   *)
(* that changed.  The main thread waits until a path is quiet, asks for its    *)
(* state and announces the difference from what it knew.  Timers, checks of     *)
(* different paths and messages overlap; messages beyond the limit are dropped.*)
(***************************************************************************)
EXTENDS Integers, Sequences, FiniteSets

CONSTANTS Paths,          \* entries of the workspace
          Excluded,       \* those that are not included, ignored or excluded
          MaxPending,     \* maxPendingEvents
          SlowChecks,     \* a check may still be under way when the next of its path begins
          MaxMoves        \* bound: changes of the workspace

ASSUME WatcherAssumption ==
    /\ Excluded \subseteq Paths /\ MaxPending \in Nat \ {0}
    /\ SlowChecks \in BOOLEAN /\ MaxMoves \in Nat

VARIABLES
    onDisk,         \* each path: file, directory or none
    worker,         \* starting, watching or none
    posted,         \* messages of the worker
    pending,        \* paths whose timer runs
    checks,         \* checks under way: the path, what was known, and what was found
    knownPaths,     \* what is known of each path
    announced,      \* what the subscribers were last told of each path
    missed,         \* history: paths that changed while nobody looked, or whose message was dropped
    moves

watcherVars == <<onDisk, worker, posted, pending, checks, knownPaths, announced, missed, moves>>

PathKinds == {"file", "directory", "none"}

WatcherTypeOK ==
    /\ onDisk \in [Paths -> PathKinds] /\ knownPaths \in [Paths -> PathKinds] /\ announced \in [Paths -> PathKinds]
    /\ worker \in {"starting", "watching", "none"} /\ pending \subseteq Paths \ Excluded
    /\ Cardinality(pending) <= MaxPending /\ (worker = "none" => pending = {} \/ posted = {})

WatcherInit ==
    /\ onDisk \in [Paths -> {"file", "none"}] /\ worker \in {"starting", "none"}
    /\ posted = {} /\ pending = {} /\ checks = {} /\ missed = {} /\ moves = 0
    /\ knownPaths = [p \in Paths |-> "none"] /\ announced = knownPaths

\* A file is written, replaced by a directory or removed.
Move(p, kind) ==
    /\ moves < MaxMoves /\ moves' = moves + 1 /\ onDisk' = [onDisk EXCEPT ![p] = kind]
    /\ posted' = IF worker = "watching" THEN posted \cup {p} ELSE posted
    /\ missed' = IF worker = "watching" THEN missed ELSE missed \cup {p}
    /\ UNCHANGED <<worker, pending, checks, knownPaths, announced>>

\* watchStartDelayMs is over.
StartWatching ==
    /\ worker = "starting" /\ worker' = "watching"
    /\ UNCHANGED <<onDisk, posted, pending, checks, knownPaths, announced, missed, moves>>

\* An error or the end of the worker is not reported to anyone.
WorkerFails ==
    /\ worker # "none" /\ worker' = "none" /\ missed' = missed \cup posted /\ posted' = {}
    /\ UNCHANGED <<onDisk, pending, checks, knownPaths, announced, moves>>

\* (The fault of a queue without a limit.)
DropNone(p) == FALSE

DropNew(p) == p \notin pending /\ Cardinality(pending) >= MaxPending

\* A message starts the timer of its path, or starts it again.
QueueEvent(p) ==
    /\ p \in posted /\ posted' = posted \ {p}
    /\ \/ p \in Excluded /\ UNCHANGED <<pending, missed>>
       \/ p \notin Excluded /\ DropNew(p) /\ missed' = missed \cup {p} /\ UNCHANGED pending
       \/ p \notin Excluded /\ ~DropNew(p) /\ pending' = pending \cup {p} /\ UNCHANGED missed
    /\ UNCHANGED <<onDisk, worker, checks, knownPaths, announced, moves>>

\* The path was quiet for debounceMs.  What is known is read before the file is asked for.
TimerEnds(p) ==
    /\ p \in pending /\ pending' = pending \ {p}
    /\ ~SlowChecks => \A check \in checks : check.path # p
    /\ checks' = checks \cup {[path |-> p, previous |-> knownPaths[p], kind |-> "asked", begun |-> moves]}
    /\ UNCHANGED <<onDisk, worker, posted, knownPaths, announced, missed, moves>>

KindFor(check) ==
    /\ check.kind = "asked"
    /\ checks' = (checks \ {check}) \cup {[check EXCEPT !.kind = onDisk[check.path]]}
    /\ UNCHANGED <<onDisk, worker, posted, pending, knownPaths, announced, missed, moves>>

\* (The fault of telling nobody of a path that was not known.)
ToldOfChange(check) == [announced EXCEPT ![check.path] = IF check.previous = "none" THEN @ ELSE check.kind]

\* eventFromKnownPath: add, change or unlink.  A change does not say that the kind did.
Told(check) ==
    [announced EXCEPT ![check.path] = IF check.kind = "none" THEN "none"
                                      ELSE IF check.previous = "none" THEN check.kind ELSE @]

\* (The fault of an unlink that leaves what is known.)
RemembersAll(check) ==
    [knownPaths EXCEPT ![check.path] = IF check.kind = "none" THEN @ ELSE check.kind]

Remembers(check) == [knownPaths EXCEPT ![check.path] = check.kind]

\* The check is answered.  A path that was not known and is gone is left as it is.
EmitCurrentState(check) ==
    /\ check.kind # "asked" /\ checks' = checks \ {check}
    /\ IF check.kind = "none" /\ check.previous = "none" THEN UNCHANGED <<knownPaths, announced>>
       ELSE knownPaths' = Remembers(check) /\ announced' = Told(check)
    /\ UNCHANGED <<onDisk, worker, posted, pending, missed, moves>>

WatcherNext ==
    \/ \E p \in Paths : QueueEvent(p) \/ TimerEnds(p) \/ \E kind \in PathKinds \ {onDisk[p]} : Move(p, kind)
    \/ StartWatching \/ WorkerFails
    \/ \E check \in checks : KindFor(check) \/ EmitCurrentState(check)

\* The worker starts, its messages are handled, timers end and the file system answers.
WatcherFairness ==
    /\ WF_watcherVars(StartWatching)
    /\ \A p \in Paths : WF_watcherVars(QueueEvent(p)) /\ WF_watcherVars(TimerEnds(p))
    /\ WF_watcherVars(\E check \in checks : KindFor(check) \/ EmitCurrentState(check))

-----------------------------------------------------------------------------
(* Properties *)

Quiet(p) == p \notin posted \cup pending \cup missed \cup Excluded /\ \A check \in checks : check.path # p

\* Unless its change was missed, a path whose messages, timers and checks are done is known as
\* it is, if anything was ever known of it (while checks of one path do not overlap).
QuietIsKnown == \A p \in Paths : Quiet(p) /\ knownPaths[p] # "none" => knownPaths[p] = onDisk[p]

\* The subscribers know of every path that the watcher knows of, and of no other.
ToldIsKnown == \A p \in Paths : announced[p] = "none" <=> knownPaths[p] = "none"

\* Of a path that changed while it was watched the subscribers learn in the end whether it is
\* there, unless a later change of it was missed.
ChangesAreAnnounced == \A p \in Paths \ Excluded :
    p \in posted ~> p \in missed \/ (announced[p] = "none" <=> onDisk[p] = "none")
=============================================================================
