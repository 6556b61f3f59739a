-------------------------- MODULE NodeRuntimeProofs --------------------------
(***************************************************************************)
(* What MCNodeRuntime states of the watcher, the git reviews, the files and  *)
(* the streams of the Node server, for every number of paths, requests,      *)
(* names and commits.  Each part has an invariant of its own: WatcherInv,    *)
(* GitInv with ObjectsInv, FilesInv and ServerInv, that its initial states   *)
(* satisfy, its steps keep, and the steps of the other parts leave alone.    *)
(***************************************************************************)
EXTENDS MCNodeRuntime, TLAPS, FiniteSetTheorems, SequenceTheorems

-----------------------------------------------------------------------------
(* The watcher *)

\* What is under way for a path is one check, and it knows what is known; what it has found is
\* still so, unless a message says otherwise.
Heralded(r) == r \in posted \cup missed

WatcherInv ==
    /\ onDisk \in [Paths -> PathKinds] /\ knownPaths \in [Paths -> PathKinds]
    /\ announced \in [Paths -> PathKinds]
    /\ worker \in {"starting", "watching", "none"}
    /\ pending \subseteq Paths \ Excluded /\ posted \subseteq Paths /\ missed \subseteq Paths
    /\ IsFiniteSet(pending) /\ Cardinality(pending) <= MaxPending
    /\ (worker # "watching" => posted = {})
    /\ checks \subseteq [path : Paths \ Excluded, previous : PathKinds,
                         kind : PathKinds \cup {"asked"}, begun : Nat]
    /\ moves \in Nat
    /\ \A a, b \in checks : a.path = b.path => a = b
    /\ \A a \in checks : a.previous = knownPaths[a.path]
    /\ \A a \in checks : a.kind = "asked" \/ a.path \in posted \cup pending \cup missed
                         \/ a.kind = onDisk[a.path]
    /\ QuietIsKnown /\ ToldIsKnown

LEMMA WatcherStarts == WatcherInit => WatcherInv
BY FS_EmptySet, WatcherAssumption
   DEF WatcherInit, WatcherInv, PathKinds, QuietIsKnown, ToldIsKnown

LEMMA WatcherStutters == WatcherInv /\ UNCHANGED watcherVars => WatcherInv'
BY DEF WatcherInv, watcherVars, QuietIsKnown, ToldIsKnown, Quiet

LEMMA WatcherStep == ~SlowChecks /\ WatcherInv /\ WatcherNext => WatcherInv'
<1> SUFFICES ASSUME ~SlowChecks, WatcherInv, WatcherNext PROVE WatcherInv'
    OBVIOUS
<1> USE WatcherAssumption
<1>1. ASSUME NEW r \in Paths, QueueEvent(r) PROVE WatcherInv'
    <2>1. pending' \subseteq Paths \ Excluded /\ IsFiniteSet(pending') /\ Cardinality(pending') <= MaxPending
        <3>1. CASE pending' = pending
            BY <3>1 DEF WatcherInv
        <3>2. CASE pending' = pending \cup {r} /\ r \notin Excluded /\ ~DropNew(r)
            <4>1. IsFiniteSet(pending) /\ Cardinality(pending) \in Nat
                BY FS_CardinalityType DEF WatcherInv
            <4>2. CASE r \in pending
                BY <3>2, <4>2 DEF WatcherInv
            <4>3. CASE r \notin pending
                <5>1. IsFiniteSet(pending \cup {r}) /\ Cardinality(pending \cup {r}) = Cardinality(pending) + 1
                    BY <4>1, <4>3, FS_AddElement
                <5>2. Cardinality(pending) < MaxPending
                    BY <3>2, <4>1, <4>3 DEF DropNew
                <5>3. pending' = pending \cup {r} /\ pending \subseteq Paths \ Excluded
                    BY <3>2 DEF WatcherInv
                <5>4. Cardinality(pending) + 1 <= MaxPending
                    BY <4>1, <5>2
                <5> QED BY <3>2, <5>1, <5>3, <5>4
            <4> QED BY <4>2, <4>3
        <3> QED BY <1>1, <3>1, <3>2 DEF QueueEvent
    <2>2. Heralded(r) \/ r \in pending' \/ r \in Excluded
        BY <1>1 DEF QueueEvent, Heralded, WatcherInv
    <2>3. \A s \in Paths \ Excluded : s \in posted \cup pending \cup missed
                                    => s \in posted' \cup pending' \cup missed'
        BY <1>1 DEF QueueEvent
    <2>4. QuietIsKnown'
        BY <1>1, <2>3 DEF QueueEvent, QuietIsKnown, Quiet, WatcherInv
    <2> QED BY <1>1, <2>1, <2>3, <2>4 DEF QueueEvent, WatcherInv, ToldIsKnown
<1>2. ASSUME NEW r \in Paths, TimerEnds(r) PROVE WatcherInv'
    <2> DEFINE new == [path |-> r, previous |-> knownPaths[r], kind |-> "asked", begun |-> moves]
    <2>1. checks' = checks \cup {new} /\ \A a \in checks : a.path # r
        BY <1>2 DEF TimerEnds
    <2>2. IsFiniteSet(pending') /\ Cardinality(pending') <= MaxPending
        <3>1. pending' = pending \ {r} /\ r \in pending /\ IsFiniteSet(pending) /\ Cardinality(pending) <= MaxPending
            BY <1>2 DEF TimerEnds, WatcherInv
        <3>2. IsFiniteSet(pending \ {r}) /\ Cardinality(pending \ {r}) = Cardinality(pending) - 1
            BY <3>1, FS_RemoveElement
        <3>3. Cardinality(pending) \in Nat
            BY <3>1, FS_CardinalityType
        <3> QED BY <3>1, <3>2, <3>3
    <2>3. new \in [path : Paths \ Excluded, previous : PathKinds, kind : PathKinds \cup {"asked"}, begun : Nat]
        BY <1>2 DEF TimerEnds, WatcherInv
    <2>4. new.path = r /\ new.previous = knownPaths[r] /\ new.kind = "asked"
        OBVIOUS
    <2> HIDE DEF new
    <2>5. \A a \in checks' : a.kind = "asked" \/ a.path \in posted' \cup pending' \cup missed'
                         \/ a.kind = onDisk'[a.path]
        BY <1>2, <2>1, <2>4 DEF TimerEnds, WatcherInv
    <2>6. QuietIsKnown'
        BY <1>2, <2>1, <2>4 DEF TimerEnds, QuietIsKnown, Quiet, WatcherInv
    <2> QED BY <1>2, <2>1, <2>2, <2>3, <2>4, <2>5, <2>6 DEF TimerEnds, WatcherInv, ToldIsKnown
<1>3. ASSUME NEW r \in Paths, NEW kind \in PathKinds, Move(r, kind) PROVE WatcherInv'
    <2>1. QuietIsKnown'
        BY <1>3 DEF Move, QuietIsKnown, Quiet, WatcherInv
    <2> QED BY <1>3, <2>1 DEF Move, WatcherInv, ToldIsKnown
<1>4. ASSUME StartWatching PROVE WatcherInv'
    BY <1>4 DEF StartWatching, WatcherInv, QuietIsKnown, Quiet, ToldIsKnown
<1>5. ASSUME WorkerFails PROVE WatcherInv'
    <2>1. QuietIsKnown'
        BY <1>5 DEF WorkerFails, QuietIsKnown, Quiet, WatcherInv
    <2> QED BY <1>5, <2>1 DEF WorkerFails, WatcherInv, ToldIsKnown
<1>6. ASSUME NEW check \in checks, KindFor(check) PROVE WatcherInv'
    <2> DEFINE new == [check EXCEPT !.kind = onDisk[check.path]]
    <2>1. checks' = (checks \ {check}) \cup {new}
        BY <1>6 DEF KindFor
    <2>2. /\ new \in [path : Paths \ Excluded, previous : PathKinds, kind : PathKinds \cup {"asked"}, begun : Nat]
          /\ new.path = check.path /\ new.previous = check.previous /\ new.kind = onDisk[check.path]
        BY DEF WatcherInv
    <2> HIDE DEF new
    <2>3. QuietIsKnown'
        BY <1>6, <2>1, <2>2 DEF KindFor, QuietIsKnown, Quiet, WatcherInv
    <2>4. \A a, b \in checks' : a.path = b.path => a = b
        BY <2>1, <2>2 DEF WatcherInv
    <2> QED BY <1>6, <2>1, <2>2, <2>3, <2>4 DEF KindFor, WatcherInv, ToldIsKnown
<1>7. ASSUME NEW check \in checks, EmitCurrentState(check) PROVE WatcherInv'
    <2>1. /\ check.path \in Paths \ Excluded /\ check.previous = knownPaths[check.path]
          /\ check.kind \in PathKinds
        BY <1>7 DEF EmitCurrentState, WatcherInv
    <2>2. CASE check.kind = "none" /\ check.previous = "none"
        <3>1. UNCHANGED <<knownPaths, announced>>
            BY <1>7, <2>2 DEF EmitCurrentState
        <3>2. QuietIsKnown'
            BY <1>7, <2>1, <2>2, <3>1 DEF EmitCurrentState, QuietIsKnown, Quiet, WatcherInv
        <3> QED BY <1>7, <3>1, <3>2 DEF EmitCurrentState, WatcherInv, ToldIsKnown
    <2>3. CASE ~(check.kind = "none" /\ check.previous = "none")
        <3>1. knownPaths' = Remembers(check) /\ announced' = Told(check)
            BY <1>7, <2>3 DEF EmitCurrentState
        <3>2. knownPaths' \in [Paths -> PathKinds] /\ announced' \in [Paths -> PathKinds]
            BY <2>1, <3>1 DEF Remembers, Told, WatcherInv, PathKinds
        <3>3. QuietIsKnown'
            BY <1>7, <2>1, <3>1 DEF EmitCurrentState, QuietIsKnown, Quiet, WatcherInv, Remembers
        <3>4. ToldIsKnown'
            BY <2>1, <2>3, <3>1 DEF ToldIsKnown, WatcherInv, Remembers, Told
        <3>5. \A a \in checks' : a.previous = knownPaths'[a.path]
            BY <1>7, <2>1, <3>1 DEF EmitCurrentState, WatcherInv, Remembers
        <3> QED BY <1>7, <3>2, <3>3, <3>4, <3>5 DEF EmitCurrentState, WatcherInv
    <2> QED BY <2>2, <2>3
<1> QED BY <1>1, <1>2, <1>3, <1>4, <1>5, <1>6, <1>7 DEF WatcherNext

-----------------------------------------------------------------------------
(* The process *)

\* Connections are accepted until git has stopped; from then on there is no listener, and nobody
\* is served.  What a listener was told begins where its stream began.
ServerInv ==
    /\ ServerTypeOK /\ StreamsMissNothing
    /\ exit \in Signals \cup {"none", "error"} /\ exit # "none" => stage = "exited"
    /\ sockets \in [Clients -> {"none", "open", "asking", "streaming", "destroyed"}]
    /\ openedAt \in [Clients -> Nat] /\ DOMAIN told = Clients
    /\ \A c \in Clients : openedAt[c] <= happened
    /\ stage \in {"starting", "opening"} => \A c \in Clients : sockets[c] = "none"
    /\ stage \in {"starting", "opening", "server", "closed"} => subscribers = {}

LEMMA ServerStarts == ServerInit => ServerInv
BY ServerAssumption DEF ServerInit, ServerInv, ServerTypeOK, StreamsMissNothing, NoSignal, Stages

LEMMA ServerStutters == ServerInv /\ UNCHANGED serverVars => ServerInv'
BY DEF ServerInv, serverVars, ServerTypeOK, StreamsMissNothing

LEMMA ServerStep == ServerInv /\ ServerNext => ServerInv'
<1> SUFFICES ASSUME ServerInv, ServerNext PROVE ServerInv'
    OBVIOUS
<1> USE ServerAssumption DEF ServerInv, ServerTypeOK, StreamsMissNothing, NoSignal, Stages,
                             Timers, Connections, Exit
<1>1. CASE Start
    BY <1>1 DEF Start
<1>2. CASE WatcherEvent
    <2>1. happened' = happened + 1 /\ happened' \in 0 .. MaxEvents
        BY <1>2 DEF WatcherEvent
    <2>2. \A c \in Clients : told'[c] = IF c \in subscribers THEN told[c] \cup {happened'} ELSE told[c]
        BY <1>2 DEF WatcherEvent
    <2>3. StreamsMissNothing'
        <3> SUFFICES ASSUME NEW c \in subscribers PROVE sockets[c] = "streaming" /\ told'[c] = openedAt[c] + 1 .. happened'
            BY <1>2 DEF WatcherEvent
        <3>1. told'[c] = (openedAt[c] + 1 .. happened) \cup {happened + 1}
            BY <2>1, <2>2
        <3>2. openedAt[c] \in Nat /\ happened \in Nat /\ openedAt[c] <= happened
            OBVIOUS
        <3>3. (openedAt[c] + 1 .. happened) \cup {happened + 1} = openedAt[c] + 1 .. happened + 1
            BY <3>2
        <3> QED BY <2>1, <3>1, <3>3
    <2>4. DOMAIN told' = Clients
        BY <1>2 DEF WatcherEvent
    <2>5. \A c \in Clients : openedAt'[c] <= happened'
        BY <1>2, <2>1 DEF WatcherEvent
    <2> QED BY <1>2, <2>1, <2>3, <2>4, <2>5 DEF WatcherEvent
<1>3. CASE StopStep
    BY <1>3 DEF StopStep, DestroySockets
<1>4. CASE StopFails
    BY <1>4 DEF StopFails
<1>5. CASE TimerFires
    BY <1>5 DEF TimerFires
<1>6. CASE ExitAfterClose
    BY <1>6 DEF ExitAfterClose
<1>7. ASSUME NEW c \in Clients, Connect(c) PROVE ServerInv'
    BY <1>7 DEF Connect, Accepts
<1>8. ASSUME NEW c \in Clients, Ask(c) PROVE ServerInv'
    BY <1>8 DEF Ask, Accepts
<1>9. ASSUME NEW c \in Clients, Stream(c) PROVE ServerInv'
    <2>1. happened + 1 .. happened = {}
        OBVIOUS
    <2>2. StreamsMissNothing'
        BY <1>9, <2>1 DEF Stream
    <2> QED BY <1>9, <2>2 DEF Stream, Accepts
<1>10. ASSUME NEW c \in Clients, Disconnect(c) PROVE ServerInv'
    BY <1>10 DEF Disconnect, Unsubscribe
<1>11. ASSUME NEW s \in Signals, Signal(s) PROVE ServerInv'
    BY <1>11 DEF Signal, CloseWithDeadline
<1> QED BY <1>1, <1>2, <1>3, <1>4, <1>5, <1>6, <1>7, <1>8, <1>9, <1>10, <1>11 DEF ServerNext

-----------------------------------------------------------------------------
(* The change list of git *)

GitSteps == {"idle", "repo", "full", "tracked", "classify", "diff", "head"}
GitAnswers == {"none", "excluded", "timeout", "no git", "no repository", "too much output", "no change",
               "partial", "complete", "diff", "not stored"}
GitFound == SUBSET (Entries \cup (Entries \X {"file", "files", "embedded-repo"}))
GitRequests == [step : GitSteps, want : Entries \cup {"list"}, found : GitFound,
                partial : BOOLEAN, answer : GitAnswers]

\* What was gathered has every tracked change that lasted, and, unless it is partial, every
\* untracked one.
Gathered(r) ==
    request[r].step = "classify" =>
        \A e \in held[r] \ Hidden :
            /\ tree[e] = "tracked" => e \in request[r].found
            /\ ~request[r].partial /\ tree[e] # "clean" => e \in request[r].found

GatheredEntries(r) == request[r].step = "classify" => request[r].found \subseteq Entries

\* Until a request is answered there is no answer, but that there may be no diff.
AnswerPending(r) ==
    /\ request[r].step \in {"repo", "full", "tracked", "classify", "head"} => request[r].answer = "none"
    /\ request[r].step = "diff" => request[r].answer = "no change"

CompleteFor(r) ==
    request[r].answer = "complete" =>
        \A e \in held[r] \ Hidden : tree[e] \notin {"clean", "link"} => \E change \in request[r].found : change[1] = e

DiffFor(r) ==
    LET want == request[r].want IN
        want # "list" /\ want \in held[r] /\ ~request[r].partial =>
            /\ request[r].answer = "diff" => tree[want] \in {"tracked", "untracked"}
            /\ request[r].answer = "no change" /\ request[r].step = "idle" =>
                  want \in Hidden \/ tree[want] \notin {"tracked", "untracked"}

GitInv ==
    /\ GitTypeOK /\ StoppedLeavesNoProcess
    /\ request \in [Requests -> GitRequests] /\ held \in [Requests -> SUBSET Entries]
    /\ clock \in Nat /\ gitSuppressedUntil \in Nat /\ stopped \in BOOLEAN
    /\ \A r \in Requests : /\ Gathered(r) /\ GatheredEntries(r) /\ AnswerPending(r)
                            /\ CompleteFor(r) /\ DiffFor(r)

LEMMA GitInvImplies == GitInv => GitTypeOK /\ StoppedLeavesNoProcess /\ CompleteIsComplete /\ DiffFitsTheFile
BY DEF GitInv, CompleteIsComplete, DiffFitsTheFile, CompleteFor, DiffFor

LEMMA GitStarts == GitInit => GitInv
<1> SUFFICES ASSUME GitInit PROVE GitInv
    OBVIOUS
<1>1. IdleRequest \in GitRequests /\ IdleRequest.step = "idle" /\ IdleRequest.answer = "none"
    <2>1. {} \in GitFound
        BY DEF GitFound
    <2>2. "none" \in GitAnswers /\ FALSE \in BOOLEAN /\ "idle" \in GitSteps /\ "list" \in Entries \cup {"list"}
        BY DEF GitSteps, GitAnswers
    <2>3. IdleRequest \in GitRequests
        BY <2>1, <2>2 DEF IdleRequest, GitRequests
    <2> QED BY <2>3 DEF IdleRequest
<1>2. request \in [Requests -> GitRequests] /\ \A r \in Requests : request[r] = IdleRequest
    BY <1>1 DEF GitInit
<1>3. GitTypeOK /\ StoppedLeavesNoProcess
    BY <1>1, <1>2, GitReviewAssumption DEF GitInit, GitTypeOK, StoppedLeavesNoProcess, States
<1>4. ASSUME NEW r \in Requests
      PROVE  Gathered(r) /\ GatheredEntries(r) /\ AnswerPending(r) /\ CompleteFor(r) /\ DiffFor(r)
    BY <1>1, <1>2 DEF Gathered, GatheredEntries, AnswerPending, CompleteFor, DiffFor
<1> QED BY <1>2, <1>3, <1>4 DEF GitInv, GitInit

LEMMA GitStutters == GitInv /\ UNCHANGED gitVars => GitInv'
<1> SUFFICES ASSUME GitInv, UNCHANGED gitVars PROVE GitInv'
    OBVIOUS
<1>1. GitTypeOK' /\ StoppedLeavesNoProcess'
    BY DEF GitInv, GitTypeOK, StoppedLeavesNoProcess, gitVars
<1>2. ASSUME NEW r \in Requests
      PROVE  Gathered(r)' /\ GatheredEntries(r)' /\ AnswerPending(r)' /\ CompleteFor(r)' /\ DiffFor(r)'
    <2>1. Gathered(r) /\ GatheredEntries(r) /\ AnswerPending(r) /\ CompleteFor(r) /\ DiffFor(r)
        BY DEF GitInv
    <2>2. request' = request /\ tree' = tree /\ held' = held
        BY DEF gitVars
    <2>3. Gathered(r)' /\ GatheredEntries(r)' /\ AnswerPending(r)' /\ CompleteFor(r)'
        BY <2>1, <2>2 DEF Gathered, GatheredEntries, AnswerPending, CompleteFor
    <2>4. DiffFor(r)'
        BY <2>1, <2>2 DEF DiffFor
    <2> QED BY <2>3, <2>4
<1> QED BY <1>1, <1>2 DEF GitInv, gitVars

\* A step that changes one request and its process, and neither the tree nor the clock.
LEMMA OneRequest ==
    ASSUME GitInv, NEW r \in Requests, Steady,
           NEW new \in GitRequests, request' = [request EXCEPT ![r] = new],
           held' \in [Requests -> SUBSET Entries], \A s \in Requests \ {r} : held'[s] = held[s],
           processes' \subseteq processes \cup {r}, stopped => r \notin processes',
           r \in processes' => new.step \in {"repo", "full", "tracked", "diff"},
           gitSuppressedUntil' \in {gitSuppressedUntil, clock + Cooldown},
           Gathered(r)', GatheredEntries(r)', AnswerPending(r)', CompleteFor(r)', DiffFor(r)'
    PROVE  GitInv'
<1>1. request' \in [Requests -> GitRequests] /\ request'[r] = new
    BY DEF GitInv
<1>2. \A s \in Requests \ {r} : request'[s] = request[s]
    BY DEF GitInv
<1>3. ASSUME NEW s \in Requests
      PROVE  /\ Gathered(s)' /\ GatheredEntries(s)' /\ AnswerPending(s)'
             /\ CompleteFor(s)' /\ DiffFor(s)'
    <2>1. CASE s = r
        BY <2>1
    <2>2. CASE s # r
        <3>1. request'[s] = request[s] /\ held'[s] = held[s] /\ tree' = tree
            BY <1>2, <2>2 DEF Steady
        <3>2. Gathered(s) /\ GatheredEntries(s) /\ AnswerPending(s) /\ CompleteFor(s) /\ DiffFor(s)
            BY DEF GitInv
        <3>3. Gathered(s)' /\ GatheredEntries(s)'
            BY <3>1, <3>2 DEF Gathered, GatheredEntries
        <3>4. AnswerPending(s)'
            BY <3>1, <3>2 DEF AnswerPending
        <3>6. CompleteFor(s)'
            BY <3>1, <3>2 DEF CompleteFor
        <3>5. DiffFor(s)'
            BY <3>1, <3>2 DEF DiffFor
        <3> QED BY <3>3, <3>4, <3>5, <3>6
    <2> QED BY <2>1, <2>2
<1>4. \A s \in Requests : request'[s].step \in GitSteps
    BY <1>1 DEF GitRequests
<1>5. \A s \in processes' : request'[s].step \in {"repo", "full", "tracked", "diff"}
    BY <1>1, <1>2 DEF GitInv, GitTypeOK
<1>6. processes' \subseteq Requests
    BY DEF GitInv, GitTypeOK
<1>7. gitSuppressedUntil' \in Nat /\ gitSuppressedUntil' <= clock + Cooldown
    BY GitReviewAssumption DEF GitInv, GitTypeOK
<1>8. StoppedLeavesNoProcess'
    BY DEF GitInv, StoppedLeavesNoProcess, Steady
<1>9. GitTypeOK'
    BY <1>4, <1>5, <1>6, <1>7 DEF GitInv, GitTypeOK, Steady, GitSteps
<1> QED BY <1>1, <1>3, <1>7, <1>8, <1>9 DEF GitInv, Steady

LEMMA RequestFacts ==
    ASSUME GitInv, NEW r \in Requests
    PROVE  /\ request[r] \in GitRequests /\ request[r].step \in GitSteps
           /\ request[r].want \in Entries \cup {"list"} /\ request[r].found \in GitFound
           /\ request[r].partial \in BOOLEAN /\ request[r].answer \in GitAnswers
           /\ Gathered(r) /\ GatheredEntries(r) /\ AnswerPending(r) /\ CompleteFor(r) /\ DiffFor(r)
           /\ r \in processes => request[r].step \in {"repo", "full", "tracked", "diff"}
           /\ stopped => processes = {}
           /\ processes \subseteq Requests
BY DEF GitInv, GitRequests, GitTypeOK, StoppedLeavesNoProcess

\* A request that goes on to a step without an answer, or ends with one that says nothing of an entry.
LEMMA RequestGoesOn ==
    ASSUME GitInv, NEW r \in Requests, Steady, UNCHANGED <<held>>,
           NEW step \in {"repo", "full", "tracked", "head", "idle"}, NEW answer \in GitAnswers,
           request' = [request EXCEPT ![r] = [request[r] EXCEPT !.step = step, !.answer = answer]],
           step # "idle" => answer = "none",
           answer \in {"none", "timeout", "no git", "no repository", "too much output"},
           processes' \subseteq processes \cup {r}, stopped => r \notin processes',
           r \in processes' => step \in {"repo", "full", "tracked"},
           gitSuppressedUntil' \in {gitSuppressedUntil, clock + Cooldown}
    PROVE  GitInv'
<1> DEFINE new == [request[r] EXCEPT !.step = step, !.answer = answer]
<1>1. /\ new \in GitRequests /\ new.step = step /\ new.answer = answer
      /\ new.want = request[r].want /\ new.found = request[r].found /\ new.partial = request[r].partial
    BY RequestFacts DEF GitRequests, GitSteps
<1> HIDE DEF new
<1>2. request' = [request EXCEPT ![r] = new] /\ request'[r] = new
    BY DEF GitInv, new
<1>3. Gathered(r)' /\ GatheredEntries(r)' /\ AnswerPending(r)' /\ CompleteFor(r)'
    BY <1>1, <1>2 DEF Gathered, GatheredEntries, AnswerPending, CompleteFor
<1>4. DiffFor(r)'
    BY <1>1, <1>2 DEF DiffFor
<1>5. held' \in [Requests -> SUBSET Entries] /\ \A s \in Requests \ {r} : held'[s] = held[s]
    BY DEF GitInv
<1>6. r \in processes' => new.step \in {"repo", "full", "tracked", "diff"}
    BY <1>1
<1> QED BY <1>1, <1>2, <1>3, <1>4, <1>5, <1>6, OneRequest

LEMMA ReadChangesStep == ASSUME GitInv, NEW r \in Requests, NEW want \in Entries \cup {"list"},
                                ReadChanges(r, want)
                         PROVE  GitInv'
<1> DEFINE answered == [IdleRequest EXCEPT !.answer = IF want \in Hidden THEN "excluded" ELSE TimeoutReason]
           begun == [IdleRequest EXCEPT !.step = "repo", !.want = want]
<1>1. /\ answered \in GitRequests /\ answered.step = "idle" /\ answered.want = "list" /\ ~answered.partial
      /\ answered.answer \in {"excluded", "timeout"}
    BY DEF IdleRequest, TimeoutReason, GitRequests, GitSteps, GitAnswers, GitFound
<1>2. /\ begun \in GitRequests /\ begun.step = "repo" /\ begun.answer = "none"
    BY DEF IdleRequest, GitRequests, GitSteps, GitAnswers, GitFound
<1> HIDE DEF answered, begun
<1>3. /\ request[r].step = "idle" /\ held' = [held EXCEPT ![r] = Entries] /\ gitSuppressedUntil' = gitSuppressedUntil
      /\ Steady
    BY DEF ReadChanges
<1>4. held' \in [Requests -> SUBSET Entries] /\ \A s \in Requests \ {r} : held'[s] = held[s]
    BY <1>3 DEF GitInv
<1>5. CASE want \in Hidden \/ IsGitSuppressed
    <2>1. request' = [request EXCEPT ![r] = answered] /\ processes' = processes
        BY <1>5 DEF ReadChanges, answered
    <2>2. request'[r] = answered
        BY <2>1 DEF GitInv
    <2>3. Gathered(r)' /\ GatheredEntries(r)' /\ AnswerPending(r)' /\ CompleteFor(r)'
        BY <1>1, <2>2 DEF Gathered, GatheredEntries, AnswerPending, CompleteFor
    <2>4. DiffFor(r)'
        BY <1>1, <2>2 DEF DiffFor
    <2>5. r \notin processes'
        BY <1>3, <2>1, RequestFacts
    <2> QED BY <1>1, <1>3, <1>4, <2>1, <2>3, <2>4, <2>5, OneRequest
<1>6. CASE ~(want \in Hidden \/ IsGitSuppressed)
    <2>1. request' = [request EXCEPT ![r] = begun] /\ Run(r)
        BY <1>6 DEF ReadChanges, begun
    <2>2. request'[r] = begun
        BY <2>1 DEF GitInv
    <2>3. Gathered(r)' /\ GatheredEntries(r)' /\ AnswerPending(r)' /\ CompleteFor(r)'
        BY <1>2, <2>2 DEF Gathered, GatheredEntries, AnswerPending, CompleteFor
    <2>4. DiffFor(r)'
        BY <1>2, <2>2 DEF DiffFor
    <2>5. processes' \subseteq processes \cup {r} /\ (stopped => r \notin processes')
        BY <2>1, RequestFacts DEF Run
    <2>6. r \in processes' => begun.step \in {"repo", "full", "tracked", "diff"}
        BY <1>2
    <2> QED BY <1>2, <1>3, <1>4, <2>1, <2>3, <2>4, <2>5, <2>6, OneRequest
<1> QED BY <1>5, <1>6

LEMMA GitFailsStep == ASSUME GitInv, NEW r \in Requests, GitFails(r) PROVE GitInv'
<1>1. /\ r \in processes /\ processes' = processes \ {r} /\ UNCHANGED <<held, gitSuppressedUntil>> /\ Steady
    BY DEF GitFails, Ends
<1>2. PICK reason \in {"no git", "no repository", "too much output"} :
          IF reason = "no git" /\ request[r].want # "list" /\ request[r].step # "diff" THEN To(r, "head")
          ELSE request' = [request EXCEPT ![r].step = "idle", ![r].answer = reason]
    BY DEF GitFails
<1>3. CASE reason = "no git" /\ request[r].want # "list" /\ request[r].step # "diff"
    <2>1. request[r].answer = "none"
        BY <1>1, <1>3, RequestFacts DEF AnswerPending
    <2>2. request' = [request EXCEPT ![r] = [request[r] EXCEPT !.step = "head", !.answer = "none"]]
        BY <1>2, <1>3, <2>1, RequestFacts DEF To, GitInv, GitRequests
    <2> QED BY <1>1, <2>2, RequestGoesOn DEF GitAnswers
<1>4. CASE ~(reason = "no git" /\ request[r].want # "list" /\ request[r].step # "diff")
    <2>1. request' = [request EXCEPT ![r] = [request[r] EXCEPT !.step = "idle", !.answer = reason]]
        BY <1>2, <1>4 DEF GitInv
    <2> QED BY <1>1, <2>1, RequestGoesOn DEF GitAnswers
<1> QED BY <1>3, <1>4

LEMMA ResolveStep == ASSUME GitInv, NEW r \in Requests, ResolveGitWorkspace(r) PROVE GitInv'
<1>1. /\ request[r].step = "repo" /\ r \in processes /\ To(r, "full")
      /\ UNCHANGED <<processes, held, gitSuppressedUntil>> /\ Steady
    BY DEF ResolveGitWorkspace
<1>2. request[r].answer = "none"
    BY <1>1, RequestFacts DEF AnswerPending
<1>3. request' = [request EXCEPT ![r] = [request[r] EXCEPT !.step = "full", !.answer = "none"]]
    BY <1>1, <1>2, RequestFacts DEF To, GitInv, GitRequests
<1>4. ~stopped
    BY <1>1, RequestFacts
<1> QED BY <1>1, <1>3, <1>4, RequestGoesOn DEF GitAnswers

LEMMA TimesOutStep == ASSUME GitInv, NEW r \in Requests, TimesOut(r) PROVE GitInv'
<1>1. UNCHANGED held /\ Steady /\ request[r].step \in {"repo", "full", "tracked", "diff"}
    BY DEF TimesOut
<1>2. CASE request[r].step = "full"
    <2>1. To(r, "tracked") /\ gitSuppressedUntil' = gitSuppressedUntil
          /\ processes' = IF stopped THEN processes \ {r} ELSE processes \cup {r}
        BY <1>2 DEF TimesOut, AfterFullStatus
    <2>2. request[r].answer = "none"
        BY <1>2, RequestFacts DEF AnswerPending
    <2>3. request' = [request EXCEPT ![r] = [request[r] EXCEPT !.step = "tracked", !.answer = "none"]]
        BY <2>1, <2>2, RequestFacts DEF To, GitInv, GitRequests
    <2> QED BY <1>1, <2>1, <2>3, RequestGoesOn DEF GitAnswers
<1>3. CASE request[r].step # "full"
    <2>1. /\ processes' = processes \ {r} /\ request' = [request EXCEPT ![r].step = "idle", ![r].answer = TimeoutReason]
          /\ gitSuppressedUntil' \in {gitSuppressedUntil, clock + Cooldown}
        BY <1>3 DEF TimesOut, Ends
    <2>2. request' = [request EXCEPT ![r] = [request[r] EXCEPT !.step = "idle", !.answer = "timeout"]]
        BY <2>1 DEF GitInv, TimeoutReason
    <2> QED BY <1>1, <2>1, <2>2, RequestGoesOn DEF GitAnswers
<1> QED BY <1>2, <1>3

LEMMA GitStatusStep == ASSUME GitInv, NEW r \in Requests, GitStatus(r) PROVE GitInv'
<1> DEFINE full == request[r].step = "full"
           found == {e \in Entries \ Hidden : tree[e] = "tracked" \/ (full /\ Untracked(e))}
           new == [request[r] EXCEPT !.step = "classify", !.found = found, !.partial = ~full]
<1>1. /\ request[r].step \in {"full", "tracked"} /\ r \in processes /\ processes' = processes \ {r}
      /\ UNCHANGED <<held, gitSuppressedUntil>> /\ Steady
    BY DEF GitStatus, Ends
<1>2. request' = [request EXCEPT ![r].step = "classify", ![r].found = found, ![r].partial = ~full]
    BY DEF GitStatus, Gather
<1>3. found \in GitFound
    BY DEF GitFound
<1>4. \A e \in Entries \ Hidden : /\ tree[e] = "tracked" => e \in found
                                  /\ full /\ tree[e] # "clean" => e \in found
    BY DEF Untracked, GitInv, GitTypeOK, States
<1>5. found \subseteq Entries /\ full \in BOOLEAN
    OBVIOUS
<1> HIDE DEF found, full
<1>6. /\ new \in GitRequests /\ new.step = "classify" /\ new.found = found /\ new.partial = ~full
      /\ new.answer = request[r].answer
    BY <1>3, <1>5, RequestFacts DEF GitRequests, GitSteps
<1>7. request' = [request EXCEPT ![r] = new] /\ request'[r] = new
    BY <1>2 DEF GitInv
<1>8. new.answer = "none"
    BY <1>1, <1>6, RequestFacts DEF AnswerPending
<1> HIDE DEF new
<1>9. held' \in [Requests -> SUBSET Entries] /\ held'[r] \subseteq Entries /\ tree' = tree
    BY <1>1 DEF GitInv, Steady
<1>10. Gathered(r)' /\ GatheredEntries(r)'
    <2>1. request'[r].found = found /\ (~request'[r].partial => full)
        BY <1>5, <1>6, <1>7
    <2>2. ASSUME NEW e \in held'[r] \ Hidden
          PROVE  /\ tree'[e] = "tracked" => e \in found
                 /\ ~request'[r].partial /\ tree'[e] # "clean" => e \in found
        <3>1. e \in Entries \ Hidden /\ tree'[e] = tree[e]
            BY <1>9, <2>2
        <3>2. tree[e] = "tracked" => e \in found
            BY <1>4, <3>1
        <3>3. full /\ tree[e] # "clean" => e \in found
            BY <1>4, <3>1
        <3> QED BY <2>1, <3>1, <3>2, <3>3, Zenon
    <2> QED BY <1>5, <2>1, <2>2 DEF Gathered, GatheredEntries
<1>11. AnswerPending(r)' /\ CompleteFor(r)'
    BY <1>6, <1>7, <1>8 DEF AnswerPending, CompleteFor
<1>12. DiffFor(r)'
    BY <1>6, <1>7, <1>8 DEF DiffFor
<1>13. \A s \in Requests \ {r} : held'[s] = held[s]
    BY <1>1
<1> QED BY <1>1, <1>6, <1>7, <1>9, <1>10, <1>11, <1>12, <1>13, OneRequest

\* An entry that is no link has a change, and a file that git has or is new has one that is a file.
LEMMA ClassifiedEntries ==
    ASSUME NEW e \in Entries, tree[e] \in States
    PROVE  /\ Classified(e) \subseteq Entries \X {"file", "files", "embedded-repo"}
           /\ tree[e] # "link" => \E change \in Classified(e) : change[1] = e
           /\ tree[e] \in {"tracked", "untracked"} => <<e, "file">> \in Classified(e)
<1>1. CASE tree[e] = "link"
    BY <1>1 DEF Classified
<1>2. CASE tree[e] = "repository"
    BY <1>2 DEF Classified
<1>3. CASE tree[e] = "directory"
    BY <1>3 DEF Classified
<1>4. CASE tree[e] \in {"clean", "tracked", "untracked"}
    BY <1>4 DEF Classified
<1> QED BY <1>1, <1>2, <1>3, <1>4 DEF States

LEMMA ClassifyStep == ASSUME GitInv, NEW r \in Requests, ClassifyChange(r) PROVE GitInv'
<1> DEFINE entered == UNION {Classified(e) : e \in request[r].found}
           more == request[r].want # "list" /\ DiffPossible(r, entered)
           step == IF more THEN "diff" ELSE "idle"
           answer == IF request[r].want # "list" THEN "no change"
                     ELSE IF request[r].partial THEN "partial" ELSE "complete"
           new == [request[r] EXCEPT !.found = entered, !.step = step, !.answer = answer]
<1>1. /\ request[r].step = "classify" /\ UNCHANGED <<held, gitSuppressedUntil>> /\ Steady
      /\ IF more THEN Run(r) ELSE UNCHANGED processes
      /\ request' = [request EXCEPT ![r].found = entered, ![r].step = step, ![r].answer = answer]
    BY DEF ClassifyChange
<1>2. request[r].found \subseteq Entries /\ Gathered(r)
    BY <1>1, RequestFacts DEF GatheredEntries
<1>3. \A e \in Entries : tree[e] \in States
    BY DEF GitInv, GitTypeOK
<1>4. \A e \in request[r].found : Classified(e) \subseteq Entries \X {"file", "files", "embedded-repo"}
    BY <1>2, <1>3, ClassifiedEntries
<1>5. entered \in GitFound
    BY <1>4 DEF GitFound
<1>6. \A e \in request[r].found : tree[e] # "link" => \E change \in entered : change[1] = e
    <2> SUFFICES ASSUME NEW e \in request[r].found, tree[e] # "link" PROVE \E change \in entered : change[1] = e
        OBVIOUS
    <2>1. PICK change \in Classified(e) : change[1] = e
        BY <1>2, <1>3, ClassifiedEntries
    <2>2. change \in entered
        BY <2>1
    <2> QED BY <2>1, <2>2
<1>7. \A e \in request[r].found : tree[e] \in {"tracked", "untracked"} => <<e, "file">> \in entered
    <2> SUFFICES ASSUME NEW e \in request[r].found, tree[e] \in {"tracked", "untracked"}
                 PROVE  <<e, "file">> \in entered
        OBVIOUS
    <2>1. <<e, "file">> \in Classified(e)
        BY <1>2, <1>3, ClassifiedEntries
    <2> QED BY <2>1
<1>8. more <=> request[r].want # "list" /\ <<request[r].want, "file">> \in entered
    BY DEF DiffPossible
<1> HIDE DEF entered
<1>9. step \in {"diff", "idle"} /\ answer \in {"no change", "partial", "complete"} /\ more \in BOOLEAN
    BY <1>8
<1>10. /\ more => step = "diff" /\ answer = "no change"
       /\ ~more => step = "idle"
       /\ answer = "complete" => request[r].want = "list" /\ ~request[r].partial
       /\ answer = "no change" => request[r].want # "list"
    OBVIOUS
<1> HIDE DEF more, step, answer
<1>11. /\ new \in GitRequests /\ new.step = step /\ new.found = entered /\ new.answer = answer
       /\ new.want = request[r].want /\ new.partial = request[r].partial
    BY <1>5, <1>9, RequestFacts DEF GitRequests, GitSteps, GitAnswers
<1>12. request' = [request EXCEPT ![r] = new] /\ request'[r] = new
    BY <1>1 DEF GitInv
<1> HIDE DEF new
<1>13. /\ held' \in [Requests -> SUBSET Entries] /\ held'[r] = held[r] /\ held[r] \subseteq Entries /\ tree' = tree
       /\ \A s \in Requests \ {r} : held'[s] = held[s]
    BY <1>1 DEF GitInv, Steady
<1>14. Gathered(r)' /\ GatheredEntries(r)' /\ AnswerPending(r)'
    BY <1>9, <1>10, <1>11, <1>12 DEF Gathered, GatheredEntries, AnswerPending
<1>15. CompleteFor(r)'
    <2> SUFFICES ASSUME answer = "complete", NEW e \in held[r] \ Hidden, tree[e] \notin {"clean", "link"}
                 PROVE  \E change \in entered : change[1] = e
        BY <1>11, <1>12, <1>13 DEF CompleteFor
    <2>1. e \in request[r].found
        BY <1>1, <1>2, <1>10 DEF Gathered
    <2> QED BY <1>6, <2>1
<1>16. DiffFor(r)'
    <2> SUFFICES ASSUME request[r].want # "list", request[r].want \in held[r], ~request[r].partial
                 PROVE  /\ answer # "diff"
                        /\ answer = "no change" /\ step = "idle" =>
                              request[r].want \in Hidden \/ tree[request[r].want] \notin {"tracked", "untracked"}
        BY <1>11, <1>12, <1>13 DEF DiffFor
    <2>1. answer # "diff"
        BY <1>9
    <2>2. ASSUME step = "idle", request[r].want \notin Hidden PROVE tree[request[r].want] \notin {"tracked", "untracked"}
        <3>1. <<request[r].want, "file">> \notin entered
            BY <1>8, <1>10, <2>2
        <3>2. ASSUME tree[request[r].want] \in {"tracked", "untracked"} PROVE FALSE
            <4>1. request[r].want \in request[r].found
                BY <1>1, <1>2, <2>2, <3>2 DEF Gathered
            <4> QED BY <1>7, <3>1, <3>2, <4>1
        <3> QED BY <3>2
    <2> QED BY <2>1, <2>2
<1>17. processes' \subseteq processes \cup {r} /\ (stopped => r \notin processes')
    BY <1>1, RequestFacts DEF Run
<1>18. r \in processes' => new.step \in {"repo", "full", "tracked", "diff"}
    <2>1. CASE more
        BY <2>1, <1>10, <1>11
    <2>2. CASE ~more
        BY <2>2, <1>1, RequestFacts
    <2> QED BY <2>1, <2>2
<1> QED BY <1>1, <1>11, <1>12, <1>13, <1>14, <1>15, <1>16, <1>17, <1>18, OneRequest

\* A diff is answered from the entry as it is.
LEMMA DiffAnswered ==
    ASSUME GitInv, NEW r \in Requests, Steady, UNCHANGED <<held, gitSuppressedUntil>>,
           NEW answer \in {"diff", "no change", "not stored"},
           request' = [request EXCEPT ![r].step = "idle", ![r].answer = answer],
           processes' = processes \ {r},
           answer = "diff" => tree[request[r].want] \in {"tracked", "untracked"},
           answer = "no change" => tree[request[r].want] \notin {"tracked", "untracked"}
    PROVE  GitInv'
<1> DEFINE new == [request[r] EXCEPT !.step = "idle", !.answer = answer]
<1>1. /\ new \in GitRequests /\ new.step = "idle" /\ new.answer = answer /\ new.want = request[r].want
    BY RequestFacts DEF GitRequests, GitSteps, GitAnswers
<1>2. request' = [request EXCEPT ![r] = new] /\ request'[r] = new
    BY DEF GitInv
<1> HIDE DEF new
<1>3. Gathered(r)' /\ GatheredEntries(r)' /\ AnswerPending(r)' /\ CompleteFor(r)'
    BY <1>1, <1>2 DEF Gathered, GatheredEntries, AnswerPending, CompleteFor
<1>4. DiffFor(r)'
    BY <1>1, <1>2 DEF DiffFor, Steady
<1>5. held' \in [Requests -> SUBSET Entries] /\ \A s \in Requests \ {r} : held'[s] = held[s]
    BY DEF GitInv
<1> QED BY <1>1, <1>2, <1>3, <1>4, <1>5, OneRequest

LEMMA ReadGitDiffStep == ASSUME GitInv, NEW r \in Requests, ReadGitDiff(r) PROVE GitInv'
<1> DEFINE answer == IF tree[request[r].want] \in {"tracked", "untracked"} THEN "diff" ELSE "no change"
<1>1. /\ UNCHANGED <<held, gitSuppressedUntil>> /\ Steady /\ processes' = processes \ {r}
      /\ request' = [request EXCEPT ![r].step = "idle", ![r].answer = answer]
    BY DEF ReadGitDiff, Ends
<1> QED BY <1>1, DiffAnswered

LEMMA ReadHeadDiffStep == ASSUME GitInv, NEW r \in Requests, ReadHeadDiffWithoutGit(r) PROVE GitInv'
<1> DEFINE answer == CASE tree[request[r].want] = "tracked" -> "diff"
                       [] tree[request[r].want] = "clean" -> "no change" [] OTHER -> "not stored"
<1>1. /\ UNCHANGED <<held, gitSuppressedUntil>> /\ Steady /\ processes' = processes /\ request[r].step = "head"
      /\ request' = [request EXCEPT ![r].step = "idle", ![r].answer = answer]
    BY DEF ReadHeadDiffWithoutGit
<1>2. processes' = processes \ {r}
    BY <1>1, RequestFacts
<1>3. /\ answer \in {"diff", "no change", "not stored"}
      /\ answer = "diff" => tree[request[r].want] \in {"tracked", "untracked"}
      /\ answer = "no change" => tree[request[r].want] \notin {"tracked", "untracked"}
    OBVIOUS
<1> HIDE DEF answer
<1> QED BY <1>1, <1>2, <1>3, DiffAnswered

LEMMA TreeChangesStep == ASSUME GitInv, NEW e \in Entries, NEW state \in States, TreeChanges(e, state) PROVE GitInv'
<1>1. /\ tree' = [tree EXCEPT ![e] = state] /\ held' = [r \in Requests |-> held[r] \ {e}]
      /\ UNCHANGED <<clock, gitSuppressedUntil, stopped, request, processes>>
    BY DEF TreeChanges
<1>2. tree' \in [Entries -> States] /\ \A d \in Entries \ {e} : tree'[d] = tree[d]
    BY <1>1 DEF GitInv, GitTypeOK
<1>3. held' \in [Requests -> SUBSET Entries] /\ \A r \in Requests : held'[r] = held[r] \ {e} /\ held[r] \subseteq Entries
    BY <1>1 DEF GitInv
<1>4. GitTypeOK' /\ StoppedLeavesNoProcess'
    BY <1>1, <1>2 DEF GitInv, GitTypeOK, StoppedLeavesNoProcess
<1>5. ASSUME NEW r \in Requests
      PROVE  Gathered(r)' /\ GatheredEntries(r)' /\ AnswerPending(r)' /\ CompleteFor(r)' /\ DiffFor(r)'
    <2>1. \A d \in held'[r] : d \in held[r] /\ tree'[d] = tree[d]
        BY <1>2, <1>3
    <2>2. Gathered(r)' /\ GatheredEntries(r)' /\ AnswerPending(r)'
        BY <1>1, <2>1, RequestFacts DEF Gathered, GatheredEntries, AnswerPending
    <2>3. CompleteFor(r)'
        BY <1>1, <2>1, RequestFacts DEF CompleteFor
    <2>4. DiffFor(r)'
        BY <1>1, <2>1, RequestFacts DEF DiffFor
    <2> QED BY <2>2, <2>3, <2>4
<1> QED BY <1>1, <1>3, <1>4, <1>5 DEF GitInv

\* A step that only lets time pass or stops the server.
LEMMA RestOfGit ==
    ASSUME GitInv, UNCHANGED <<tree, held, gitSuppressedUntil, request>>,
           clock' \in Nat, clock <= clock', stopped' \in BOOLEAN,
           processes' \subseteq processes, stopped' => processes' = {}
    PROVE  GitInv'
<1>1. GitTypeOK'
    <2>1. gitSuppressedUntil <= clock + Cooldown /\ gitSuppressedUntil \in Nat /\ clock \in Nat /\ Cooldown \in Nat
        BY GitReviewAssumption DEF GitInv, GitTypeOK
    <2>2. \A a, b, c, d \in Nat : a <= b + c /\ b <= d => a <= d + c
        OBVIOUS
    <2>3. gitSuppressedUntil <= clock' + Cooldown
        BY <2>1, <2>2
    <2> QED BY <2>3 DEF GitInv, GitTypeOK
<1>2. ASSUME NEW r \in Requests
      PROVE  Gathered(r)' /\ GatheredEntries(r)' /\ AnswerPending(r)' /\ CompleteFor(r)' /\ DiffFor(r)'
    <2>1. Gathered(r)' /\ GatheredEntries(r)' /\ AnswerPending(r)'
        BY RequestFacts DEF Gathered, GatheredEntries, AnswerPending
    <2>2. CompleteFor(r)'
        BY RequestFacts DEF CompleteFor
    <2>3. DiffFor(r)'
        BY RequestFacts DEF DiffFor
    <2> QED BY <2>1, <2>2, <2>3
<1> QED BY <1>1, <1>2 DEF GitInv, StoppedLeavesNoProcess

LEMMA GitStep == GitInv /\ GitNext => GitInv'
<1> SUFFICES ASSUME GitInv, GitNext PROVE GitInv'
    OBVIOUS
<1>1. ASSUME NEW r \in Requests, NEW want \in Entries \cup {"list"}, ReadChanges(r, want) PROVE GitInv'
    BY <1>1, ReadChangesStep
<1>2. ASSUME NEW r \in Requests,
             GitFails(r) \/ ResolveGitWorkspace(r) \/ GitStatus(r) \/ TimesOut(r)
             \/ ClassifyChange(r) \/ ReadGitDiff(r) \/ ReadHeadDiffWithoutGit(r)
      PROVE  GitInv'
    BY <1>2, GitFailsStep, ResolveStep, GitStatusStep, TimesOutStep, ClassifyStep, ReadGitDiffStep, ReadHeadDiffStep
<1>3. ASSUME NEW e \in Entries, NEW state \in States, TreeChanges(e, state) PROVE GitInv'
    BY <1>3, TreeChangesStep
<1>4. ASSUME Tick PROVE GitInv'
    <2>1. clock' \in Nat /\ clock <= clock'
        BY <1>4 DEF Tick, GitInv
    <2> QED BY <1>4, <2>1, RestOfGit DEF Tick, GitInv, StoppedLeavesNoProcess
<1>5. ASSUME GitReviewStops PROVE GitInv'
    <2>1. clock' \in Nat /\ clock <= clock'
        BY <1>5 DEF GitReviewStops, GitInv
    <2> QED BY <1>5, <2>1, RestOfGit DEF GitReviewStops, Stop
<1> QED BY <1>1, <1>2, <1>3, <1>4, <1>5 DEF GitNext

-----------------------------------------------------------------------------
(* The diff without git *)

Files == Texts \cup {"binary"}
ReadingSteps == {"idle", "dotgit", "HEAD", "ref", "packed-refs", "commit", "tree", "subtree", "blob", "working"}
ReadingAnswers == {"none", "not a repository", "no such reference", "packed", "not committed", "not a file",
                   "invalid tree", "binary", "deleted", "no change", "diff"}
Readings == [step : ReadingSteps, branch : Branches \cup {NoCommit}, commit : Nat, head : Stored,
             answer : ReadingAnswers]

\* What git keeps: HEAD is a commit, and the objects of every commit are somewhere.
RepositoryInv ==
    /\ commits \in Seq(Stored) /\ Len(commits) >= 1
    /\ looseRefs \in [Branches -> DOMAIN commits \cup {NoCommit}]
    /\ packedRefs \in [Branches -> DOMAIN commits \cup {NoCommit}]
    /\ checkedOut \in Branches \cup DOMAIN commits /\ HeadCommit \in DOMAIN commits
    /\ \A c \in DOMAIN commits : Objects(c) \subseteq loose \cup packed
    /\ loose \cap packed = {}
    /\ working \in Files \cup {NoText}

\* What the request goes by was HEAD's since it began: the branch, the packed reference of the
\* branch once its own file was not there, and the commit.
BranchWasHead ==
    reading.step \in {"ref", "packed-refs"} =>
        /\ reading.branch \in Branches /\ TipOf(reading.branch) \in heads
        /\ reading.step = "packed-refs" /\ RefsAreHere => packedRefs[reading.branch] \in heads

CommitWasHead ==
    /\ reading.step \in {"commit", "tree", "subtree", "blob", "working"} => reading.commit \in heads
    /\ reading.step = "blob" => commits[reading.commit] \in Files
    /\ reading.step = "working" => reading.head = commits[reading.commit] /\ reading.head \in Files

ObjectsInv ==
    /\ RepositoryInv /\ reading \in Readings /\ heads \subseteq DOMAIN commits
    /\ reading.step # "idle" => reading.answer = "none" /\ HeadCommit \in heads /\ working \in works
    /\ reading.step = "idle" /\ reading.answer = "none" => reading = NotReading
    /\ BranchWasHead /\ CommitWasHead
    /\ SidesAreOfTheRequest /\ RefusedNeedsGit

LEMMA ObjectsInvImplies == ObjectsInv => ObjectsTypeOK /\ SidesAreOfTheRequest /\ RefusedNeedsGit
BY DEF ObjectsInv, RepositoryInv, ObjectsTypeOK

LEMMA NothingAnswered ==
    (reading.answer = "none" \/ reading.step # "idle") => SidesAreOfTheRequest /\ RefusedNeedsGit
BY DEF SidesAreOfTheRequest, RefusedNeedsGit, AnsweredWith

LEMMA ObjectsStart == ObjectsInit => ObjectsInv
<1> SUFFICES ASSUME ObjectsInit PROVE ObjectsInv
    OBVIOUS
<1>1. PICK v \in Stored : commits = <<v>>
    BY DEF ObjectsInit
<1>2. commits \in Seq(Stored) /\ Len(commits) = 1 /\ DOMAIN commits = {1} /\ commits[1] = v
    BY <1>1
<1>3. PICK main \in Branches : /\ checkedOut = main
                               /\ looseRefs = [b \in Branches |-> IF b = main THEN 1 ELSE NoCommit]
    BY DEF ObjectsInit
<1>4. HeadCommit = 1
    BY <1>3 DEF HeadCommit, TipOf, NoCommit
<1>5. RepositoryInv
    BY <1>2, <1>3, <1>4 DEF ObjectsInit, RepositoryInv, NoCommit, Files
<1>6. reading \in Readings /\ reading = NotReading /\ reading.step = "idle" /\ reading.answer = "none"
    BY DEF ObjectsInit, NotReading, Readings, ReadingSteps, ReadingAnswers, Stored, NoCommit
<1>7. heads = {}
    BY DEF ObjectsInit
<1> QED BY <1>5, <1>6, <1>7, NothingAnswered DEF ObjectsInv, BranchWasHead, CommitWasHead

LEMMA ObjectsStutter == ObjectsInv /\ UNCHANGED objectVars => ObjectsInv'
<1> SUFFICES ASSUME ObjectsInv, UNCHANGED objectVars PROVE ObjectsInv'
    OBVIOUS
<1> USE DEF objectVars
<1>1. HeadCommit' = HeadCommit
    BY DEF HeadCommit, TipOf
<1>2. RepositoryInv'
    BY <1>1 DEF ObjectsInv, RepositoryInv, Objects
<1>3. BranchWasHead' /\ CommitWasHead'
    BY DEF ObjectsInv, BranchWasHead, CommitWasHead, TipOf, RefsAreHere
<1>4. SidesAreOfTheRequest'
    BY DEF ObjectsInv, SidesAreOfTheRequest, AnsweredWith, SomeHead, SomeWork
<1>5. RefusedNeedsGit'
    BY DEF ObjectsInv, RefusedNeedsGit, AnsweredWith, SomeHead
<1> QED BY <1>1, <1>2, <1>3, <1>4, <1>5 DEF ObjectsInv, NotReading

\* Git may be used in between: references move only with HEAD, and are packed as they are.
LEMMA GitInBetween ==
    ASSUME ObjectsInv, GitIsUsed, Witnessed, RepositoryInv',
           DOMAIN commits \subseteq DOMAIN commits', \A c \in DOMAIN commits : commits'[c] = commits[c],
           \A b \in Branches : TipOf(b) # NoCommit => TipOf(b)' \in {TipOf(b), HeadCommit'},
           \A b \in Branches : packedRefs'[b] \in {packedRefs[b], TipOf(b)}
    PROVE  ObjectsInv'
<1>1. /\ reading.answer = "none" /\ reading' = reading /\ layout' = layout
      /\ heads' = heads \cup {HeadCommit'} /\ works' = works \cup {working'}
    BY DEF GitIsUsed, Witnessed
<1>2. HeadCommit' \in DOMAIN commits' /\ heads' \subseteq DOMAIN commits'
    BY <1>1 DEF RepositoryInv, ObjectsInv
<1>3. 0 \notin DOMAIN commits
    BY DEF ObjectsInv, RepositoryInv
<1>4. BranchWasHead'
    <2> SUFFICES ASSUME reading.step \in {"ref", "packed-refs"}
                 PROVE  /\ reading.branch \in Branches /\ TipOf(reading.branch)' \in heads'
                        /\ reading.step = "packed-refs" /\ RefsAreHere => packedRefs'[reading.branch] \in heads'
        BY <1>1 DEF BranchWasHead, RefsAreHere, TipOf
    <2>1. reading.branch \in Branches /\ TipOf(reading.branch) \in heads
        BY DEF ObjectsInv, BranchWasHead
    <2>2. TipOf(reading.branch) # NoCommit
        BY <1>3, <2>1 DEF ObjectsInv, NoCommit
    <2>3. TipOf(reading.branch)' \in heads'
        BY <1>1, <2>1, <2>2
    <2>4. reading.step = "packed-refs" /\ RefsAreHere => packedRefs'[reading.branch] \in heads'
        BY <1>1, <2>1 DEF ObjectsInv, BranchWasHead
    <2> QED BY <2>1, <2>3, <2>4
<1>5. CommitWasHead'
    BY <1>1 DEF CommitWasHead, ObjectsInv
<1>6. SidesAreOfTheRequest' /\ RefusedNeedsGit'
    BY <1>1 DEF SidesAreOfTheRequest, RefusedNeedsGit, AnsweredWith
<1>7. reading' \in Readings /\ (reading'.step # "idle" => reading'.answer = "none" /\ HeadCommit' \in heads' /\ working' \in works')
    BY <1>1 DEF ObjectsInv
<1>8. reading'.step = "idle" /\ reading'.answer = "none" => reading' = NotReading'
    BY <1>1 DEF ObjectsInv, NotReading
<1> QED BY <1>2, <1>4, <1>5, <1>6, <1>7, <1>8 DEF ObjectsInv

LEMMA EditStep == ASSUME ObjectsInv, NEW text \in Texts \cup {NoText}, Edit(text) PROVE ObjectsInv'
<1>1. /\ GitIsUsed /\ Witnessed /\ working' = text
      /\ UNCHANGED <<commits, checkedOut, looseRefs, packedRefs, loose, packed>>
    BY DEF Edit
<1>2. HeadCommit' = HeadCommit /\ \A b \in Branches : TipOf(b)' = TipOf(b)
    BY <1>1 DEF HeadCommit, TipOf
<1>3. RepositoryInv'
    BY <1>1, <1>2 DEF ObjectsInv, RepositoryInv, Objects, Files
<1> QED BY <1>1, <1>2, <1>3, GitInBetween

LEMMA CommitStep == ASSUME ObjectsInv, NEW stored \in Texts \cup {NoText}, Commit(stored) PROVE ObjectsInv'
<1> DEFINE new == Len(commits) + 1
           made == {<<"commit", new>>, <<"tree", new>>, <<"subtree", stored>>, <<"blob", stored>>}
<1>1. /\ GitIsUsed /\ Witnessed /\ commits' = Append(commits, stored) /\ loose' = loose \cup (made \ packed)
      /\ UNCHANGED <<packedRefs, packed, working>>
    BY DEF Commit
<1>2. /\ commits \in Seq(Stored) /\ stored \in Stored /\ Len(commits) \in Nat /\ DOMAIN commits = 1 .. Len(commits)
    <2>1. stored \in Stored
        BY DEF Stored
    <2> QED BY <2>1 DEF ObjectsInv, RepositoryInv
<1>3. /\ commits' \in Seq(Stored) /\ Len(commits') = new /\ DOMAIN commits' = DOMAIN commits \cup {new}
      /\ new \notin DOMAIN commits /\ commits'[new] = stored /\ \A c \in DOMAIN commits : commits'[c] = commits[c]
    BY <1>1, <1>2
<1>4. new \in Nat \ {0} /\ new \notin Branches
    BY <1>2, ObjectsAssumption
<1> HIDE DEF new
<1>5. /\ looseRefs' \in [Branches -> DOMAIN commits' \cup {NoCommit}]
      /\ checkedOut' \in Branches \cup DOMAIN commits' /\ HeadCommit' = new
      /\ \A b \in Branches : TipOf(b)' \in {TipOf(b), new}
    <2>1. CASE checkedOut \in Branches
        <3>1. looseRefs' = [looseRefs EXCEPT ![checkedOut] = new] /\ checkedOut' = checkedOut
            BY <2>1 DEF Commit, new
        <3>2. looseRefs' \in [Branches -> DOMAIN commits' \cup {NoCommit}]
            BY <1>3, <2>1, <3>1 DEF ObjectsInv, RepositoryInv
        <3>3. \A b \in Branches : TipOf(b)' = IF b = checkedOut THEN new ELSE TipOf(b)
            BY <1>1, <1>4, <2>1, <3>1 DEF ObjectsInv, RepositoryInv, TipOf, NoCommit
        <3> QED BY <2>1, <3>1, <3>2, <3>3 DEF HeadCommit
    <2>2. CASE checkedOut \notin Branches
        <3>1. checkedOut' = new /\ looseRefs' = looseRefs
            BY <2>2 DEF Commit, new
        <3>2. looseRefs' \in [Branches -> DOMAIN commits' \cup {NoCommit}]
            BY <1>3, <3>1 DEF ObjectsInv, RepositoryInv
        <3>3. \A b \in Branches : TipOf(b)' = TipOf(b)
            BY <1>1, <3>1 DEF TipOf
        <3> QED BY <1>3, <1>4, <3>1, <3>2, <3>3 DEF HeadCommit
    <2> QED BY <2>1, <2>2
<1>6. \A c \in DOMAIN commits' : Objects(c)' \subseteq loose' \cup packed'
    <2>1. ASSUME NEW c \in DOMAIN commits PROVE Objects(c)' \subseteq loose' \cup packed'
        <3>1. Objects(c)' = Objects(c)
            BY <1>3 DEF Objects
        <3>2. Objects(c) \subseteq loose \cup packed
            BY DEF ObjectsInv, RepositoryInv
        <3> QED BY <1>1, <3>1, <3>2
    <2>2. ASSUME NEW c \in DOMAIN commits', c = new PROVE Objects(c)' \subseteq loose' \cup packed'
        <3>1. Objects(c)' = {<<"commit", c>>, <<"tree", c>>, <<"subtree", stored>>, <<"blob", stored>>}
            BY <1>3, <2>2 DEF Objects
        <3>2. Objects(c)' = made
            BY <2>2, <3>1
        <3> QED BY <1>1, <3>2
    <2>3. \A c \in DOMAIN commits' : c \in DOMAIN commits \/ c = new
        BY <1>3
    <2> QED BY <2>1, <2>2, <2>3
<1>7. loose' \cap packed' = {}
    BY <1>1 DEF ObjectsInv, RepositoryInv
<1>8. packedRefs' \in [Branches -> DOMAIN commits' \cup {NoCommit}]
    BY <1>1, <1>3 DEF ObjectsInv, RepositoryInv
<1>9. RepositoryInv'
    BY <1>1, <1>3, <1>4, <1>5, <1>6, <1>7, <1>8 DEF ObjectsInv, RepositoryInv
<1> QED BY <1>1, <1>3, <1>5, <1>9, GitInBetween

LEMMA CheckoutStep == ASSUME ObjectsInv, NEW target \in Branches \cup {1}, Checkout(target) PROVE ObjectsInv'
<1>1. /\ GitIsUsed /\ Witnessed /\ checkedOut' = target
      /\ looseRefs' = IF target \in Branches /\ TipOf(target) = NoCommit
                      THEN [looseRefs EXCEPT ![target] = HeadCommit] ELSE looseRefs
      /\ UNCHANGED <<commits, packedRefs, loose, packed, working>>
    BY DEF Checkout
<1>2. /\ HeadCommit \in DOMAIN commits /\ 1 \in DOMAIN commits /\ 0 \notin DOMAIN commits
      /\ looseRefs \in [Branches -> DOMAIN commits \cup {NoCommit}]
      /\ packedRefs \in [Branches -> DOMAIN commits \cup {NoCommit}]
    BY DEF ObjectsInv, RepositoryInv
<1>3. /\ looseRefs' \in [Branches -> DOMAIN commits \cup {NoCommit}] /\ HeadCommit' \in DOMAIN commits
      /\ \A b \in Branches : TipOf(b) # NoCommit => TipOf(b)' = TipOf(b)
    <2>1. CASE target \in Branches /\ TipOf(target) = NoCommit
        <3>1. looseRefs' = [looseRefs EXCEPT ![target] = HeadCommit]
            BY <1>1, <2>1
        <3>2. \A b \in Branches \ {target} : TipOf(b)' = TipOf(b)
            BY <1>1, <3>1 DEF TipOf
        <3>3. TipOf(target)' = HeadCommit
            BY <1>1, <1>2, <2>1, <3>1 DEF TipOf, NoCommit
        <3>4. HeadCommit' = HeadCommit
            BY <1>1, <2>1, <3>3 DEF HeadCommit
        <3> QED BY <1>2, <2>1, <3>1, <3>2, <3>4
    <2>2. CASE target \in Branches /\ TipOf(target) # NoCommit
        <3>1. looseRefs' = looseRefs
            BY <1>1, <2>2
        <3>2. \A b \in Branches : TipOf(b)' = TipOf(b)
            BY <1>1, <3>1 DEF TipOf
        <3>3. TipOf(target) \in DOMAIN commits
            BY <1>2, <2>2 DEF TipOf
        <3> QED BY <1>1, <1>2, <2>2, <3>1, <3>2, <3>3 DEF HeadCommit
    <2>3. CASE target \notin Branches
        <3>1. looseRefs' = looseRefs /\ target = 1
            BY <1>1, <2>3
        <3>2. \A b \in Branches : TipOf(b)' = TipOf(b)
            BY <1>1, <3>1 DEF TipOf
        <3> QED BY <1>1, <1>2, <2>3, <3>1, <3>2 DEF HeadCommit
    <2> QED BY <2>1, <2>2, <2>3
<1>4. RepositoryInv'
    BY <1>1, <1>2, <1>3 DEF ObjectsInv, RepositoryInv, Objects
<1> QED BY <1>1, <1>3, <1>4, GitInBetween

LEMMA ResetStep == ASSUME ObjectsInv, NEW c \in DOMAIN commits, Reset(c) PROVE ObjectsInv'
<1>1. /\ GitIsUsed /\ Witnessed /\ checkedOut \in Branches /\ looseRefs' = [looseRefs EXCEPT ![checkedOut] = c]
      /\ UNCHANGED <<commits, checkedOut, packedRefs, loose, packed, working>>
    BY DEF Reset
<1>2. 0 \notin DOMAIN commits /\ looseRefs \in [Branches -> DOMAIN commits \cup {NoCommit}]
    BY DEF ObjectsInv, RepositoryInv
<1>3. \A b \in Branches : TipOf(b)' = IF b = checkedOut THEN c ELSE TipOf(b)
    BY <1>1, <1>2 DEF TipOf, NoCommit
<1>4. HeadCommit' = c
    BY <1>1, <1>3 DEF HeadCommit
<1>5. RepositoryInv'
    BY <1>1, <1>2, <1>4 DEF ObjectsInv, RepositoryInv, Objects
<1> QED BY <1>1, <1>3, <1>4, <1>5, GitInBetween

LEMMA PackRefsStep == ASSUME ObjectsInv, PackRefs PROVE ObjectsInv'
<1>1. /\ GitIsUsed /\ Witnessed /\ packedRefs' = [b \in Branches |-> TipOf(b)]
      /\ looseRefs' = [b \in Branches |-> NoCommit]
      /\ UNCHANGED <<commits, checkedOut, loose, packed, working>>
    BY DEF PackRefs
<1>2. /\ looseRefs \in [Branches -> DOMAIN commits \cup {NoCommit}]
      /\ packedRefs \in [Branches -> DOMAIN commits \cup {NoCommit}]
    BY DEF ObjectsInv, RepositoryInv
<1>3. \A b \in Branches : TipOf(b) \in DOMAIN commits \cup {NoCommit}
    BY <1>2 DEF TipOf
<1>4. \A b \in Branches : packedRefs'[b] = TipOf(b) /\ TipOf(b)' = TipOf(b)
    BY <1>1 DEF TipOf
<1>5. HeadCommit' = HeadCommit
    BY <1>1, <1>4 DEF HeadCommit
<1>6. RepositoryInv'
    BY <1>1, <1>3, <1>5 DEF ObjectsInv, RepositoryInv, Objects
<1> QED BY <1>1, <1>4, <1>6, GitInBetween

LEMMA CollectGarbageStep == ASSUME ObjectsInv, CollectGarbage PROVE ObjectsInv'
<1>1. /\ GitIsUsed /\ Witnessed /\ packed' = packed \cup loose /\ loose' = {}
      /\ UNCHANGED <<commits, checkedOut, looseRefs, packedRefs, working>>
    BY DEF CollectGarbage
<1>2. HeadCommit' = HeadCommit /\ \A b \in Branches : TipOf(b)' = TipOf(b)
    BY <1>1 DEF HeadCommit, TipOf
<1>3. RepositoryInv'
    BY <1>1, <1>2 DEF ObjectsInv, RepositoryInv, Objects
<1> QED BY <1>1, <1>2, <1>3, GitInBetween

LEMMA RepositoryStays == ASSUME ObjectsInv, Repository
                         PROVE  RepositoryInv' /\ HeadCommit' = HeadCommit /\ RefsAreHere' = RefsAreHere
<1>1. HeadCommit' = HeadCommit
    BY DEF Repository, HeadCommit, TipOf
<1> QED BY <1>1 DEF ObjectsInv, Repository, RepositoryInv, Objects, RefsAreHere

LEMMA ReadingGoesOn ==
    ASSUME ObjectsInv, Reads, reading.step # "idle",
           reading' \in Readings, reading'.step # "idle", reading'.answer = "none",
           BranchWasHead', CommitWasHead'
    PROVE  ObjectsInv'
<1>1. RepositoryInv' /\ HeadCommit' = HeadCommit /\ UNCHANGED <<heads, works, working, commits>>
    BY RepositoryStays DEF Reads, Repository
<1>2. SidesAreOfTheRequest' /\ RefusedNeedsGit'
    BY DEF SidesAreOfTheRequest, RefusedNeedsGit, AnsweredWith
<1> QED BY <1>1, <1>2 DEF ObjectsInv

LEMMA ReadingEnds ==
    ASSUME ObjectsInv, Reads, reading.step # "idle",
           NEW answer \in ReadingAnswers \ {"none"}, Replies(answer),
           SidesAreOfTheRequest', RefusedNeedsGit'
    PROVE  ObjectsInv'
<1>1. RepositoryInv' /\ HeadCommit' = HeadCommit /\ UNCHANGED <<heads, works, working, commits>>
    BY RepositoryStays DEF Reads, Repository
<1>2. reading' = [reading EXCEPT !.step = "idle", !.answer = answer] /\ reading \in Readings
    BY DEF Replies, ObjectsInv
<1>3. reading' \in Readings /\ reading'.step = "idle" /\ reading'.answer = answer
    BY <1>2 DEF Readings, ReadingSteps
<1>4. BranchWasHead' /\ CommitWasHead'
    BY <1>3 DEF BranchWasHead, CommitWasHead
<1> QED BY <1>1, <1>3, <1>4 DEF ObjectsInv

\* What an answer needs, when the commit that was read is one of the request's.
LEMMA AnswerFits ==
    ASSUME ObjectsInv, Reads, reading.step # "idle",
           NEW answer \in ReadingAnswers \ {"none"}, Replies(answer),
           answer \in {"deleted", "no change", "diff"} => \E c \in heads : commits[c] = reading.head,
           answer = "deleted" => NoText \in works,
           answer = "no change" => reading.head \in works,
           answer = "diff" => \E w \in works : w \in Texts \ {reading.head},
           answer = "not committed" => \E c \in heads : commits[c] = NoText,
           layout \in {"directory", "moved"} =>
               /\ answer \notin {"no such reference", "not a repository"}
               /\ answer = "packed" => packed # {} \/ \E c \in heads : commits[c] = "submodule"
               /\ answer \in {"not a file", "invalid tree"} =>
                     \E c \in heads : commits[c] \in {"link", "under a file"}
    PROVE  ObjectsInv'
<1>1. UNCHANGED <<heads, works, commits, packed, layout>>
    BY DEF Reads, Repository
<1>2. reading'.step = "idle" /\ reading'.answer = answer /\ reading'.head = reading.head
    BY DEF Replies, ObjectsInv, Readings
<1>3. SidesAreOfTheRequest'
    BY <1>1, <1>2 DEF SidesAreOfTheRequest, AnsweredWith, SomeHead, SomeWork
<1>4. RefusedNeedsGit'
    BY <1>1, <1>2 DEF RefusedNeedsGit, AnsweredWith, SomeHead
<1> QED BY <1>3, <1>4, ReadingEnds

LEMMA BeginReadingStep == ASSUME ObjectsInv, BeginReading PROVE ObjectsInv'
<1>1. /\ reading' = [NotReading EXCEPT !.step = "dotgit"] /\ heads' = {HeadCommit} /\ works' = {working} /\ Repository
    BY DEF BeginReading
<1>2. reading' \in Readings /\ reading'.step = "dotgit" /\ reading'.answer = "none"
    BY <1>1 DEF NotReading, Readings, ReadingSteps, ReadingAnswers, Stored, NoCommit
<1>3. RepositoryInv' /\ HeadCommit' = HeadCommit /\ UNCHANGED <<working, commits>>
    BY <1>1, RepositoryStays DEF Repository
<1>4. HeadCommit \in DOMAIN commits
    BY DEF ObjectsInv, RepositoryInv
<1>5. SidesAreOfTheRequest' /\ RefusedNeedsGit'
    BY <1>2 DEF SidesAreOfTheRequest, RefusedNeedsGit, AnsweredWith
<1>6. BranchWasHead' /\ CommitWasHead'
    BY <1>2 DEF BranchWasHead, CommitWasHead
<1> QED BY <1>1, <1>2, <1>3, <1>4, <1>5, <1>6 DEF ObjectsInv

LEMMA OnStep ==
    ASSUME ObjectsInv, NEW step \in ReadingSteps, On(step)
    PROVE  /\ reading' \in Readings /\ reading'.step = step /\ reading'.answer = reading.answer
           /\ reading'.branch = reading.branch /\ reading'.commit = reading.commit /\ reading'.head = reading.head
BY DEF ObjectsInv, On, Readings

LEMMA ResolveGitDirStep == ASSUME ObjectsInv, ResolveGitDir PROVE ObjectsInv'
<1>1. reading.step = "dotgit" /\ Reads
    BY DEF ResolveGitDir
<1>2. CASE layout = "none"
    <2>1. Replies("not a repository")
        BY <1>2 DEF ResolveGitDir
    <2> QED BY <1>1, <1>2, <2>1, AnswerFits DEF ReadingAnswers
<1>3. CASE layout # "none"
    <2>1. On("HEAD")
        BY <1>3 DEF ResolveGitDir
    <2>2. reading' \in Readings /\ reading'.step = "HEAD" /\ reading'.answer = "none"
        BY <1>1, <2>1, OnStep DEF ObjectsInv, ReadingSteps
    <2>3. BranchWasHead' /\ CommitWasHead'
        BY <2>2 DEF BranchWasHead, CommitWasHead
    <2> QED BY <1>1, <2>2, <2>3, ReadingGoesOn
<1> QED BY <1>2, <1>3

LEMMA ReadHeadStep == ASSUME ObjectsInv, ReadHead PROVE ObjectsInv'
<1>1. /\ reading.step = "HEAD" /\ Reads /\ reading.answer = "none" /\ HeadCommit \in heads /\ reading \in Readings
    BY DEF ReadHead, ObjectsInv
<1>2. UNCHANGED <<heads, looseRefs, packedRefs, commits>>
    BY <1>1 DEF Reads, Repository
<1>3. CASE checkedOut \in Branches
    <2>1. reading' = [reading EXCEPT !.step = "ref", !.branch = checkedOut]
        BY <1>3 DEF ReadHead
    <2>2. /\ reading' \in Readings /\ reading'.step = "ref" /\ reading'.answer = "none" /\ reading'.branch = checkedOut
        BY <1>1, <1>3, <2>1 DEF Readings, ReadingSteps
    <2>3. TipOf(checkedOut) \in heads
        BY <1>1, <1>3 DEF HeadCommit
    <2>4. BranchWasHead'
        BY <1>2, <1>3, <2>2, <2>3 DEF BranchWasHead, TipOf
    <2>5. CommitWasHead'
        BY <2>2 DEF CommitWasHead
    <2> QED BY <1>1, <2>2, <2>4, <2>5, ReadingGoesOn
<1>4. CASE checkedOut \notin Branches
    <2>1. reading' = [reading EXCEPT !.step = "commit", !.commit = checkedOut]
        BY <1>4 DEF ReadHead
    <2>2. checkedOut \in Nat /\ checkedOut \in heads
        BY <1>1, <1>4 DEF HeadCommit, ObjectsInv, RepositoryInv
    <2>3. /\ reading' \in Readings /\ reading'.step = "commit" /\ reading'.answer = "none" /\ reading'.commit = checkedOut
        BY <1>1, <2>1, <2>2 DEF Readings, ReadingSteps
    <2>4. BranchWasHead' /\ CommitWasHead'
        BY <1>2, <2>2, <2>3 DEF BranchWasHead, CommitWasHead
    <2> QED BY <1>1, <2>3, <2>4, ReadingGoesOn
<1> QED BY <1>3, <1>4

\* A commit that a reference leads to.
LEMMA CommitFound ==
    ASSUME ObjectsInv, Reads, reading.step # "idle", NEW c \in heads,
           reading' = [reading EXCEPT !.step = "commit", !.commit = c]
    PROVE  ObjectsInv'
<1>1. reading \in Readings /\ reading.answer = "none" /\ c \in Nat
    BY DEF ObjectsInv, RepositoryInv
<1>2. /\ reading' \in Readings /\ reading'.step = "commit" /\ reading'.answer = "none" /\ reading'.commit = c
    BY <1>1 DEF Readings, ReadingSteps
<1>3. BranchWasHead' /\ CommitWasHead'
    BY <1>2 DEF BranchWasHead, CommitWasHead, Reads
<1> QED BY <1>2, <1>3, ReadingGoesOn

LEMMA ReadRefStep == ASSUME ObjectsInv, ReadRef PROVE ObjectsInv'
<1>1. /\ reading.step = "ref" /\ Reads /\ reading.answer = "none" /\ reading \in Readings
      /\ reading.branch \in Branches /\ TipOf(reading.branch) \in heads
    BY DEF ReadRef, ObjectsInv, BranchWasHead
<1>2. CASE RefsAreHere /\ looseRefs[reading.branch] # NoCommit
    <2>1. reading' = [reading EXCEPT !.step = "commit", !.commit = looseRefs[reading.branch]]
        BY <1>2 DEF ReadRef
    <2>2. looseRefs[reading.branch] \in heads
        BY <1>1, <1>2 DEF TipOf
    <2> QED BY <1>1, <2>1, <2>2, CommitFound
<1>3. CASE ~(RefsAreHere /\ looseRefs[reading.branch] # NoCommit)
    <2>1. reading' = [reading EXCEPT !.step = "packed-refs"]
        BY <1>3 DEF ReadRef
    <2>2. /\ reading' \in Readings /\ reading'.step = "packed-refs" /\ reading'.answer = "none"
          /\ reading'.branch = reading.branch
        BY <1>1, <2>1 DEF Readings, ReadingSteps
    <2>3. RefsAreHere => packedRefs[reading.branch] \in heads
        BY <1>1, <1>3 DEF TipOf
    <2>4. BranchWasHead' /\ CommitWasHead'
        BY <1>1, <2>2, <2>3 DEF BranchWasHead, CommitWasHead, Reads, Repository, RefsAreHere, TipOf
    <2> QED BY <1>1, <2>2, <2>4, ReadingGoesOn
<1> QED BY <1>2, <1>3

LEMMA ReadPackedRefStep == ASSUME ObjectsInv, ReadPackedRef PROVE ObjectsInv'
<1>1. /\ reading.step = "packed-refs" /\ Reads /\ reading.branch \in Branches
      /\ RefsAreHere => packedRefs[reading.branch] \in heads
    BY DEF ReadPackedRef, ObjectsInv, BranchWasHead
<1>2. 0 \notin heads
    BY DEF ObjectsInv, RepositoryInv
<1>3. CASE RefsAreHere /\ packedRefs[reading.branch] # NoCommit
    <2>1. reading' = [reading EXCEPT !.step = "commit", !.commit = packedRefs[reading.branch]]
        BY <1>3 DEF ReadPackedRef
    <2> QED BY <1>1, <1>3, <2>1, CommitFound
<1>4. CASE ~(RefsAreHere /\ packedRefs[reading.branch] # NoCommit)
    <2>1. Replies("no such reference")
        BY <1>4 DEF ReadPackedRef, Replies
    <2>2. layout = "linked worktree"
        BY <1>1, <1>2, <1>4 DEF RefsAreHere, NoCommit
    <2> QED BY <1>1, <2>1, <2>2, AnswerFits DEF ReadingAnswers
<1> QED BY <1>3, <1>4

\* The request goes on to the next object of its commit.
LEMMA NextObject ==
    ASSUME ObjectsInv, Reads, reading.step \in {"commit", "tree", "subtree"},
           NEW step \in {"tree", "subtree", "blob"}, On(step),
           step = "blob" => commits[reading.commit] \in Files
    PROVE  ObjectsInv'
<1>1. /\ reading' \in Readings /\ reading'.step = step /\ reading'.answer = "none" /\ reading'.commit = reading.commit
    BY OnStep DEF ObjectsInv, ReadingSteps
<1>2. reading.commit \in heads
    BY DEF ObjectsInv, CommitWasHead
<1>3. BranchWasHead' /\ CommitWasHead'
    BY <1>1, <1>2 DEF BranchWasHead, CommitWasHead, Reads, Repository
<1> QED BY <1>1, <1>3, ReadingGoesOn

\* An object that is not loose is packed, unless the repository is elsewhere.
LEMMA PackedObject ==
    ASSUME ObjectsInv, Reads, reading.step \in {"commit", "tree", "subtree", "blob"},
           NEW object \in Objects(reading.commit), ~(RefsAreHere /\ object \in loose), Replies("packed")
    PROVE  ObjectsInv'
<1>1. reading.commit \in DOMAIN commits
    BY DEF ObjectsInv, CommitWasHead
<1>2. object \in loose \cup packed
    BY <1>1 DEF ObjectsInv, RepositoryInv
<1>3. layout \in {"directory", "moved"} => packed # {}
    BY <1>2 DEF RefsAreHere
<1> QED BY <1>3, AnswerFits DEF ReadingAnswers

LEMMA ReadCommitStep == ASSUME ObjectsInv, ReadCommit PROVE ObjectsInv'
<1>1. /\ reading.step = "commit" /\ Reads
      /\ IF RefsAreHere /\ <<"commit", reading.commit>> \in loose THEN On("tree") ELSE Replies("packed")
    BY DEF ReadCommit, ReadGitObject
<1>2. <<"commit", reading.commit>> \in Objects(reading.commit)
    BY DEF Objects
<1> QED BY <1>1, <1>2, NextObject, PackedObject

LEMMA FindBlobStep == ASSUME ObjectsInv, FindBlobInTree PROVE ObjectsInv'
<1> DEFINE stored == commits[reading.commit]
<1>1. Reads /\ reading.step \in {"tree", "subtree"}
    BY DEF FindBlobInTree
<1>2. reading.commit \in heads /\ reading.commit \in DOMAIN commits /\ stored \in Stored
    <2>1. reading.commit \in heads
        BY <1>1 DEF ObjectsInv, CommitWasHead
    <2> QED BY <2>1 DEF ObjectsInv, RepositoryInv
<1>3. <<"tree", reading.commit>> \in Objects(reading.commit) /\ <<"subtree", stored>> \in Objects(reading.commit)
    BY DEF Objects
<1> HIDE DEF stored
<1>4. CASE reading.step = "tree"
    <2>1. IF RefsAreHere /\ <<"tree", reading.commit>> \in loose THEN On("subtree") ELSE Replies("packed")
        BY <1>4 DEF FindBlobInTree, ReadGitObject
    <2> QED BY <1>1, <1>3, <2>1, NextObject, PackedObject
<1>5. CASE reading.step = "subtree"
    <2>1. CASE stored = "submodule"
        <3>1. Replies("packed")
            BY <1>5, <2>1 DEF FindBlobInTree, stored
        <3> QED BY <1>1, <1>2, <2>1, <3>1, AnswerFits DEF ReadingAnswers, stored
    <2>2. CASE stored = "under a file"
        <3>1. IF RefsAreHere /\ <<"subtree", stored>> \in loose THEN Replies("invalid tree") ELSE Replies("packed")
            BY <1>5, <2>2 DEF FindBlobInTree, ReadGitObject, stored
        <3>2. ASSUME Replies("invalid tree") PROVE ObjectsInv'
            BY <1>1, <1>2, <2>2, <3>2, AnswerFits DEF ReadingAnswers, stored
        <3> QED BY <1>1, <1>3, <3>1, <3>2, PackedObject
    <2>3. CASE stored \notin {"submodule", "under a file"}
        <3>1. IF RefsAreHere /\ <<"subtree", stored>> \in loose THEN FoundInTree(stored) ELSE Replies("packed")
            BY <1>5, <2>3 DEF FindBlobInTree, ReadGitObject, stored
        <3>2. ASSUME FoundInTree(stored) PROVE ObjectsInv'
            <4>1. CASE stored = NoText
                <5>1. Replies("not committed")
                    BY <3>2, <4>1 DEF FoundInTree
                <5> QED BY <1>1, <1>2, <4>1, <5>1, AnswerFits DEF ReadingAnswers, stored
            <4>2. CASE stored = "link"
                <5>1. Replies("not a file")
                    BY <3>2, <4>2 DEF FoundInTree, NoText
                <5> QED BY <1>1, <1>2, <4>2, <5>1, AnswerFits DEF ReadingAnswers, stored
            <4>3. CASE stored \notin {NoText, "link"}
                <5>1. On("blob")
                    BY <3>2, <4>3 DEF FoundInTree
                <5>2. stored \in Files
                    BY <1>2, <2>3, <4>3 DEF Stored, Files
                <5> QED BY <1>1, <5>1, <5>2, NextObject DEF stored
            <4> QED BY <4>1, <4>2, <4>3
        <3> QED BY <1>1, <1>3, <3>1, <3>2, PackedObject
    <2> QED BY <2>1, <2>2, <2>3
<1> QED BY <1>1, <1>4, <1>5

LEMMA ReadBlobStep == ASSUME ObjectsInv, ReadBlob PROVE ObjectsInv'
<1> DEFINE stored == commits[reading.commit]
<1>1. /\ reading.step = "blob" /\ Reads
      /\ IF RefsAreHere /\ <<"blob", stored>> \in loose
         THEN reading' = [reading EXCEPT !.step = "working", !.head = stored] ELSE Replies("packed")
    BY DEF ReadBlob, ReadGitObject
<1>2. reading.commit \in heads /\ stored \in Files /\ reading.answer = "none" /\ reading \in Readings
    BY <1>1 DEF ObjectsInv, CommitWasHead
<1>3. <<"blob", stored>> \in Objects(reading.commit)
    BY DEF Objects
<1>4. ASSUME reading' = [reading EXCEPT !.step = "working", !.head = stored] PROVE ObjectsInv'
    <2>1. stored \in Stored
        BY <1>2 DEF Stored, Files
    <2>2. /\ reading' \in Readings /\ reading'.step = "working" /\ reading'.answer = "none"
          /\ reading'.commit = reading.commit /\ reading'.head = stored
        BY <1>2, <1>4, <2>1 DEF Readings, ReadingSteps
    <2>3. BranchWasHead' /\ CommitWasHead'
        BY <1>1, <1>2, <2>2 DEF BranchWasHead, CommitWasHead, Reads, Repository
    <2> QED BY <1>1, <2>2, <2>3, ReadingGoesOn
<1> HIDE DEF stored
<1> QED BY <1>1, <1>3, <1>4, PackedObject

LEMMA CompareStep == ASSUME ObjectsInv, CompareWithWorking PROVE ObjectsInv'
<1> DEFINE answer == IF "binary" \in {reading.head, working} THEN "binary"
                     ELSE IF working = NoText THEN "deleted"
                     ELSE IF working = reading.head THEN "no change"
                     ELSE "diff"
<1>1. reading.step = "working" /\ Reads /\ Replies(answer)
    BY DEF CompareWithWorking
<1>2. /\ reading.commit \in heads /\ reading.head = commits[reading.commit] /\ reading.head \in Files
      /\ working \in works /\ working \in Files \cup {NoText}
    BY <1>1 DEF ObjectsInv, CommitWasHead, RepositoryInv
<1>3. CASE "binary" \in {reading.head, working}
    <2>1. answer = "binary"
        BY <1>3
    <2> QED BY <1>1, <2>1, AnswerFits DEF ReadingAnswers
<1>4. CASE "binary" \notin {reading.head, working} /\ working = NoText
    <2>1. answer = "deleted"
        BY <1>2, <1>4 DEF Files
    <2> QED BY <1>1, <1>2, <1>4, <2>1, AnswerFits DEF ReadingAnswers
<1>5. CASE "binary" \notin {reading.head, working} /\ working # NoText /\ working = reading.head
    <2>1. answer = "no change"
        BY <1>2, <1>5 DEF Files
    <2> QED BY <1>1, <1>2, <1>5, <2>1, AnswerFits DEF ReadingAnswers
<1>6. CASE "binary" \notin {reading.head, working} /\ working # NoText /\ working # reading.head
    <2>1. answer = "diff" /\ working \in Texts \ {reading.head}
        BY <1>2, <1>6 DEF Files
    <2> QED BY <1>1, <1>2, <1>6, <2>1, AnswerFits DEF ReadingAnswers
<1> QED BY <1>3, <1>4, <1>5, <1>6

LEMMA ObjectsStep == ObjectsInv /\ ObjectsNext => ObjectsInv'
BY EditStep, CommitStep, CheckoutStep, ResetStep, PackRefsStep, CollectGarbageStep, BeginReadingStep,
   ResolveGitDirStep, ReadHeadStep, ReadRefStep, ReadPackedRefStep, ReadCommitStep, FindBlobStep,
   ReadBlobStep, CompareStep
   DEF ObjectsNext

-----------------------------------------------------------------------------
(* The server: its parts go on one at a time *)

LEMMA PartsGoOn ==
    ASSUME [MCNext]_runtimeVars
    PROVE  /\ WatcherNext \/ UNCHANGED watcherVars
           /\ GitNext \/ UNCHANGED gitVars
           /\ FilesNext \/ UNCHANGED filesVars
           /\ ServerNext \/ UNCHANGED serverVars
           /\ ObjectsNext \/ UNCHANGED objectVars
BY Zenon DEF MCNext, runtimeVars

\* The watcher of the Node server: what it last looked at is what it knows, and what it knows is
\* what its subscribers were told, for every path that no message, timer or check is under way for
\* (emitCurrentState in node-watcher.ts), if looking at a path takes less time than the timer of the next event.
THEOREM WatcherIsRight == ~SlowChecks => (MCSpec => []WatcherKnows)
<1> SUFFICES ASSUME ~SlowChecks PROVE MCSpec => []WatcherKnows
    OBVIOUS
<1>1. MCInit => WatcherInv
    BY WatcherStarts DEF MCInit
<1>2. WatcherInv /\ [MCNext]_runtimeVars => WatcherInv'
    BY PartsGoOn, WatcherStep, WatcherStutters
<1>3. WatcherInv => WatcherKnows
    BY DEF WatcherInv, WatcherKnows, WatcherTypeOK
<1> QED BY <1>1, <1>2, <1>3, PTL DEF MCSpec

\* Git in the Node server: what is said of the changes, of one file's difference and of the last
\* commit's copy without git was so at some moment of the request, and no process outlives stop
\* (git-change-review.ts).
THEOREM GitIsRight == MCSpec => []GitAnswersFit
<1>1. MCInit => GitInv /\ ObjectsInv
    BY GitStarts, ObjectsStart DEF MCInit
<1>2. GitInv /\ ObjectsInv /\ [MCNext]_runtimeVars => (GitInv /\ ObjectsInv)'
    BY PartsGoOn, GitStep, GitStutters, ObjectsStep, ObjectsStutter
<1>3. GitInv /\ ObjectsInv => GitAnswersFit
    BY GitInvImplies, ObjectsInvImplies DEF GitAnswersFit
<1> QED BY <1>1, <1>2, <1>3, PTL DEF MCSpec

-----------------------------------------------------------------------------
(* Files: what a walk has found of the files that stayed the same *)

ReadSteps == {"idle", "walk", "read"}
ReadKinds == {"none", "tree", "text", "list", "names"}
Indexed == Names \ (HiddenFiles \cup Unlisted)
SomeFiles == SUBSET Indexed
Entered == SUBSET (Names \cup {Folder, OpenFolder})
FileReads == [kind : ReadKinds, step : ReadSteps, todo : Entered, found : SomeFiles, startedAt : Nat,
              still : SUBSET Names, answered : BOOLEAN, failed : BOOLEAN]

\* What a walk still looks at was listed, and is still there if it stayed the same.
TodoIsListed(x) ==
    /\ \A n \in x.todo \cap Names : n \notin HiddenFiles /\ (n \in x.still => disk[n] # "gone")
    /\ x.still = Names /\ x.todo \cap {Folder, OpenFolder} # {} => FolderExists

\* What it has found is wanted, and what it wants is found or still looked at, maybe in the directory.
FoundIsWanted(x) == \A n \in Listed \cap x.still : n \in x.found => Wanted(x, n)
WantedIsFound(x) ==
    \A n \in Listed \cap x.still : Wanted(x, n) =>
        n \in x.found \cup x.todo \/ (n \in InFolder /\ x.todo \cap {Folder, OpenFolder} # {})

\* A file is read that was a file to read when it was looked at.
ReadsAText(x) ==
    /\ x.kind = "text" /\ Cardinality(x.found) < Limit
    /\ \A n \in x.todo : (\A m \in x.todo : m <= n) =>
          n \in Indexed /\ (n \in x.still => disk[n] \notin {"gone", "dangling", "large", "binary"})

IsFull(x) == x.kind \in {"text", "list"} /\ Cardinality(x.found) >= Limit

\* The end of a walk, and an index as old as the question allows.
WalkIsRight(x) ==
    /\ FoundIsWanted(x)
    /\ \A n \in Listed \cap x.still : Wanted(x, n) /\ n \notin x.found => IsFull(x)

NamesAreRecent(x) ==
    \A n \in Listed : since[n] < x.startedAt - FileIndexTtl => (n \in x.found <=> disk[n] # "gone")

ReadInv(x) ==
    /\ x \in FileReads /\ IsFiniteSet(x.found) /\ x.startedAt <= now
    /\ x.kind \in {"text", "list"} => Cardinality(x.found) <= Limit
    /\ \A n \in Names : n \notin x.still => since[n] >= x.startedAt
    /\ x.step # "idle" =>
          /\ ~x.answered /\ ~x.failed /\ x.kind # "none"
          /\ TodoIsListed(x) /\ FoundIsWanted(x) /\ WantedIsFound(x)
    /\ x.step = "read" => ReadsAText(x)
    /\ x.step = "idle" /\ Answered(x) => IF x.kind = "names" THEN NamesAreRecent(x) ELSE WalkIsRight(x)
    /\ x.failed => (x.still = Names => \E n \in Names \ HiddenFiles : disk[n] = "dangling")

DiskInv ==
    /\ disk \in [Names -> Kinds] /\ since \in [Names -> Nat] /\ now \in Nat /\ changes \in Nat
    /\ \A n \in Names : since[n] <= now

IndexInv ==
    /\ fileIndexCache \in [made : BOOLEAN, files : SomeFiles, createdAt : Nat]
    /\ fileIndexCache.createdAt <= now /\ IsFiniteSet(fileIndexCache.files)
    /\ fileIndexCache.made => \A n \in Listed :
          since[n] < fileIndexCache.createdAt => (n \in fileIndexCache.files <=> disk[n] # "gone")

FilesInv ==
    /\ DiskInv /\ IndexInv
    /\ reads \in [Readers -> FileReads]
    /\ \A r \in Readers, x \in FileReads : reads[r] = x => ReadInv(x)

LEMMA FilesInvImplies ==
    FilesInv => FilesTypeOK /\ AnswersFitWhatStayed /\ IndexIsRecent /\ FailuresHaveACause
<1> SUFFICES ASSUME FilesInv PROVE FilesTypeOK /\ AnswersFitWhatStayed /\ IndexIsRecent /\ FailuresHaveACause
    OBVIOUS
<1>1. ASSUME NEW r \in Readers
      PROVE  /\ ReadInv(reads[r]) /\ reads[r] \in FileReads
             /\ IsFull(reads[r]) => Full(r)
    BY DEF FilesInv, IsFull, Full
<1>2. FilesTypeOK
    <2>1. ASSUME NEW r \in Readers
          PROVE  /\ reads[r].step \in {"idle", "walk", "read"} /\ reads[r].found \subseteq Names \ (HiddenFiles \cup Unlisted)
                 /\ reads[r].kind \in {"text", "list"} => Cardinality(reads[r].found) <= Limit
        <3>1. reads[r].step \in ReadSteps /\ reads[r].found \in SomeFiles
            BY <1>1 DEF FileReads
        <3> QED BY <1>1, <3>1 DEF ReadSteps, SomeFiles, Indexed, ReadInv
    <2>2. fileIndexCache.files \in SomeFiles
        BY DEF FilesInv, IndexInv
    <2> QED BY <2>1, <2>2 DEF FilesInv, DiskInv, FilesTypeOK, SomeFiles, Indexed
<1>3. AnswersFitWhatStayed
    BY <1>1 DEF AnswersFitWhatStayed, ReadInv, WalkIsRight, FoundIsWanted, Answered
<1>4. IndexIsRecent
    BY <1>1 DEF IndexIsRecent, ReadInv, NamesAreRecent, Answered
<1>5. FailuresHaveACause
    BY <1>1 DEF FailuresHaveACause, ReadInv
<1> QED BY <1>2, <1>3, <1>4, <1>5

LEMMA IdleReadFits == IdleRead \in FileReads
<1>1. {} \in Entered /\ {} \in SomeFiles /\ {} \in SUBSET Names /\ 0 \in Nat /\ FALSE \in BOOLEAN
    BY DEF Entered, SomeFiles
<1>2. "none" \in ReadKinds /\ "idle" \in ReadSteps
    BY DEF ReadKinds, ReadSteps
<1> QED BY <1>1, <1>2 DEF IdleRead, FileReads

LEMMA FilesStart == FilesInit => FilesInv
<1> SUFFICES ASSUME FilesInit PROVE FilesInv
    OBVIOUS
<1> USE FilesAssumption
<1>1. DiskInv
    BY DEF DiskInv, FilesInit
<1>2. {} \in SomeFiles
    BY DEF SomeFiles
<1>3. IndexInv
    BY <1>2, FS_EmptySet DEF IndexInv, FilesInit
<1>4. ReadInv(IdleRead)
    BY IdleReadFits, FS_EmptySet DEF ReadInv, IdleRead, FilesInit, Answered
<1> QED BY <1>1, <1>3, <1>4, IdleReadFits DEF FilesInv, FilesInit

LEMMA FilesStutter == FilesInv /\ UNCHANGED filesVars => FilesInv'
<1> SUFFICES ASSUME FilesInv, UNCHANGED filesVars PROVE FilesInv'
    OBVIOUS
<1>1. DiskInv' /\ IndexInv'
    BY DEF FilesInv, DiskInv, IndexInv, filesVars
<1>2. ASSUME NEW x \in FileReads, ReadInv(x) PROVE ReadInv(x)'
    BY <1>2 DEF ReadInv, filesVars, TodoIsListed, FoundIsWanted, WantedIsFound, ReadsAText, WalkIsRight,
                NamesAreRecent, Wanted, Answered, IsFull, FolderExists
<1> QED BY <1>1, <1>2 DEF FilesInv, filesVars

\* A step of one request, while the files stay as they are.
LEMMA OneRead ==
    ASSUME FilesInv, NEW r \in Readers, NEW new \in FileReads, ReadInv(new),
           reads' = [reads EXCEPT ![r] = new], UNCHANGED <<disk, since, now, changes>>, IndexInv'
    PROVE  FilesInv'
<1>1. DiskInv'
    BY DEF FilesInv, DiskInv
<1>2. ASSUME NEW x \in FileReads, ReadInv(x) PROVE ReadInv(x)'
    BY <1>2 DEF ReadInv, TodoIsListed, FoundIsWanted, WantedIsFound, ReadsAText, WalkIsRight,
                NamesAreRecent, Wanted, Answered, IsFull, FolderExists
<1>3. reads' \in [Readers -> FileReads]
    BY DEF FilesInv
<1>4. ASSUME NEW s \in Readers, NEW x \in FileReads, reads'[s] = x PROVE ReadInv(x)
    BY <1>4 DEF FilesInv
<1> QED BY <1>1, <1>2, <1>3, <1>4 DEF FilesInv

LEMMA IndexStays == ASSUME FilesInv, UNCHANGED <<disk, since, now, fileIndexCache>> PROVE IndexInv'
BY DEF FilesInv, IndexInv

\* A walk that begins: everything that is there is listed, or in the directory.
LEMMA WalkBegins ==
    ASSUME FilesInv, NEW kind \in ReadKinds \ {"none"} PROVE Walk(kind) \in FileReads /\ ReadInv(Walk(kind))
<1> DEFINE x == Walk(kind)
<1>1. Readdir \in Entered
    BY DEF Readdir, Entered, Seen
<1>2. {} \in SomeFiles /\ Names \in SUBSET Names /\ now \in Nat /\ "walk" \in ReadSteps /\ FALSE \in BOOLEAN
    BY DEF SomeFiles, ReadSteps, FilesInv, DiskInv
<1>3. x \in FileReads
    BY <1>1, <1>2 DEF IdleRead, FileReads, Walk
<1>4. /\ x.kind = kind /\ x.step = "walk" /\ x.todo = Readdir /\ x.found = {} /\ x.startedAt = now
      /\ x.still = Names /\ x.answered = FALSE /\ x.failed = FALSE
    BY DEF Walk, IdleRead
<1> HIDE DEF x
<1>5. TodoIsListed(x)
    BY <1>4, FilesAssumption DEF TodoIsListed, Readdir, Seen, Folder, OpenFolder
<1>6. ASSUME NEW n \in Listed, Wanted(x, n) PROVE n \in x.todo \/ (n \in InFolder /\ Folder \in x.todo)
    BY <1>4, <1>6, FilesAssumption DEF Listed, Wanted, Readdir, Seen, FolderExists
<1>7. WantedIsFound(x) /\ FoundIsWanted(x)
    BY <1>4, <1>6 DEF WantedIsFound, FoundIsWanted
<1>8. now \in Nat /\ Limit \in Nat
    BY FilesAssumption DEF FilesInv, DiskInv
<1> QED BY <1>3, <1>4, <1>5, <1>7, <1>8, FS_EmptySet DEF ReadInv, x

LEMMA StartWalkStep == ASSUME FilesInv, NEW r \in Readers, NEW kind \in {"tree", "text", "list"}, StartWalk(r, kind) PROVE FilesInv'
<1>1. kind \in ReadKinds \ {"none"}
    BY DEF ReadKinds
<1>2. /\ reads' = [reads EXCEPT ![r] = Walk(kind)]
      /\ UNCHANGED <<disk, since, now, changes, fileIndexCache>>
    BY DEF StartWalk
<1> QED BY <1>1, <1>2, WalkBegins, OneRead, IndexStays

LEMMA ReadFileIndexStep == ASSUME FilesInv, NEW r \in Readers, ReadFileIndex(r) PROVE FilesInv'
<1> DEFINE known == [IdleRead EXCEPT !.kind = "names", !.found = fileIndexCache.files, !.startedAt = now,
                                     !.still = Names, !.answered = TRUE]
<1>1. /\ reads' = [reads EXCEPT ![r] = IF IsFresh THEN known ELSE Walk("names")]
      /\ UNCHANGED <<disk, since, now, changes, fileIndexCache>>
    BY DEF ReadFileIndex
<1>2. /\ known.kind = "names" /\ known.found = fileIndexCache.files /\ known.startedAt = now
      /\ known.still = Names /\ known.answered = TRUE /\ known.step = "idle" /\ known.failed = FALSE
    BY DEF IdleRead
<1>3. known \in FileReads
    <2>1. /\ fileIndexCache.files \in SomeFiles /\ Names \in SUBSET Names /\ now \in Nat /\ TRUE \in BOOLEAN
          /\ "names" \in ReadKinds
        BY DEF ReadKinds, FilesInv, DiskInv, IndexInv
    <2> QED BY <2>1, IdleReadFits DEF FileReads
<1> HIDE DEF known
<1>4. CASE IsFresh
    <2>1. ASSUME NEW n \in Listed, since[n] < now - FileIndexTtl PROVE since[n] < fileIndexCache.createdAt
        <3>1. /\ n \in Names /\ since[n] \in Nat /\ now \in Nat /\ fileIndexCache.createdAt \in Nat /\ FileIndexTtl \in Nat
              /\ now - fileIndexCache.createdAt <= FileIndexTtl
            BY <1>4, FilesAssumption DEF IsFresh, FilesInv, DiskInv, IndexInv, Listed
        <3> QED BY <2>1, <3>1
    <2>2. NamesAreRecent(known)
        BY <1>2, <1>4, <2>1 DEF NamesAreRecent, FilesInv, IndexInv, IsFresh
    <2>3. ReadInv(known)
        BY <1>2, <1>3, <2>2 DEF ReadInv, FilesInv, IndexInv, DiskInv
    <2> QED BY <1>1, <1>3, <1>4, <2>3, OneRead, IndexStays
<1>5. CASE ~IsFresh
    <2>1. "names" \in ReadKinds \ {"none"}
        BY DEF ReadKinds
    <2> QED BY <1>1, <1>5, <2>1, WalkBegins, OneRead, IndexStays
<1> QED BY <1>4, <1>5

\* What is known of a request that has not ended.
LEMMA WalkFacts ==
    ASSUME FilesInv, NEW r \in Readers, reads[r].step # "idle"
    PROVE  /\ reads[r] \in FileReads /\ ReadInv(reads[r])
           /\ TodoIsListed(reads[r]) /\ FoundIsWanted(reads[r]) /\ WantedIsFound(reads[r])
           /\ reads[r].answered = FALSE /\ reads[r].failed = FALSE
           /\ now \in Nat /\ disk \in [Names -> Kinds]
<1>1. reads[r] \in FileReads /\ ReadInv(reads[r])
    BY DEF FilesInv
<1>2. ~reads[r].answered /\ ~reads[r].failed /\ reads[r].answered \in BOOLEAN /\ reads[r].failed \in BOOLEAN
    BY <1>1 DEF ReadInv, FileReads
<1>3. TodoIsListed(reads[r]) /\ FoundIsWanted(reads[r]) /\ WantedIsFound(reads[r])
    BY <1>1 DEF ReadInv
<1>4. now \in Nat /\ disk \in [Names -> Kinds]
    BY DEF FilesInv, DiskInv
<1> QED BY <1>1, <1>2, <1>3, <1>4

\* A walk that fails: something changed, or cannot be looked at.
LEMMA WalkFails ==
    ASSUME FilesInv, NEW r \in Readers, reads[r].step # "idle", reads' = [reads EXCEPT ![r] = Fails(r)],
           UNCHANGED <<disk, since, now, changes, fileIndexCache>>,
           reads[r].still = Names => \E n \in Names \ HiddenFiles : disk[n] = "dangling"
    PROVE  FilesInv'
<1> DEFINE x == Fails(r)
<1>1. /\ x.kind = reads[r].kind /\ x.still = reads[r].still /\ x.startedAt = reads[r].startedAt
      /\ x.step = "idle" /\ x.found = {} /\ x.failed = TRUE
    BY DEF Fails, IdleRead
<1>2. x \in FileReads
    <2>1. reads[r].kind \in ReadKinds /\ reads[r].still \in SUBSET Names /\ reads[r].startedAt \in Nat /\ TRUE \in BOOLEAN
        BY WalkFacts DEF FileReads
    <2> QED BY <2>1, IdleReadFits DEF Fails, FileReads
<1> HIDE DEF x
<1>3. reads[r].startedAt <= now /\ \A n \in Names : n \notin reads[r].still => since[n] >= reads[r].startedAt
    BY WalkFacts DEF ReadInv
<1>4. IsFiniteSet(x.found) /\ Cardinality(x.found) <= Limit
    BY <1>1, FS_EmptySet, FilesAssumption
<1>5. ~Answered(x)
    BY <1>1 DEF Answered
<1>6. ReadInv(x)
    BY <1>1, <1>2, <1>3, <1>4, <1>5 DEF ReadInv
<1> QED BY <1>2, <1>6, OneRead, IndexStays DEF x

\* A walk that goes on, with other entries to look at and what it has found.
LEMMA WalkGoesOn ==
    ASSUME FilesInv, NEW r \in Readers, reads[r].step # "idle",
           UNCHANGED <<disk, since, now, changes, fileIndexCache>>,
           NEW step \in {"walk", "read"}, NEW todo \in Entered, NEW found \in SomeFiles,
           NEW new, new = [reads[r] EXCEPT !.step = step, !.todo = todo, !.found = found],
           reads' = [reads EXCEPT ![r] = new],
           IsFiniteSet(found), new.kind \in {"text", "list"} => Cardinality(found) <= Limit,
           TodoIsListed(new), FoundIsWanted(new), WantedIsFound(new), step = "read" => ReadsAText(new)
    PROVE  FilesInv'
<1>1. step \in ReadSteps
    BY DEF ReadSteps
<1>2. /\ new \in FileReads /\ new.kind = reads[r].kind /\ new.still = reads[r].still /\ new.step = step
      /\ new.found = found /\ new.startedAt = reads[r].startedAt
      /\ new.answered = reads[r].answered /\ new.failed = reads[r].failed
    BY <1>1, WalkFacts DEF FileReads
<1>3. ReadInv(new)
    BY <1>2, WalkFacts DEF ReadInv
<1> QED BY <1>2, <1>3, OneRead, IndexStays

LEMMA ReadFields ==
    ASSUME NEW x \in FileReads
    PROVE  /\ x.todo \in Entered /\ x.found \in SomeFiles /\ x.step \in ReadSteps /\ x.kind \in ReadKinds
           /\ x.still \subseteq Names
BY DEF FileReads

\* With one more file found there are at most Limit, if there were fewer.
LEMMA OneMoreFound ==
    ASSUME NEW found \in SomeFiles, IsFiniteSet(found), NEW n \in Indexed
    PROVE  /\ found \cup {n} \in SomeFiles /\ IsFiniteSet(found \cup {n})
           /\ Cardinality(found) < Limit => Cardinality(found \cup {n}) <= Limit
<1>1. Limit \in Nat /\ Cardinality(found) \in Nat
    BY FilesAssumption, FS_CardinalityType
<1>2. /\ IsFiniteSet(found \cup {n})
      /\ Cardinality(found \cup {n}) = IF n \in found THEN Cardinality(found) ELSE Cardinality(found) + 1
    BY FS_AddElement
<1>3. \A c, d, l \in Nat : c < l /\ d \in {c, c + 1} => d <= l
    OBVIOUS
<1>4. Cardinality(found \cup {n}) \in {Cardinality(found), Cardinality(found) + 1} /\ Cardinality(found) + 1 \in Nat
    BY <1>1, <1>2
<1>5. Cardinality(found) < Limit => Cardinality(found \cup {n}) <= Limit
    BY <1>1, <1>3, <1>4
<1> QED BY <1>2, <1>5 DEF SomeFiles

LEMMA FoldersAreLast ==
    /\ OpenFolder # Folder /\ Folder \notin Names /\ OpenFolder \notin Names
    /\ \A n \in Names : ~(n <= Folder) /\ ~(n <= OpenFolder)
<1>1. \A n \in Nat \ {0} : ~(n <= 0) /\ ~(n <= -1) /\ n # -1
    OBVIOUS
<1>2. Names \subseteq Nat \ {0} /\ -1 # 0
    BY FilesAssumption
<1> QED BY <1>1, <1>2 DEF Folder, OpenFolder

LEMMA NamesAreOrdered == \A m, n \in Names : m <= n /\ n <= m => m = n
<1>1. \A m, n \in Nat : m <= n /\ n <= m => m = n
    OBVIOUS
<1> QED BY <1>1, FilesAssumption

LEMMA LookStep == ASSUME FilesInv, NEW r \in Readers, Look(r) PROVE FilesInv'
<1> USE FilesAssumption
<1>1. reads[r].step = "walk" /\ ~Full(r) /\ UNCHANGED <<disk, since, now, changes, fileIndexCache>>
    BY DEF Look
<1>2. PICK n \in reads[r].todo :
        /\ IsNext(r, n)
        /\ reads' = [reads EXCEPT ![r] = IF n = Folder THEN OpensFolder(r)
                                        ELSE IF n = OpenFolder THEN ListsFolder(r)
                                        ELSE IF disk[n] \in {"gone", "dangling"} THEN Fails(r)
                                        ELSE Visited(r, n)]
    BY DEF Look
<1>3. \A m \in reads[r].todo : m <= n
    BY <1>2 DEF IsNext
<1>4. /\ reads[r] \in FileReads /\ reads[r].todo \in Entered /\ reads[r].found \in SomeFiles
      /\ reads[r].still \subseteq Names /\ IsFiniteSet(reads[r].found)
      /\ reads[r].kind \in {"text", "list"} => Cardinality(reads[r].found) <= Limit
    BY <1>1, WalkFacts, ReadFields DEF ReadInv
<1>5. n \in Names \cup {Folder, OpenFolder}
    BY <1>2, <1>4 DEF Entered
<1>6. Limit \in Nat /\ Cardinality(reads[r].found) \in Nat
    BY <1>4, FS_CardinalityType
<1>7. reads[r].kind \in {"text", "list"} => Cardinality(reads[r].found) < Limit
    BY <1>1, <1>6 DEF Full
<1>8. /\ "walk" \in {"walk", "read"} /\ "read" \in {"walk", "read"}
      /\ TodoIsListed(reads[r]) /\ FoundIsWanted(reads[r]) /\ WantedIsFound(reads[r]) /\ reads[r].step # "idle"
    BY <1>1, WalkFacts
<1>9. CASE n = Folder \/ n = OpenFolder
    <2>1. reads[r].todo \cap Names = {}
        BY <1>3, <1>9, FoldersAreLast
    <2>2. reads[r].still = Names => FolderExists
        BY <1>2, <1>8, <1>9 DEF TodoIsListed
    <2>3. ASSUME NEW todo \in Entered, reads' = [reads EXCEPT ![r] = [reads[r] EXCEPT !.todo = todo]],
                 todo \cap Names \subseteq Seen(InFolder), todo \cap {Folder, OpenFolder} # {} => FolderExists,
                 OpenFolder \in todo \/ Seen(InFolder) \subseteq todo
          PROVE  FilesInv'
        <3> DEFINE new == [reads[r] EXCEPT !.step = "walk", !.todo = todo, !.found = reads[r].found]
        <3>1. /\ new.kind = reads[r].kind /\ new.todo = todo /\ new.found = reads[r].found /\ new.still = reads[r].still
              /\ new = [reads[r] EXCEPT !.todo = todo]
            BY <1>1, <1>4 DEF FileReads
        <3> HIDE DEF new
        <3>2. TodoIsListed(new)
            BY <2>3, <3>1 DEF TodoIsListed, Seen
        <3>3. FoundIsWanted(new)
            BY <1>8, <3>1 DEF FoundIsWanted, Wanted
        <3>4. WantedIsFound(new)
            <4>1. ASSUME NEW m \in Listed \cap new.still, Wanted(new, m), m \notin new.found
                  PROVE  m \in InFolder /\ m \in Seen(InFolder)
                <5>1. Wanted(reads[r], m) /\ m \in Listed \cap reads[r].still /\ m \notin reads[r].found
                    BY <3>1, <4>1 DEF Wanted
                <5>2. m \in InFolder
                    BY <1>8, <2>1, <5>1 DEF WantedIsFound, Listed
                <5> QED BY <5>1, <5>2 DEF Seen, Wanted, Listed
            <4> QED BY <2>3, <3>1, <4>1 DEF WantedIsFound
        <3> QED BY <1>1, <1>4, <1>8, <2>3, <3>1, <3>2, <3>3, <3>4, WalkGoesOn DEF new
    <2>4. CASE n = Folder
        <3>1. CASE FolderExists
            <4>1. reads' = [reads EXCEPT ![r] = [reads[r] EXCEPT !.todo = {OpenFolder}]]
                BY <1>2, <2>4, <3>1 DEF OpensFolder
            <4>2. {OpenFolder} \in Entered /\ {OpenFolder} \cap Names = {}
                BY DEF Entered, OpenFolder
            <4> QED BY <2>3, <3>1, <4>1, <4>2
        <3>2. CASE ~FolderExists
            <4>1. reads' = [reads EXCEPT ![r] = Fails(r)]
                BY <1>2, <2>4, <3>2 DEF OpensFolder
            <4> QED BY <1>1, <1>8, <2>2, <3>2, <4>1, WalkFails
        <3> QED BY <3>1, <3>2
    <2>5. CASE n = OpenFolder
        <3>1. CASE reads[r].kind = "tree" /\ ~FolderExists
            <4>1. reads' = [reads EXCEPT ![r] = Fails(r)]
                BY <1>2, <2>5, <3>1, FoldersAreLast DEF ListsFolder
            <4> QED BY <1>1, <1>8, <2>2, <3>1, <4>1, WalkFails
        <3>2. CASE ~(reads[r].kind = "tree" /\ ~FolderExists)
            <4>1. reads' = [reads EXCEPT ![r] = [reads[r] EXCEPT !.todo = Seen(InFolder)]]
                BY <1>2, <2>5, <3>2, FoldersAreLast DEF ListsFolder
            <4>2. Seen(InFolder) \in Entered /\ Seen(InFolder) \cap {Folder, OpenFolder} = {}
                BY DEF Entered, Folder, OpenFolder, Seen
            <4> QED BY <2>3, <4>1, <4>2
        <3> QED BY <3>1, <3>2
    <2> QED BY <1>9, <2>4, <2>5
<1>10. CASE n \notin {Folder, OpenFolder}
    <2>1. n \in Names /\ n \notin HiddenFiles /\ (n \in reads[r].still => disk[n] # "gone")
        BY <1>2, <1>5, <1>8, <1>10 DEF TodoIsListed
    <2>2. CASE disk[n] \in {"gone", "dangling"}
        <3>1. reads' = [reads EXCEPT ![r] = Fails(r)]
            BY <1>2, <1>10, <2>2
        <3> QED BY <1>1, <1>8, <2>1, <2>2, <3>1, WalkFails
    <2>3. CASE disk[n] \notin {"gone", "dangling"}
        <3>1. reads' = [reads EXCEPT ![r] = Visited(r, n)]
            BY <1>2, <1>10, <2>3
        <3>2. CASE n \notin Unlisted /\ reads[r].kind = "text" /\ disk[n] \notin {"large", "binary"}
            <4> DEFINE new == [reads[r] EXCEPT !.step = "read", !.todo = reads[r].todo, !.found = reads[r].found]
            <4>1. /\ Visited(r, n) = [reads[r] EXCEPT !.step = "read"]
                  /\ new = [reads[r] EXCEPT !.step = "read"]
                BY <1>4, <3>2 DEF Visited, FileReads
            <4>2. /\ new.kind = reads[r].kind /\ new.todo = reads[r].todo /\ new.found = reads[r].found
                  /\ new.still = reads[r].still
                BY <1>4 DEF FileReads
            <4> HIDE DEF new
            <4>3. TodoIsListed(new) /\ FoundIsWanted(new) /\ WantedIsFound(new)
                BY <1>8, <4>2 DEF TodoIsListed, FoundIsWanted, WantedIsFound, Wanted
            <4>4. \A m \in new.todo : (\A k \in new.todo : k <= m) => m = n
                <5>1. ASSUME NEW m \in reads[r].todo, n <= m PROVE m = n
                    <6>1. m \in Names
                        BY <1>4, <2>1, <5>1, FoldersAreLast DEF Entered
                    <6> QED BY <1>3, <2>1, <5>1, <6>1, NamesAreOrdered
                <5> QED BY <1>2, <4>2, <5>1
            <4>5. ReadsAText(new)
                BY <1>7, <2>1, <2>3, <3>2, <4>2, <4>4 DEF ReadsAText, Indexed
            <4> QED BY <1>1, <1>4, <1>8, <3>1, <4>1, <4>2, <4>3, <4>5, WalkGoesOn DEF new
        <3>3. CASE n \in Unlisted \/ reads[r].kind # "text" \/ disk[n] \in {"large", "binary"}
            <4>1. ASSUME NEW found \in {reads[r].found, reads[r].found \cup {n}},
                         found # reads[r].found => n \in Indexed /\ reads[r].kind # "text",
                         n \in found \/ n \in Unlisted \/ (reads[r].kind = "text" /\ disk[n] # "hit"),
                         reads' = [reads EXCEPT ![r] = [reads[r] EXCEPT !.todo = reads[r].todo \ {n}, !.found = found]]
                  PROVE  FilesInv'
                <5> DEFINE new == [reads[r] EXCEPT !.step = "walk", !.todo = reads[r].todo \ {n}, !.found = found]
                <5>1. /\ new = [reads[r] EXCEPT !.todo = reads[r].todo \ {n}, !.found = found]
                      /\ new.kind = reads[r].kind /\ new.todo = reads[r].todo \ {n} /\ new.found = found
                      /\ new.still = reads[r].still
                    BY <1>1, <1>4 DEF FileReads
                <5> HIDE DEF new
                <5>2. TodoIsListed(new)
                    BY <1>8, <5>1 DEF TodoIsListed
                <5>3. FoundIsWanted(new)
                    BY <1>8, <2>1, <4>1, <5>1 DEF FoundIsWanted, Wanted
                <5>4. WantedIsFound(new)
                    BY <1>8, <1>10, <4>1, <5>1 DEF WantedIsFound, Wanted, Listed
                <5>5. /\ found \in SomeFiles /\ IsFiniteSet(found)
                      /\ new.kind \in {"text", "list"} => Cardinality(found) <= Limit
                    BY <1>4, <1>7, <4>1, <5>1, OneMoreFound
                <5>6. reads[r].todo \ {n} \in Entered
                    BY <1>4 DEF Entered
                <5> QED BY <1>1, <1>8, <4>1, <5>1, <5>2, <5>3, <5>4, <5>5, <5>6, WalkGoesOn DEF new
            <4>2. CASE n \in Unlisted \/ (reads[r].kind = "text" /\ disk[n] \in {"large", "binary"})
                <5>1. Visited(r, n) = [reads[r] EXCEPT !.todo = reads[r].todo \ {n}, !.found = reads[r].found]
                    BY <1>4, <4>2 DEF Visited, FileReads
                <5> QED BY <3>1, <4>1, <4>2, <5>1
            <4>3. CASE n \notin Unlisted /\ reads[r].kind # "text"
                <5>1. Visited(r, n) = [reads[r] EXCEPT !.todo = reads[r].todo \ {n}, !.found = reads[r].found \cup {n}]
                    BY <4>3 DEF Visited
                <5>2. n \in Indexed
                    BY <2>1, <4>3 DEF Indexed
                <5> QED BY <3>1, <4>1, <4>3, <5>1, <5>2
            <4> QED BY <3>3, <4>2, <4>3
        <3> QED BY <3>2, <3>3
    <2> QED BY <2>2, <2>3
<1> QED BY <1>9, <1>10

LEMMA ReadTextStep == ASSUME FilesInv, NEW r \in Readers, ReadText(r) PROVE FilesInv'
<1>1. /\ reads[r].step = "read" /\ reads[r].step # "idle" /\ "walk" \in {"walk", "read"}
      /\ UNCHANGED <<disk, since, now, changes, fileIndexCache>>
    BY DEF ReadText
<1>2. PICK n \in reads[r].todo :
        /\ IsNext(r, n)
        /\ reads' = [reads EXCEPT ![r].step = "walk", ![r].todo = @ \ {n},
                                 ![r].found = IF disk[n] \in {"hit", "large"} THEN @ \cup {n} ELSE @]
    BY DEF ReadText
<1>3. ReadsAText(reads[r]) /\ TodoIsListed(reads[r]) /\ FoundIsWanted(reads[r]) /\ WantedIsFound(reads[r])
    BY <1>1, WalkFacts DEF ReadInv
<1>4. /\ n \in Indexed /\ (n \in reads[r].still => disk[n] \notin {"gone", "dangling", "large", "binary"})
      /\ reads[r].kind = "text" /\ Cardinality(reads[r].found) < Limit
    BY <1>2, <1>3 DEF ReadsAText, IsNext
<1>5. /\ reads[r] \in FileReads /\ reads[r].todo \in Entered /\ reads[r].found \in SomeFiles
      /\ reads[r].still \subseteq Names /\ IsFiniteSet(reads[r].found)
    BY <1>1, WalkFacts, ReadFields DEF ReadInv
<1> DEFINE found == IF disk[n] \in {"hit", "large"} THEN reads[r].found \cup {n} ELSE reads[r].found
           new == [reads[r] EXCEPT !.step = "walk", !.todo = reads[r].todo \ {n}, !.found = found]
<1>6. reads' = [reads EXCEPT ![r] = new]
    BY <1>2 DEF FilesInv, FileReads
<1>7. found \in SomeFiles /\ IsFiniteSet(found) /\ Cardinality(found) <= Limit
    <2>1. Limit \in Nat /\ Cardinality(reads[r].found) \in Nat
        BY <1>5, FS_CardinalityType, FilesAssumption
    <2>2. Cardinality(reads[r].found) <= Limit
        BY <1>4, <2>1
    <2> QED BY <1>4, <1>5, <2>2, OneMoreFound
<1>8. /\ new.kind = reads[r].kind /\ new.todo = reads[r].todo \ {n} /\ new.found = found
      /\ new.still = reads[r].still
    BY <1>5 DEF FileReads
<1>9. /\ n \in found => n \in reads[r].found \/ disk[n] \in {"hit", "large"}
      /\ disk[n] = "hit" => n \in found
      /\ reads[r].found \subseteq found /\ found \subseteq reads[r].found \cup {n}
    OBVIOUS
<1> HIDE DEF found, new
<1>10. TodoIsListed(new)
    BY <1>3, <1>8 DEF TodoIsListed
<1>11. FoundIsWanted(new)
    BY <1>3, <1>4, <1>8, <1>9 DEF FoundIsWanted, Wanted
<1>12. WantedIsFound(new)
    <2>1. Folder # n /\ OpenFolder # n
        BY <1>4, FoldersAreLast DEF Indexed
    <2> QED BY <1>3, <1>4, <1>8, <1>9, <2>1 DEF WantedIsFound, Wanted
<1>13. reads[r].todo \ {n} \in Entered
    BY <1>5 DEF Entered
<1> QED BY <1>1, <1>6, <1>7, <1>8, <1>10, <1>11, <1>12, <1>13, WalkGoesOn DEF new

LEMMA FinishStep == ASSUME FilesInv, NEW r \in Readers, Finish(r) PROVE FilesInv'
<1> DEFINE new == [reads[r] EXCEPT !.step = "idle", !.todo = {}, !.answered = TRUE]
<1>1. /\ reads[r].step = "walk" /\ reads[r].step # "idle" /\ (reads[r].todo = {} \/ Full(r))
      /\ UNCHANGED <<disk, since, now, changes>>
    BY DEF Finish
<1>2. /\ reads[r] \in FileReads /\ ReadInv(reads[r]) /\ FoundIsWanted(reads[r]) /\ WantedIsFound(reads[r])
      /\ reads[r].failed = FALSE /\ now \in Nat
    BY <1>1, WalkFacts
<1>3. reads' = [reads EXCEPT ![r] = new]
    BY <1>2 DEF Finish, FilesInv, FileReads
<1>4. new \in FileReads
    <2>1. {} \in Entered /\ "idle" \in ReadSteps /\ TRUE \in BOOLEAN
        BY DEF Entered, ReadSteps
    <2> QED BY <1>2, <2>1 DEF FileReads
<1>5. /\ new.kind = reads[r].kind /\ new.found = reads[r].found /\ new.still = reads[r].still /\ new.todo = {}
      /\ new.startedAt = reads[r].startedAt /\ new.step = "idle" /\ new.failed = FALSE
    BY <1>2 DEF FileReads
<1> HIDE DEF new
<1>6. FoundIsWanted(new)
    BY <1>2, <1>5 DEF FoundIsWanted, Wanted
<1>7. Full(r) => IsFull(new)
    BY <1>5 DEF Full, IsFull
<1>8. CASE Full(r)
    <2>1. WalkIsRight(new)
        BY <1>6, <1>7, <1>8 DEF WalkIsRight
    <2>2. new.kind # "names"
        BY <1>5, <1>8 DEF Full
    <2>3. ReadInv(new)
        BY <1>2, <1>4, <1>5, <2>1, <2>2 DEF ReadInv
    <2>4. UNCHANGED fileIndexCache
        BY <1>5, <2>2 DEF Finish
    <2> QED BY <1>1, <1>3, <1>4, <2>3, <2>4, OneRead, IndexStays
<1>9. CASE ~Full(r)
    <2>1. \A n \in Listed \cap new.still : Wanted(new, n) => n \in new.found
        BY <1>1, <1>2, <1>5, <1>9 DEF WantedIsFound, Wanted
    <2>2. WalkIsRight(new)
        BY <1>6, <2>1 DEF WalkIsRight
    <2>3. ASSUME new.kind = "names", NEW n \in Listed, since[n] < new.startedAt
          PROVE  n \in new.found <=> disk[n] # "gone"
        <3>1. since[n] \in Nat /\ new.startedAt \in Nat /\ n \in Names
            BY <1>2, <1>5, <2>3 DEF FilesInv, DiskInv, FileReads, Listed
        <3>2. n \in new.still
            BY <1>2, <1>5, <2>3, <3>1 DEF ReadInv
        <3> QED BY <1>6, <2>1, <2>3, <3>2 DEF FoundIsWanted, Wanted
    <2>4. new.kind = "names" => NamesAreRecent(new)
        <3>1. \A s, a \in Nat : s < a - FileIndexTtl => s < a
            BY FilesAssumption
        <3>2. \A n \in Listed : since[n] \in Nat
            BY DEF FilesInv, DiskInv, Listed
        <3>3. new.startedAt \in Nat
            BY <1>4 DEF FileReads
        <3> QED BY <2>3, <3>1, <3>2, <3>3 DEF NamesAreRecent
    <2>5. ReadInv(new)
        BY <1>2, <1>4, <1>5, <2>2, <2>4 DEF ReadInv
    <2>6. IndexInv'
        <3>1. CASE reads[r].kind = "names"
            <4>1. fileIndexCache' = [made |-> TRUE, files |-> new.found, createdAt |-> new.startedAt]
                BY <1>5, <3>1 DEF Finish, IndexOf
            <4>2. /\ new.found \in SomeFiles /\ new.startedAt \in Nat /\ new.startedAt <= now
                  /\ IsFiniteSet(new.found)
                BY <1>4, <2>5 DEF FileReads, ReadInv
            <4> QED BY <1>1, <1>5, <2>3, <3>1, <4>1, <4>2 DEF IndexInv
        <3>2. CASE reads[r].kind # "names"
            <4>1. UNCHANGED fileIndexCache
                BY <3>2 DEF Finish
            <4> QED BY <1>1, <4>1, IndexStays
        <3> QED BY <3>1, <3>2
    <2> QED BY <1>1, <1>3, <1>4, <2>5, <2>6, OneRead
<1> QED BY <1>8, <1>9

LEMMA DiskStep == ASSUME FilesInv, NEW n \in Names, NEW kind \in Kinds, DiskChanges(n, kind) PROVE FilesInv'
<1>1. /\ changes' = changes + 1 /\ disk' = [disk EXCEPT ![n] = kind] /\ since' = [since EXCEPT ![n] = now]
      /\ reads' = [r \in Readers |-> [reads[r] EXCEPT !.still = @ \ {n}]]
      /\ UNCHANGED <<now, fileIndexCache>>
    BY DEF DiskChanges
<1>2. DiskInv'
    BY <1>1 DEF FilesInv, DiskInv
<1>3. \A m \in Names \ {n} : disk'[m] = disk[m] /\ since'[m] = since[m]
    BY <1>1 DEF FilesInv, DiskInv
<1>4. since'[n] = now /\ now' = now /\ now \in Nat
    BY <1>1 DEF FilesInv, DiskInv
<1>5. IndexInv'
    <2>1. fileIndexCache.createdAt \in Nat /\ fileIndexCache.createdAt <= now
        BY DEF FilesInv, IndexInv
    <2>2. ~(since'[n] < fileIndexCache.createdAt)
        BY <1>4, <2>1
    <2> QED BY <1>1, <1>3, <2>2 DEF FilesInv, IndexInv, Listed
<1>6. ASSUME NEW x \in FileReads, ReadInv(x), NEW y, y = [x EXCEPT !.still = @ \ {n}]
      PROVE  y \in FileReads /\ ReadInv(y)'
    <2>1. /\ y \in FileReads /\ y.kind = x.kind /\ y.step = x.step /\ y.todo = x.todo /\ y.found = x.found
          /\ y.startedAt = x.startedAt /\ y.still = x.still \ {n} /\ y.answered = x.answered
          /\ y.failed = x.failed /\ x.startedAt \in Nat /\ x.still \subseteq Names
        BY <1>6 DEF FileReads
    <2>2. y.still # Names /\ y.still \subseteq Names \ {n}
        BY <2>1
    <2>3. x.startedAt <= now
        BY <1>6 DEF ReadInv
    <2>4. \A m \in Names : m \notin y.still => since'[m] >= y.startedAt
        BY <1>3, <1>4, <1>6, <2>1, <2>3 DEF ReadInv
    <2>5. TodoIsListed(x) => TodoIsListed(y)'
        BY <1>3, <2>1, <2>2 DEF TodoIsListed
    <2>6. FoundIsWanted(x) => FoundIsWanted(y)'
        BY <1>3, <2>1, <2>2 DEF FoundIsWanted, Wanted
    <2>7. WantedIsFound(x) => WantedIsFound(y)'
        BY <1>3, <2>1, <2>2 DEF WantedIsFound, Wanted
    <2>8. ReadsAText(x) => ReadsAText(y)'
        BY <1>3, <2>1, <2>2 DEF ReadsAText
    <2>9. WalkIsRight(x) => WalkIsRight(y)'
        BY <1>3, <2>1, <2>2, <2>6 DEF WalkIsRight, Wanted, IsFull
    <2>10. NamesAreRecent(x) => NamesAreRecent(y)'
        <3>1. \A a, b, l \in Nat : a <= b => ~(b < a - l)
            OBVIOUS
        <3>2. ~(since'[n] < y.startedAt - FileIndexTtl)
            BY <1>4, <2>1, <2>3, <3>1, FilesAssumption
        <3> QED BY <1>3, <2>1, <3>2 DEF NamesAreRecent, Listed
    <2>11. Answered(y)' <=> Answered(x)
        BY <2>1 DEF Answered
    <2>12. y.startedAt <= now' /\ IsFiniteSet(y.found)
        BY <1>4, <1>6, <2>1, <2>3 DEF ReadInv
    <2>13. /\ y.step # "idle" => /\ ~y.answered /\ ~y.failed /\ y.kind # "none"
                                 /\ TodoIsListed(y)' /\ FoundIsWanted(y)' /\ WantedIsFound(y)'
           /\ y.step = "read" => ReadsAText(y)'
           /\ y.kind \in {"text", "list"} => Cardinality(y.found) <= Limit
        BY <1>6, <2>1, <2>5, <2>6, <2>7, <2>8 DEF ReadInv
    <2>14. y.step = "idle" /\ Answered(y)' => IF y.kind = "names" THEN NamesAreRecent(y)' ELSE WalkIsRight(y)'
        BY <1>6, <2>1, <2>9, <2>10, <2>11 DEF ReadInv
    <2> QED BY <2>1, <2>2, <2>4, <2>12, <2>13, <2>14 DEF ReadInv
<1>7. ASSUME NEW r \in Readers PROVE reads'[r] \in FileReads /\ \A y \in FileReads : reads'[r] = y => ReadInv(y)'
    <2>1. reads[r] \in FileReads /\ ReadInv(reads[r]) /\ reads'[r] = [reads[r] EXCEPT !.still = @ \ {n}]
        BY <1>1 DEF FilesInv
    <2> QED BY <1>6, <2>1
<1> QED BY <1>1, <1>2, <1>5, <1>7 DEF FilesInv

LEMMA TimeStep == ASSUME FilesInv, TimePasses PROVE FilesInv'
<1>1. now' = now + 1 /\ UNCHANGED <<disk, since, changes, fileIndexCache, reads>> /\ now \in Nat
    BY DEF TimePasses, FilesInv, DiskInv
<1>2. \A a \in Nat : a <= now => a <= now'
    BY <1>1
<1>3. DiskInv' /\ IndexInv'
    BY <1>1, <1>2 DEF FilesInv, DiskInv, IndexInv
<1>4. ASSUME NEW x \in FileReads, ReadInv(x) PROVE ReadInv(x)'
    <2>1. x.startedAt <= now'
        BY <1>2, <1>4 DEF ReadInv, FileReads
    <2> QED BY <1>1, <1>4, <2>1 DEF ReadInv, TodoIsListed, FoundIsWanted, WantedIsFound, ReadsAText, WalkIsRight,
            NamesAreRecent, Wanted, Answered, IsFull, FolderExists
<1> QED BY <1>1, <1>3, <1>4 DEF FilesInv

LEMMA FilesStep == FilesInv /\ FilesNext => FilesInv'
BY StartWalkStep, ReadFileIndexStep, LookStep, ReadTextStep, FinishStep, DiskStep, TimeStep DEF FilesNext

-----------------------------------------------------------------------------

\* What the Node server reads and tells: a walk is right about every file that stayed the same, names
\* are searched in an index no older than FileIndexTtl, a read fails for a reason, and a listener gets
\* every event while its stream is open (node-file-system.ts, http-server.ts).
THEOREM AnswersAreRight == MCSpec => []ServerAnswers
<1>1. MCInit => FilesInv /\ ServerInv
    BY FilesStart, ServerStarts DEF MCInit
<1>2. FilesInv /\ ServerInv /\ [MCNext]_runtimeVars => (FilesInv /\ ServerInv)'
    BY PartsGoOn, FilesStep, FilesStutter, ServerStep, ServerStutters
<1>3. FilesInv /\ ServerInv => ServerAnswers
    BY FilesInvImplies DEF ServerAnswers, ServerInv
<1> QED BY <1>1, <1>2, <1>3, PTL DEF MCSpec

-----------------------------------------------------------------------------
(***************************************************************************)
(* What the Node server confirms of comments stays so, for every number of    *)
(* requests at a time, ids and failures.                                     *)
(*                                                                         *)
(* The invariant is about the plans of the requests.  A request says that a   *)
(* comment or draft is there only after the task that writes it, drops a      *)
(* draft only after the comment made of it, and records a comment right       *)
(* after it (PlansFit).  Only the first in the chain of writes has read its   *)
(* file, and nobody has changed it since (ChainFits).                        *)
(***************************************************************************)

-----------------------------------------------------------------------------
(* Comments: a request is what it still has to do *)

ThreadIds == {"none", "root", "draft", "group"} \X Ids \X Ids
EventTypes == {"thread_created", "comment_added", "comment_updated", "thread_read"}
CommentIds == Ids \X Ids
Rows == [id : CommentIds, thread : ThreadIds, text : Ids]
DraftRows == [id : Ids, target : ThreadIds, text : Ids]
JournalEvents == [type : EventTypes, thread : ThreadIds, comment : CommentIds]
Notices == [type : EventTypes, thread : ThreadIds]
TaskSet == [do : {"addComment", "editComment"}, what : Rows]
           \cup [do : {"addDraft", "editDraft", "dropDraft"}, what : DraftRows]
           \cup [do : {"log"}, what : JournalEvents] \cup [do : {"announce"}, what : Notices]
           \cup [do : {"done"}, what : Rows \cup DraftRows]

\* What was said to be there, or is there no more for a reason.
IsStored(id) == \E row \in comments : row.id = id
IsPublished(d) == \E row \in comments : From(row) = d
IsKept(d) == (\E e \in drafts : e.id = d) \/ d \in discarded \/ IsPublished(d)

AddedBefore(s, i, id) == \E j \in 1 .. i - 1 : s[j].do = "addComment" /\ s[j].what.id = id
PublishedBefore(s, i, d) == \E j \in 1 .. i - 1 : s[j].do = "addComment" /\ From(s[j].what) = d
DraftedBefore(s, i, d) == \E j \in 1 .. i - 1 : s[j].do = "addDraft" /\ s[j].what.id = d

\* A request says of a comment or draft that it is there when it is, or after it was written;
\* and it records a comment right after it was written.
TaskFits(s, i) ==
    /\ s[i].do = "log" /\ s[i].what.type # "thread_read" =>
          IsStored(s[i].what.comment) \/ AddedBefore(s, i, s[i].what.comment)
    /\ s[i].do = "done" /\ s[i].what \in Rows => IsStored(s[i].what.id) \/ AddedBefore(s, i, s[i].what.id)
    /\ s[i].do = "done" /\ s[i].what \in DraftRows => IsKept(s[i].what.id) \/ DraftedBefore(s, i, s[i].what.id)
    /\ s[i].do = "dropDraft" =>
          s[i].what.id \in discarded \/ IsPublished(s[i].what.id) \/ PublishedBefore(s, i, s[i].what.id)
    /\ s[i].do = "addComment" =>
          i + 1 \in DOMAIN s /\ s[i + 1].do = "log" /\ s[i + 1].what.comment = s[i].what.id

PlanFits(s) == \A i \in DOMAIN s : TaskFits(s, i)

PlansFit == plan \in [Calls -> Seq(TaskSet)] /\ \A c \in Calls, s \in Seq(TaskSet) : plan[c] = s => PlanFits(s)

\* A request with a write is in the chain once; only the first one there has read its file, which
\* is still what it has read.
Writes(c) == plan[c] # <<>> /\ ~Announces(Head(plan[c]))

HasRead(c) ==
    seen[c] # {} => Ready(c) /\ \A task \in TaskSet : Head(plan[c]) = task => seen[c] = {Content(task)}

ChainFits ==
    /\ writeQueue \in Seq(Calls) /\ IsInjective(writeQueue)
    /\ \A c \in Calls : c \in ToSet(writeQueue) <=> Writes(c)
    /\ DOMAIN seen = Calls
    /\ \A c \in Calls : HasRead(c)

FilesFit ==
    /\ comments \subseteq Rows /\ drafts \subseteq DraftRows /\ IsFiniteSet(drafts)
    /\ journal \in Seq(JournalEvents) /\ torn \in BOOLEAN /\ spoiled \in BOOLEAN
    /\ stamp \in Ids /\ faults \in 0 .. MaxFaults /\ (spoiled => faults > 0)

Announceable(e) == e \in JournalEvents /\ (e.type # "thread_read" => IsStored(e.comment))

HistoryFits ==
    /\ confirmed \subseteq CommentIds /\ \A id \in confirmed : IsStored(id)
    /\ discarded \subseteq Ids /\ saved \subseteq Ids /\ \A d \in saved : IsKept(d)
    /\ \A e \in Events \cup delivered : Announceable(e)

\* A comment without an event has a request that records it next, as long as nothing fails.
Recorded(row) ==
    \/ \E e \in Events : e.comment = row.id
    \/ \E c \in Calls : plan[c] # <<>> /\ Head(plan[c]).do = "log" /\ Head(plan[c]).what.comment = row.id

CommentsInv ==
    /\ PlansFit /\ ChainFits /\ FilesFit /\ HistoryFits
    /\ faults = 0 => \A row \in comments : Recorded(row)

LEMMA CommentsInvImplies == CommentsInv => CommentsAreKept
<1> SUFFICES ASSUME CommentsInv PROVE CommentsAreKept
    OBVIOUS
<1>1. TypeOK
    <2>1. \A row \in comments : row.id \in Ids \X Ids /\ row.text \in Ids
        BY DEF CommentsInv, FilesFit, Rows, CommentIds
    <2>2. \A d \in drafts : d.id \in Ids /\ d.text \in Ids
        BY DEF CommentsInv, FilesFit, DraftRows
    <2>3. \A e \in delivered : e.comment \in Ids \X Ids
        BY DEF CommentsInv, HistoryFits, Announceable, JournalEvents, CommentIds
    <2>4. ToSet(writeQueue) \subseteq Calls
        BY DEF CommentsInv, ChainFits, ToSet
    <2> QED BY <2>1, <2>2, <2>3, <2>4 DEF TypeOK, CommentsInv, FilesFit, ChainFits, HistoryFits, CommentIds
<1>2. ConfirmedCommentsAreKept
    BY DEF ConfirmedCommentsAreKept, CommentsInv, HistoryFits, IsStored
<1>3. SavedDraftsAreKept
    BY DEF SavedDraftsAreKept, CommentsInv, HistoryFits, IsKept, IsPublished
<1>4. AnnouncedCommentsExist
    BY DEF AnnouncedCommentsExist, CommentsInv, HistoryFits, IsStored, Announceable
<1>5. JournalTellsEveryComment
    BY DEF JournalTellsEveryComment, CommentsInv, Recorded, Idle
<1> QED BY <1>1, <1>2, <1>3, <1>4, <1>5 DEF CommentsAreKept

LEMMA IdsAreNumbers == Ids \subseteq Nat /\ {0, 1, 2, 3} \subseteq Ids
BY NodeCommentsAssumption DEF Ids

\* What is there stays there, or goes for a reason.
ThingsStay ==
    /\ \A row \in comments : \E new \in comments' : new.id = row.id
    /\ discarded \subseteq discarded'
    /\ \A d \in drafts : (\E e \in drafts' : e.id = d.id) \/ IsKept(d.id)'

LEMMA StoredStays ==
    ASSUME ThingsStay
    PROVE  /\ \A id : IsStored(id) => IsStored(id)'
           /\ \A d : IsPublished(d) => IsPublished(d)'
           /\ \A d : IsKept(d) => IsKept(d)'
<1>1. \A id : IsStored(id) => IsStored(id)'
    BY DEF ThingsStay, IsStored
<1>2. \A d : IsPublished(d) => IsPublished(d)'
    BY DEF ThingsStay, IsPublished, From
<1>3. \A d : IsKept(d) => IsKept(d)'
    BY <1>2 DEF ThingsStay, IsKept
<1> QED BY <1>1, <1>2, <1>3

LEMMA FitStays == ASSUME ThingsStay, NEW s, PlanFits(s) PROVE PlanFits(s)'
<1>1. ASSUME NEW i, TaskFits(s, i) PROVE TaskFits(s, i)'
    <2>1. /\ \A id : IsStored(id) => IsStored(id)'
          /\ \A d : IsPublished(d) => IsPublished(d)'
          /\ \A d : IsKept(d) => IsKept(d)'
          /\ discarded \subseteq discarded'
        BY StoredStays DEF ThingsStay
    <2> QED BY <1>1, <2>1 DEF TaskFits
<1> QED BY <1>1 DEF PlanFits

\* The rest of a plan fits when its first task is done.
LEMMA TailFits ==
    ASSUME ThingsStay, NEW s \in Seq(TaskSet), s # <<>>, PlanFits(s),
           Head(s).do = "addComment" => IsStored(Head(s).what.id)',
           Head(s).do = "addDraft" => IsKept(Head(s).what.id)',
           NEW tail, tail = Tail(s)
    PROVE  tail \in Seq(TaskSet) /\ PlanFits(tail)'
<1>1. /\ tail \in Seq(TaskSet) /\ Len(tail) = Len(s) - 1 /\ Len(s) \in Nat /\ Len(tail) \in Nat
      /\ DOMAIN s = 1 .. Len(s) /\ DOMAIN tail = 1 .. Len(tail)
      /\ \A i \in 1 .. Len(tail) : tail[i] = s[i + 1]
    BY HeadTailProperties, LenProperties
<1>2. Head(s) = s[1]
    OBVIOUS
<1>3. PlanFits(s)'
    BY FitStays
<1>4. (IsStored(s[1].what.id)' /\ IsPublished(From(s[1].what))') \/ s[1].do # "addComment"
    BY <1>2 DEF IsStored, IsPublished, From
<1>5. ASSUME NEW i \in 1 .. Len(tail) PROVE TaskFits(tail, i)'
    <2>1. i + 1 \in 1 .. Len(s) /\ tail[i] = s[i + 1] /\ TaskFits(s, i + 1)'
        BY <1>1, <1>3 DEF PlanFits
    <2>2. \A j \in 1 .. (i + 1) - 1 : j = 1 \/ (j - 1 \in 1 .. i - 1 /\ tail[j - 1] = s[j])
        BY <1>1
    <2>3. \A id : AddedBefore(s, i + 1, id) => AddedBefore(tail, i, id) \/ IsStored(id)'
        BY <1>4, <2>2 DEF AddedBefore
    <2>4. \A d : PublishedBefore(s, i + 1, d) => PublishedBefore(tail, i, d) \/ IsPublished(d)'
        BY <1>4, <2>2 DEF PublishedBefore
    <2>5. \A d : DraftedBefore(s, i + 1, d) => DraftedBefore(tail, i, d) \/ IsKept(d)'
        BY <1>2, <2>2 DEF DraftedBefore
    <2>6. i + 1 + 1 \in DOMAIN s => i + 1 \in DOMAIN tail /\ tail[i + 1] = s[i + 1 + 1]
        BY <1>1
    <2> QED BY <2>1, <2>3, <2>4, <2>5, <2>6 DEF TaskFits
<1> QED BY <1>1, <1>5 DEF PlanFits

LEMMA TailOfChain ==
    ASSUME NEW chain \in Seq(Calls), IsInjective(chain), chain # <<>>
    PROVE  /\ Tail(chain) \in Seq(Calls) /\ IsInjective(Tail(chain)) /\ Head(chain) \in Calls
           /\ ToSet(Tail(chain)) = ToSet(chain) \ {Head(chain)} /\ Head(chain) \in ToSet(chain)
<1>1. /\ Tail(chain) \in Seq(Calls) /\ Len(chain) \in Nat \ {0} /\ Len(Tail(chain)) = Len(chain) - 1 /\ Head(chain) = chain[1]
      /\ \A i \in 1 .. Len(Tail(chain)) : Tail(chain)[i] = chain[i + 1]
      /\ DOMAIN chain = 1 .. Len(chain) /\ DOMAIN Tail(chain) = 1 .. Len(Tail(chain))
      /\ Head(chain) \in Calls
    BY HeadTailProperties, LenProperties, EmptySeq
<1>2. IsInjective(Tail(chain))
    BY <1>1 DEF IsInjective
<1>3. ToSet(Tail(chain)) \subseteq ToSet(chain) \ {Head(chain)}
    BY <1>1 DEF ToSet, IsInjective
<1>4. ASSUME NEW i \in DOMAIN chain, chain[i] # Head(chain) PROVE chain[i] \in ToSet(Tail(chain))
    <2>1. i - 1 \in DOMAIN Tail(chain) /\ Tail(chain)[i - 1] = chain[i]
        BY <1>1, <1>4
    <2> QED BY <2>1 DEF ToSet
<1>5. ToSet(chain) \ {Head(chain)} \subseteq ToSet(Tail(chain))
    BY <1>4 DEF ToSet
<1>6. Head(chain) \in ToSet(chain)
    BY <1>1 DEF ToSet
<1> QED BY <1>1, <1>2, <1>3, <1>5, <1>6

LEMMA AppendToChain ==
    ASSUME NEW chain \in Seq(Calls), IsInjective(chain), NEW c \in Calls, c \notin ToSet(chain)
    PROVE  /\ Append(chain, c) \in Seq(Calls) /\ IsInjective(Append(chain, c))
           /\ ToSet(Append(chain, c)) = ToSet(chain) \cup {c}
           /\ Append(chain, c) # <<>> /\ (chain # <<>> => Head(Append(chain, c)) = Head(chain))
<1>1. /\ Append(chain, c) \in Seq(Calls) /\ Len(Append(chain, c)) = Len(chain) + 1 /\ Len(chain) \in Nat
      /\ \A i \in 1 .. Len(chain) : Append(chain, c)[i] = chain[i]
      /\ Append(chain, c)[Len(chain) + 1] = c
      /\ DOMAIN chain = 1 .. Len(chain) /\ DOMAIN Append(chain, c) = 1 .. Len(chain) + 1
    BY AppendProperties, LenProperties
<1>2. \A i \in DOMAIN Append(chain, c) : i \in DOMAIN chain \/ i = Len(chain) + 1
    BY <1>1
<1>3. \A i \in DOMAIN chain : chain[i] # c
    BY DEF ToSet
<1>4. IsInjective(Append(chain, c))
    BY <1>1, <1>2, <1>3 DEF IsInjective
<1>5. ToSet(Append(chain, c)) = ToSet(chain) \cup {c}
    <2>1. ToSet(Append(chain, c)) \subseteq ToSet(chain) \cup {c}
        BY <1>1, <1>2 DEF ToSet
    <2>2. \A i \in DOMAIN chain : chain[i] \in ToSet(Append(chain, c))
        BY <1>1 DEF ToSet
    <2>3. Len(chain) + 1 \in DOMAIN Append(chain, c)
        BY <1>1
    <2>4. c \in ToSet(Append(chain, c))
        BY <1>1, <2>3 DEF ToSet
    <2>5. ToSet(chain) \subseteq ToSet(Append(chain, c))
        BY <2>2 DEF ToSet
    <2> QED BY <2>1, <2>4, <2>5
<1>6. Append(chain, c) # <<>>
    BY <1>1
<1>7. chain # <<>> => Head(Append(chain, c)) = Head(chain)
    BY <1>1, <1>6, EmptySeq
<1> QED BY <1>1, <1>4, <1>5, <1>6, <1>7

\* A call goes on with other tasks, the chain without it being queue.
LEMMA ChainGoesOn ==
    ASSUME ChainFits, NEW c \in Calls, NEW tasks, plan' = [plan EXCEPT ![c] = tasks], DOMAIN plan = Calls,
           NEW queue \in Seq(Calls), IsInjective(queue), ToSet(queue) = ToSet(writeQueue) \ {c},
           writeQueue' = IF tasks = <<>> \/ Announces(Head(tasks)) THEN queue ELSE Append(queue, c)
    PROVE  /\ writeQueue' \in Seq(Calls) /\ IsInjective(writeQueue')
           /\ \A d \in Calls : d \in ToSet(writeQueue') <=> Writes(d)'
           /\ queue # <<>> => writeQueue' # <<>> /\ Head(writeQueue') = Head(queue)
<1>1. plan'[c] = tasks /\ \A d \in Calls \ {c} : plan'[d] = plan[d]
    OBVIOUS
<1>2. \A d \in Calls \ {c} : Writes(d)' <=> Writes(d)
    BY <1>1 DEF Writes, Announces
<1>3. Writes(c)' <=> ~(tasks = <<>> \/ Announces(Head(tasks)))
    BY <1>1 DEF Writes, Announces
<1>4. \A d \in Calls : d \in ToSet(writeQueue) <=> Writes(d)
    BY DEF ChainFits
<1>5. CASE tasks = <<>> \/ Announces(Head(tasks))
    <2>1. writeQueue' = queue
        BY <1>5
    <2> QED BY <1>2, <1>3, <1>4, <1>5, <2>1
<1>6. CASE ~(tasks = <<>> \/ Announces(Head(tasks)))
    <2>1. writeQueue' = Append(queue, c) /\ c \notin ToSet(queue)
        BY <1>6
    <2>2. /\ Append(queue, c) \in Seq(Calls) /\ IsInjective(Append(queue, c))
          /\ ToSet(Append(queue, c)) = ToSet(queue) \cup {c}
          /\ Append(queue, c) # <<>> /\ (queue # <<>> => Head(Append(queue, c)) = Head(queue))
        BY <2>1, AppendToChain
    <2>3. \A d \in Calls : d \in ToSet(Append(queue, c)) <=> Writes(d)'
        BY <1>2, <1>3, <1>4, <1>6, <2>2
    <2> QED BY <2>1, <2>2, <2>3
<1> QED BY <1>5, <1>6

\* A call that is not in the chain goes on, and no file changes.
LEMMA OtherGoesOn ==
    ASSUME ChainFits, DOMAIN plan = Calls, NEW c \in Calls, c \notin ToSet(writeQueue), NEW tasks,
           plan' = [plan EXCEPT ![c] = tasks],
           writeQueue' = IF tasks = <<>> \/ Announces(Head(tasks)) THEN writeQueue ELSE Append(writeQueue, c),
           UNCHANGED <<comments, drafts, journal, seen>>
    PROVE  ChainFits'
<1>1. /\ writeQueue \in Seq(Calls) /\ IsInjective(writeQueue) /\ ToSet(writeQueue) = ToSet(writeQueue) \ {c}
      /\ DOMAIN seen = Calls
    BY DEF ChainFits
<1>2. /\ writeQueue' \in Seq(Calls) /\ IsInjective(writeQueue')
      /\ \A d \in Calls : d \in ToSet(writeQueue') <=> Writes(d)'
      /\ writeQueue # <<>> => writeQueue' # <<>> /\ Head(writeQueue') = Head(writeQueue)
    BY <1>1, ChainGoesOn
<1>3. ASSUME NEW d \in Calls PROVE HasRead(d)'
    <2>1. SUFFICES ASSUME seen[d] # {} PROVE HasRead(d)'
        BY DEF HasRead
    <2>2. Ready(d) /\ \A task \in TaskSet : Head(plan[d]) = task => seen[d] = {Content(task)}
        BY <2>1 DEF ChainFits, HasRead
    <2>3. d # c
        BY <1>1, <2>2, TailOfChain DEF Ready
    <2>4. plan'[d] = plan[d]
        BY <2>3
    <2>5. Ready(d)'
        BY <1>2, <2>2 DEF Ready
    <2>6. \A task \in TaskSet : Content(task)' = Content(task)
        BY DEF Content
    <2> QED BY <2>2, <2>4, <2>5, <2>6 DEF HasRead
<1> QED BY <1>1, <1>2, <1>3 DEF ChainFits

\* The write at the head of the chain is over.
LEMMA WriterGoesOn ==
    ASSUME ChainFits, DOMAIN plan = Calls, NEW c \in Calls, Ready(c), NEW tasks, plan' = [plan EXCEPT ![c] = tasks],
           writeQueue' = IF tasks = <<>> \/ Announces(Head(tasks)) THEN Chain ELSE Append(Chain, c),
           DOMAIN seen' = Calls, seen'[c] = {}, \A d \in Calls \ {c} : seen'[d] = seen[d]
    PROVE  ChainFits'
<1>1. writeQueue \in Seq(Calls) /\ IsInjective(writeQueue) /\ writeQueue # <<>> /\ Head(writeQueue) = c /\ DOMAIN seen = Calls
    BY DEF ChainFits, Ready
<1>2. Chain \in Seq(Calls) /\ IsInjective(Chain) /\ ToSet(Chain) = ToSet(writeQueue) \ {c}
    BY <1>1, TailOfChain DEF Chain
<1>3. /\ writeQueue' \in Seq(Calls) /\ IsInjective(writeQueue')
      /\ \A d \in Calls : d \in ToSet(writeQueue') <=> Writes(d)'
    BY <1>2, ChainGoesOn
<1>4. \A d \in Calls : seen'[d] = {}
    BY <1>1 DEF ChainFits, Ready, HasRead
<1> QED BY <1>1, <1>3, <1>4 DEF ChainFits, HasRead

LEMMA PlanGoesOn ==
    ASSUME PlansFit, ThingsStay, NEW c \in Calls, NEW tasks \in Seq(TaskSet), PlanFits(tasks)',
           plan' = [plan EXCEPT ![c] = tasks]
    PROVE  PlansFit'
<1>1. plan' \in [Calls -> Seq(TaskSet)]
    BY DEF PlansFit
<1>2. ASSUME NEW d \in Calls, NEW s \in Seq(TaskSet), plan'[d] = s PROVE PlanFits(s)'
    <2>1. CASE d = c
        BY <1>2, <2>1 DEF PlansFit
    <2>2. CASE d # c
        BY <1>2, <2>2, FitStays DEF PlansFit
    <2> QED BY <2>1, <2>2
<1> QED BY <1>1, <1>2 DEF PlansFit

LEMMA NothingToDo == <<>> \in Seq(TaskSet) /\ PlanFits(<<>>) /\ PlanFits(<<>>)'
<1>1. DOMAIN <<>> = {}
    OBVIOUS
<1> QED BY <1>1, EmptySeq DEF PlanFits

LEMMA RequestStep ==
    ASSUME CommentsInv, NEW c \in Calls, NEW tasks \in Seq(TaskSet), Request(c, tasks),
           discarded \subseteq discarded', discarded' \subseteq Ids, PlanFits(tasks) \/ PlanFits(tasks)'
    PROVE  CommentsInv'
<1>1. /\ plan[c] = <<>> /\ stamp < MaxStamp /\ stamp' = stamp + 1 /\ plan' = [plan EXCEPT ![c] = tasks]
      /\ writeQueue' = IF tasks = <<>> \/ Announces(Head(tasks)) THEN writeQueue ELSE Append(writeQueue, c)
      /\ UNCHANGED <<comments, drafts, journal, torn, spoiled, seen, faults, delivered, confirmed, saved>>
    BY DEF Request, Idle, Continue, files
<1>2. PlansFit /\ ChainFits /\ FilesFit /\ HistoryFits
    BY DEF CommentsInv
<1>3. ThingsStay
    BY <1>1 DEF ThingsStay
<1>4. PlansFit'
    <2>1. PlanFits(tasks)'
        BY <1>3, FitStays
    <2> QED BY <1>1, <1>2, <1>3, <2>1, PlanGoesOn
<1>5. c \notin ToSet(writeQueue) /\ DOMAIN plan = Calls
    BY <1>1, <1>2 DEF ChainFits, Writes, PlansFit
<1>6. ChainFits'
    BY <1>1, <1>2, <1>5, OtherGoesOn
<1>7. FilesFit'
    <2>1. stamp' \in Ids
        BY <1>1, <1>2, NodeCommentsAssumption DEF Ids, FilesFit
    <2> QED BY <1>1, <1>2, <2>1 DEF FilesFit
<1>8. HistoryFits'
    <2>1. \A id : IsStored(id) => IsStored(id)'
        BY <1>3, StoredStays
    <2>2. \A d : IsKept(d) => IsKept(d)'
        BY <1>3, StoredStays
    <2>3. \A e : Announceable(e) => Announceable(e)'
        BY <2>1 DEF Announceable
    <2>4. Events' = Events
        BY <1>1 DEF Events
    <2> QED BY <1>1, <1>2, <2>1, <2>2, <2>3, <2>4 DEF HistoryFits
<1>9. ASSUME faults' = 0, NEW row \in comments' PROVE Recorded(row)'
    <2>1. Recorded(row)
        BY <1>1, <1>9 DEF CommentsInv
    <2>2. \A d \in Calls : plan[d] # <<>> => plan'[d] = plan[d]
        BY <1>1, <1>5
    <2> QED BY <1>1, <2>1, <2>2 DEF Recorded, Events
<1> QED BY <1>4, <1>6, <1>7, <1>8, <1>9 DEF CommentsInv

-----------------------------------------------------------------------------
(* What each request asks for *)

LEMMA NewId == ASSUME CommentsInv, NEW c, NEW tasks, Request(c, tasks) PROVE Next1 \in Ids /\ 0 \in Ids /\ Next1 \in Nat
<1>1. stamp < MaxStamp /\ stamp \in Nat
    BY NodeCommentsAssumption DEF Request, CommentsInv, FilesFit, Ids
<1> QED BY <1>1, NodeCommentsAssumption DEF Ids, Next1

\* The three tasks that make a comment.
LEMMA CreationTasks ==
    ASSUME NEW row \in Rows
    PROVE  \E event \in JournalEvents, notice \in Notices :
              /\ Creation(row) = <<Task("addComment", row), Task("log", event), Task("announce", notice)>>
              /\ event.comment = row.id /\ event.type # "thread_read"
<1> DEFINE type == IF row.thread = Root(row.id[1]) THEN "thread_created" ELSE "comment_added"
           event == [type |-> type, thread |-> row.thread, comment |-> row.id]
           notice == [type |-> type, thread |-> row.thread]
<1>1. Creation(row) = <<Task("addComment", row), Task("log", event), Task("announce", notice)>>
    BY DEF Creation, CreateNormalized
<1>2. type \in EventTypes /\ type # "thread_read"
    BY DEF EventTypes
<1>3. row.thread \in ThreadIds /\ row.id \in CommentIds
    BY DEF Rows
<1>4. event \in JournalEvents /\ notice \in Notices
    BY <1>2, <1>3 DEF JournalEvents, Notices
<1> HIDE DEF type
<1> QED BY <1>1, <1>2, <1>4

LEMMA TasksHaveTypes ==
    /\ \A row \in Rows : {Task("addComment", row), Task("editComment", row), Task("done", row)} \subseteq TaskSet
    /\ \A draft \in DraftRows : {Task("addDraft", draft), Task("editDraft", draft), Task("dropDraft", draft),
                                 Task("done", draft)} \subseteq TaskSet
    /\ \A event \in JournalEvents : Task("log", event) \in TaskSet
    /\ \A notice \in Notices : Task("announce", notice) \in TaskSet
BY DEF TaskSet, Task

LEMMA RowsAndDrafts ==
    /\ \A row \in Rows : row \notin DraftRows /\ "thread" \in DOMAIN row /\ "target" \notin DOMAIN row
    /\ \A draft \in DraftRows : draft \notin Rows /\ "target" \in DOMAIN draft /\ "thread" \notin DOMAIN draft
BY DEF Rows, DraftRows

LEMMA FourTasks ==
    ASSUME NEW a \in TaskSet, NEW b \in TaskSet, NEW d \in TaskSet, NEW e \in TaskSet
    PROVE  /\ <<a, b, d>> \o <<e>> = <<a, b, d, e>>
           /\ <<a, b, d, e>> \in Seq(TaskSet) /\ DOMAIN <<a, b, d, e>> = 1 .. 4
           /\ \A i \in 1 .. 4 : i = 1 \/ i = 2 \/ i = 3 \/ i = 4
<1> DEFINE s == <<a, b, d>>
           r == <<e>>
           u == <<a, b, d, e>>
<1>1. s \o r = u
    <2>1. /\ s \in Seq(TaskSet) /\ r \in Seq(TaskSet) /\ u \in Seq(TaskSet)
          /\ Len(s) = 3 /\ Len(r) = 1 /\ Len(u) = 4
          /\ s[1] = a /\ s[2] = b /\ s[3] = d /\ r[1] = e
          /\ u[1] = a /\ u[2] = b /\ u[3] = d /\ u[4] = e
        OBVIOUS
    <2> HIDE DEF s, r, u
    <2>4. /\ s \o r \in Seq(TaskSet) /\ Len(s \o r) = Len(s) + Len(r)
          /\ \A i \in 1 .. Len(s) + Len(r) : (s \o r)[i] = IF i <= Len(s) THEN s[i] ELSE r[i - Len(s)]
        BY <2>1, ConcatProperties
    <2>2. /\ s \o r \in Seq(TaskSet) /\ Len(s \o r) = 4
          /\ \A i \in 1 .. 4 : (s \o r)[i] = IF i <= 3 THEN s[i] ELSE r[i - 3]
        BY <2>1, <2>4
    <2>3. \A i \in 1 .. 4 : (s \o r)[i] = u[i]
        BY <2>1, <2>2
    <2> QED BY <2>1, <2>2, <2>3, SeqEqual
<1>2. u \in Seq(TaskSet) /\ DOMAIN u = 1 .. 4
    OBVIOUS
<1>3. \A i \in 1 .. 4 : i = 1 \/ i = 2 \/ i = 3 \/ i = 4
    OBVIOUS
<1> QED BY <1>1, <1>2, <1>3

\* A plan that makes a comment and answers with it.
LEMMA NewCommentPlan ==
    ASSUME NEW row \in Rows
    PROVE  /\ Creation(row) \o <<Task("done", row)>> \in Seq(TaskSet)
           /\ PlanFits(Creation(row) \o <<Task("done", row)>>)
<1>1. PICK event \in JournalEvents, notice \in Notices :
        /\ Creation(row) = <<Task("addComment", row), Task("log", event), Task("announce", notice)>>
        /\ event.comment = row.id /\ event.type # "thread_read"
    BY CreationTasks
<1> DEFINE a == Task("addComment", row)
           b == Task("log", event)
           d == Task("announce", notice)
           e == Task("done", row)
           s == <<a, b, d, e>>
<1>2. /\ Creation(row) \o <<e>> = s /\ s \in Seq(TaskSet) /\ DOMAIN s = 1 .. 4
      /\ \A i \in 1 .. 4 : i = 1 \/ i = 2 \/ i = 3 \/ i = 4
    BY <1>1, TasksHaveTypes, FourTasks
<1>3. s[1] = a /\ s[2] = b /\ s[3] = d /\ s[4] = e
    OBVIOUS
<1>4. /\ a.do = "addComment" /\ a.what = row /\ b.do = "log" /\ b.what = event
      /\ d.do = "announce" /\ e.do = "done" /\ e.what = row
    BY DEF Task
<1> HIDE DEF s, a, b, d, e
<1>5. TaskFits(s, 1)
    BY <1>1, <1>2, <1>3, <1>4 DEF TaskFits
<1>6. TaskFits(s, 2)
    <2>1. AddedBefore(s, 2, row.id)
        BY <1>3, <1>4 DEF AddedBefore
    <2> QED BY <1>1, <1>3, <1>4, <2>1 DEF TaskFits
<1>7. TaskFits(s, 3)
    BY <1>3, <1>4 DEF TaskFits
<1>8. TaskFits(s, 4)
    <2>1. AddedBefore(s, 4, row.id)
        BY <1>3, <1>4 DEF AddedBefore
    <2> QED BY <1>3, <1>4, <2>1, RowsAndDrafts DEF TaskFits
<1>9. PlanFits(s)
    BY <1>2, <1>5, <1>6, <1>7, <1>8 DEF PlanFits
<1> QED BY <1>2, <1>9 DEF e

LEMMA CreateThreadStep == ASSUME CommentsInv, NEW c \in Calls, CreateThread(c) PROVE CommentsInv'
<1> DEFINE row == Row(<<Next1, 0>>, Root(Next1), Next1)
<1>1. Request(c, Creation(row) \o <<Task("done", row)>>) /\ UNCHANGED discarded
    BY DEF CreateThread
<1>2. Next1 \in Ids /\ 0 \in Ids
    BY <1>1, NewId
<1>3. row \in Rows
    <2>1. Root(Next1) \in ThreadIds /\ <<Next1, 0>> \in CommentIds
        BY <1>2 DEF ThreadIds, Root, CommentIds
    <2> QED BY <1>2, <2>1 DEF Rows, Row
<1> HIDE DEF row
<1>4. discarded \subseteq Ids
    BY DEF CommentsInv, HistoryFits
<1> QED BY <1>1, <1>3, <1>4, NewCommentPlan, RequestStep

LEMMA AddCommentStep == ASSUME CommentsInv, NEW c \in Calls, NEW t \in Threads, AddComment(c, t) PROVE CommentsInv'
<1> DEFINE row == Row(<<Next1, 0>>, t, Next1)
<1>1. Request(c, Creation(row) \o <<Task("done", row)>>) /\ UNCHANGED discarded
    BY DEF AddComment
<1>2. Next1 \in Ids /\ 0 \in Ids
    BY <1>1, NewId
<1>3. row \in Rows
    <2>1. t \in ThreadIds
        BY DEF Threads, CommentsInv, FilesFit, Rows
    <2> QED BY <1>2, <2>1 DEF Rows, Row, CommentIds
<1> HIDE DEF row
<1>4. discarded \subseteq Ids
    BY DEF CommentsInv, HistoryFits
<1> QED BY <1>1, <1>3, <1>4, NewCommentPlan, RequestStep

LEMMA UpdateCommentStep == ASSUME CommentsInv, NEW c \in Calls, NEW row \in comments, UpdateComment(c, row) PROVE CommentsInv'
<1> DEFINE a == Task("editComment", [row EXCEPT !.text = Next1])
           event == [type |-> "comment_updated", thread |-> row.thread, comment |-> row.id]
           b == Task("log", event)
           notice == [type |-> "comment_updated", thread |-> row.thread]
           d == Task("announce", notice)
<1>1. Request(c, <<a, b, d>>) /\ UNCHANGED discarded
    BY DEF UpdateComment
<1>2. Next1 \in Ids /\ row \in Rows /\ row.thread \in ThreadIds /\ row.id \in CommentIds /\ discarded \subseteq Ids
    BY <1>1, NewId DEF CommentsInv, FilesFit, Rows, HistoryFits
<1>3. [row EXCEPT !.text = Next1] \in Rows
    BY <1>2 DEF Rows
<1>4. event \in JournalEvents /\ notice \in Notices /\ event.comment = row.id
    BY <1>2 DEF JournalEvents, Notices, EventTypes
<1>5. a \in TaskSet /\ b \in TaskSet /\ d \in TaskSet
    BY <1>3, <1>4, TasksHaveTypes
<1>6. a.do = "editComment" /\ b.do = "log" /\ b.what.comment = row.id /\ d.do = "announce"
    BY DEF Task
<1>7. IsStored(row.id)
    BY DEF IsStored
<1> HIDE DEF a, b, d
<1>8. <<a, b, d>> \in Seq(TaskSet)
    BY <1>5
<1>9. PlanFits(<<a, b, d>>)
    <2>1. \A i \in DOMAIN <<a, b, d>> : i = 1 \/ i = 2 \/ i = 3
        OBVIOUS
    <2>2. TaskFits(<<a, b, d>>, 1) /\ TaskFits(<<a, b, d>>, 2) /\ TaskFits(<<a, b, d>>, 3)
        BY <1>6, <1>7 DEF TaskFits
    <2> QED BY <2>1, <2>2 DEF PlanFits
<1> QED BY <1>1, <1>2, <1>8, <1>9, RequestStep

LEMMA SaveDraftStep == ASSUME CommentsInv, NEW c \in Calls, NEW t \in Targets, SaveDraft(c, t) PROVE CommentsInv'
<1> DEFINE draft == Draft(Next1, t)
           a == Task("addDraft", draft)
           e == Task("done", draft)
<1>1. Request(c, <<a, e>>) /\ UNCHANGED discarded
    BY DEF SaveDraft
<1>2. Next1 \in Ids /\ 0 \in Ids /\ discarded \subseteq Ids /\ comments \subseteq Rows /\ drafts \subseteq DraftRows
    BY <1>1, NewId DEF CommentsInv, HistoryFits, FilesFit
<1>3. t \in ThreadIds
    <2>1. None \in ThreadIds
        BY <1>2 DEF None, ThreadIds
    <2>2. \A d \in drafts : DraftThread(d.id) \in ThreadIds
        BY <1>2 DEF DraftThread, ThreadIds, DraftRows
    <2>3. Threads \subseteq ThreadIds
        BY <1>2 DEF Threads, Rows
    <2> QED BY <2>1, <2>2, <2>3 DEF Targets
<1>4. draft \in DraftRows /\ a \in TaskSet /\ e \in TaskSet
    <2>1. draft \in DraftRows
        BY <1>2, <1>3 DEF Draft, DraftRows
    <2> QED BY <2>1, TasksHaveTypes
<1>5. a.do = "addDraft" /\ a.what = draft /\ e.do = "done" /\ e.what = draft /\ draft \notin Rows
    BY <1>4, RowsAndDrafts DEF Task
<1> HIDE DEF a, e, draft
<1>6. <<a, e>> \in Seq(TaskSet)
    BY <1>4
<1>7. PlanFits(<<a, e>>)
    <2>1. \A i \in DOMAIN <<a, e>> : i = 1 \/ i = 2
        OBVIOUS
    <2>2. DraftedBefore(<<a, e>>, 2, draft.id)
        BY <1>5 DEF DraftedBefore
    <2>3. TaskFits(<<a, e>>, 1)
        BY <1>5 DEF TaskFits
    <2>4. TaskFits(<<a, e>>, 2)
        BY <1>5, <2>2 DEF TaskFits
    <2> QED BY <2>1, <2>3, <2>4 DEF PlanFits
<1> QED BY <1>1, <1>2, <1>6, <1>7, RequestStep

LEMMA OneTask == ASSUME NEW a \in TaskSet, TaskFits(<<a>>, 1) PROVE <<a>> \in Seq(TaskSet) /\ PlanFits(<<a>>)
<1>1. <<a>> \in Seq(TaskSet) /\ \A i \in DOMAIN <<a>> : i = 1
    OBVIOUS
<1> QED BY <1>1 DEF PlanFits

LEMMA EditDraftStep == ASSUME CommentsInv, NEW c \in Calls, NEW draft \in drafts, EditDraft(c, draft) PROVE CommentsInv'
<1> DEFINE a == Task("editDraft", [draft EXCEPT !.text = Next1])
<1>1. Request(c, <<a>>) /\ UNCHANGED discarded
    BY DEF EditDraft
<1>2. Next1 \in Ids /\ discarded \subseteq Ids /\ draft \in DraftRows
    BY <1>1, NewId DEF CommentsInv, HistoryFits, FilesFit
<1>3. a \in TaskSet /\ a.do = "editDraft"
    <2>1. [draft EXCEPT !.text = Next1] \in DraftRows
        BY <1>2 DEF DraftRows
    <2> QED BY <2>1, TasksHaveTypes DEF Task
<1> HIDE DEF a
<1>4. TaskFits(<<a>>, 1)
    BY <1>3 DEF TaskFits
<1> QED BY <1>1, <1>2, <1>3, <1>4, OneTask, RequestStep

LEMMA DeleteDraftStep == ASSUME CommentsInv, NEW c \in Calls, NEW draft \in drafts, DeleteDraft(c, draft) PROVE CommentsInv'
<1> DEFINE a == Task("dropDraft", draft)
<1>1. Request(c, <<a>>) /\ discarded' = discarded \cup {draft.id}
    BY DEF DeleteDraft
<1>2. discarded \subseteq Ids /\ draft \in DraftRows /\ draft.id \in Ids
    BY DEF CommentsInv, HistoryFits, FilesFit, DraftRows
<1>3. a \in TaskSet /\ a.do = "dropDraft" /\ a.what = draft
    BY <1>2, TasksHaveTypes DEF Task
<1> HIDE DEF a
<1>4. TaskFits(<<a>>, 1)'
    BY <1>1, <1>3 DEF TaskFits
<1>5. <<a>> \in Seq(TaskSet) /\ \A i \in DOMAIN <<a>> : i = 1
    BY <1>3
<1>6. PlanFits(<<a>>)'
    BY <1>4, <1>5 DEF PlanFits
<1> QED BY <1>1, <1>2, <1>5, <1>6, RequestStep

LEMMA ReadThreadStep == ASSUME CommentsInv, NEW c \in Calls, NEW t \in Threads, ReadThread(c, t) PROVE CommentsInv'
<1> DEFINE event == [type |-> "thread_read", thread |-> t, comment |-> <<0, 0>>]
           notice == [type |-> "thread_read", thread |-> t]
           a == Task("log", event)
           d == Task("announce", notice)
<1>1. Request(c, <<a, d>>) /\ UNCHANGED discarded
    BY DEF ReadThread
<1>2. 0 \in Ids /\ discarded \subseteq Ids /\ t \in ThreadIds
    BY <1>1, NewId DEF CommentsInv, HistoryFits, FilesFit, Threads, Rows
<1>3. event \in JournalEvents /\ notice \in Notices
    BY <1>2 DEF JournalEvents, Notices, EventTypes, CommentIds
<1>4. a \in TaskSet /\ d \in TaskSet /\ a.do = "log" /\ a.what.type = "thread_read" /\ d.do = "announce"
    BY <1>3, TasksHaveTypes DEF Task
<1> HIDE DEF a, d
<1>5. <<a, d>> \in Seq(TaskSet) /\ \A i \in DOMAIN <<a, d>> : i = 1 \/ i = 2
    BY <1>4
<1>6. TaskFits(<<a, d>>, 1) /\ TaskFits(<<a, d>>, 2)
    BY <1>4 DEF TaskFits
<1>7. PlanFits(<<a, d>>)
    BY <1>5, <1>6 DEF PlanFits
<1> QED BY <1>1, <1>2, <1>5, <1>7, RequestStep

\* The tasks of one draft that is published.
LEMMA PublishedTasks ==
    ASSUME CommentsInv, Next1 \in Ids, NEW selected \in SUBSET drafts, NEW draft \in selected,
           NEW s, s = PublishStep(draft, selected)
    PROVE  /\ \A j \in 1 .. 4 : s[j] \in TaskSet
           /\ s[1].do = "addComment" /\ From(s[1].what) = draft.id
           /\ s[2].do = "log" /\ s[2].what.comment = s[1].what.id
           /\ s[3].do = "announce"
           /\ s[4].do = "dropDraft" /\ s[4].what = draft
<1> DEFINE row == Row(<<Next1, draft.id>>, PublishThread(draft, selected), draft.text)
           root == IF draft.target = None THEN draft.id
                   ELSE IF draft.target[1] = "draft" THEN draft.target[2] ELSE 0
<1>1. draft \in DraftRows /\ selected \subseteq DraftRows
    BY DEF CommentsInv, FilesFit
<1>2. draft.id \in Ids /\ draft.text \in Ids /\ draft.target \in ThreadIds
    BY <1>1 DEF DraftRows
<1>3. PublishThread(draft, selected) \in ThreadIds
    <2>1. PublishThread(draft, selected) = IF root \in {d.id : d \in selected} THEN Group(root, Next1) ELSE draft.target
        BY DEF PublishThread
    <2>2. {d.id : d \in selected} \subseteq Ids
        BY <1>1 DEF DraftRows
    <2> HIDE DEF root
    <2>3. root \in Ids => Group(root, Next1) \in ThreadIds
        BY DEF Group, ThreadIds
    <2> QED BY <1>2, <2>1, <2>2, <2>3
<1>4. row \in Rows /\ From(row) = draft.id
    <2>1. <<Next1, draft.id>> \in CommentIds
        BY <1>2 DEF CommentIds
    <2> QED BY <1>2, <1>3, <2>1 DEF Rows, Row, From
<1>5. s = Creation(row) \o <<Task("dropDraft", draft)>>
    BY DEF PublishStep, PublishOne
<1> HIDE DEF row
<1>6. PICK event \in JournalEvents, notice \in Notices :
        /\ Creation(row) = <<Task("addComment", row), Task("log", event), Task("announce", notice)>>
        /\ event.comment = row.id /\ event.type # "thread_read"
    BY <1>4, CreationTasks
<1> DEFINE a == Task("addComment", row)
           b == Task("log", event)
           d == Task("announce", notice)
           e == Task("dropDraft", draft)
<1>7. a \in TaskSet /\ b \in TaskSet /\ d \in TaskSet /\ e \in TaskSet
    BY <1>1, <1>4, TasksHaveTypes
<1>8. /\ a.do = "addComment" /\ a.what = row /\ b.do = "log" /\ b.what.comment = row.id
      /\ d.do = "announce" /\ e.do = "dropDraft" /\ e.what = draft
    BY <1>6 DEF Task
<1> HIDE DEF a, b, d, e
<1>9. s = <<a, b, d, e>>
    BY <1>5, <1>6, <1>7, FourTasks DEF a, b, d, e
<1>10. s[1] = a /\ s[2] = b /\ s[3] = d /\ s[4] = e
    BY <1>9
<1> QED BY <1>4, <1>7, <1>8, <1>10, FourTasks

LEMMA FourEach ==
    ASSUME NEW n \in Nat, NEW k \in 1 .. 4 * n
    PROVE  /\ 1 + (k - 1) \div 4 \in 1 .. n /\ (k - 1) % 4 \in 0 .. 3
           /\ (k - 1) % 4 = 0 => k + 1 \in 1 .. 4 * n /\ (k + 1 - 1) % 4 = 1 /\ (k + 1 - 1) \div 4 = (k - 1) \div 4
           /\ (k - 1) % 4 = 1 => k - 1 \in 1 .. 4 * n /\ (k - 1 - 1) % 4 = 0 /\ (k - 1 - 1) \div 4 = (k - 1) \div 4
           /\ (k - 1) % 4 = 3 => k - 3 \in 1 .. 4 * n /\ (k - 3 - 1) % 4 = 0 /\ (k - 3 - 1) \div 4 = (k - 1) \div 4
OBVIOUS

LEMMA PublishDraftsStep ==
    ASSUME CommentsInv, NEW c \in Calls, NEW selected \in SUBSET drafts, PublishDrafts(c, selected) PROVE CommentsInv'
<1> DEFINE n == Cardinality(selected)
<1>1. n \in Nat
    BY FS_Subset, FS_CardinalityType DEF CommentsInv, FilesFit
<1> HIDE DEF n
<1>2. PICK listed \in [1 .. n -> selected] :
        Request(c, [k \in 1 .. TasksOfOne * n |->
                      PublishStep(listed[1 + (k - 1) \div TasksOfOne], selected)[1 + ((k - 1) % TasksOfOne)]])
    BY DEF PublishDrafts, n
<1>3. UNCHANGED discarded /\ discarded \subseteq Ids
    BY DEF PublishDrafts, CommentsInv, HistoryFits
<1> DEFINE Of(k) == PublishStep(listed[1 + (k - 1) \div 4], selected)
           tasks == [k \in 1 .. 4 * n |-> Of(k)[1 + ((k - 1) % 4)]]
<1>4. Request(c, tasks) /\ Next1 \in Ids
    BY <1>2, NewId DEF TasksOfOne
<1>5. ASSUME NEW k \in 1 .. 4 * n
      PROVE  \E draft \in selected :
                /\ \A j \in 1 .. 4 : Of(k)[j] \in TaskSet
                /\ Of(k)[1].do = "addComment" /\ From(Of(k)[1].what) = draft.id
                /\ Of(k)[2].do = "log" /\ Of(k)[2].what.comment = Of(k)[1].what.id
                /\ Of(k)[3].do = "announce"
                /\ Of(k)[4].do = "dropDraft" /\ Of(k)[4].what = draft
    <2>1. listed[1 + (k - 1) \div 4] \in selected
        BY <1>1, FourEach
    <2> QED BY <1>4, <2>1, PublishedTasks
<1>6. DOMAIN tasks = 1 .. 4 * n /\ \A k \in 1 .. 4 * n : tasks[k] = Of(k)[1 + ((k - 1) % 4)]
    OBVIOUS
<1>7. \A k, l \in 1 .. 4 * n : (k - 1) \div 4 = (l - 1) \div 4 => Of(k) = Of(l)
    OBVIOUS
<1> HIDE DEF tasks, Of
<1>8. ASSUME NEW k \in 1 .. 4 * n PROVE tasks[k] \in TaskSet
    <2>1. (k - 1) % 4 \in 0 .. 3
        BY <1>1, FourEach
    <2>2. 1 + ((k - 1) % 4) \in 1 .. 4
        BY <2>1
    <2> QED BY <1>5, <1>6, <2>2
<1>9. tasks \in Seq(TaskSet)
    <2>1. tasks \in [1 .. 4 * n -> TaskSet]
        <3>1. tasks = [k \in 1 .. 4 * n |-> tasks[k]]
            BY DEF tasks
        <3> QED BY <1>8, <3>1
    <2> QED BY <1>1, <2>1, SeqDef
<1>12. ASSUME NEW k \in 1 .. 4 * n, NEW l \in 1 .. 4 * n, (l - 1) \div 4 = (k - 1) \div 4
       PROVE  /\ (l - 1) % 4 = 0 => tasks[l] = Of(k)[1]
              /\ (l - 1) % 4 = 1 => tasks[l] = Of(k)[2]
              /\ (l - 1) % 4 = 3 => tasks[l] = Of(k)[4]
    <2>1. tasks[l] = Of(k)[1 + ((l - 1) % 4)]
        BY <1>6, <1>7, <1>12
    <2> QED BY <2>1
<1>10. ASSUME NEW k \in 1 .. 4 * n PROVE TaskFits(tasks, k)
    <2>1. PICK draft \in selected :
             /\ Of(k)[1].do = "addComment" /\ From(Of(k)[1].what) = draft.id
             /\ Of(k)[2].do = "log" /\ Of(k)[2].what.comment = Of(k)[1].what.id
             /\ Of(k)[3].do = "announce"
             /\ Of(k)[4].do = "dropDraft" /\ Of(k)[4].what = draft
        BY <1>5
    <2>2. CASE (k - 1) % 4 = 0
        <3>1. k + 1 \in 1 .. 4 * n /\ tasks[k + 1] = Of(k)[2] /\ tasks[k] = Of(k)[1]
            <4>1. k + 1 \in 1 .. 4 * n /\ (k + 1 - 1) % 4 = 1 /\ (k + 1 - 1) \div 4 = (k - 1) \div 4
                BY <1>1, <2>2, FourEach
            <4>2. tasks[k + 1] = Of(k)[2]
                BY <1>12, <4>1
            <4>3. tasks[k] = Of(k)[1]
                BY <1>12, <2>2
            <4> QED BY <4>1, <4>2, <4>3
        <3> QED BY <1>6, <2>1, <3>1 DEF TaskFits
    <2>3. CASE (k - 1) % 4 = 1
        <3>1. k - 1 \in 1 .. 4 * n /\ tasks[k - 1] = Of(k)[1] /\ tasks[k] = Of(k)[2]
            <4>1. k - 1 \in 1 .. 4 * n /\ (k - 1 - 1) % 4 = 0 /\ (k - 1 - 1) \div 4 = (k - 1) \div 4
                BY <1>1, <2>3, FourEach
            <4>2. tasks[k - 1] = Of(k)[1]
                BY <1>12, <4>1
            <4>3. tasks[k] = Of(k)[2]
                BY <1>12, <2>3
            <4> QED BY <4>1, <4>2, <4>3
        <3>2. AddedBefore(tasks, k, tasks[k].what.comment)
            <4>1. k - 1 \in 1 .. k - 1
                BY <3>1
            <4> QED BY <2>1, <3>1, <4>1 DEF AddedBefore
        <3> QED BY <2>1, <3>1, <3>2 DEF TaskFits
    <2>4. CASE (k - 1) % 4 = 2
        <3>1. tasks[k] = Of(k)[3]
            BY <1>6, <2>4
        <3> QED BY <2>1, <3>1 DEF TaskFits
    <2>5. CASE (k - 1) % 4 = 3
        <3>1. k - 3 \in 1 .. 4 * n /\ tasks[k - 3] = Of(k)[1] /\ tasks[k] = Of(k)[4]
            <4>1. k - 3 \in 1 .. 4 * n /\ (k - 3 - 1) % 4 = 0 /\ (k - 3 - 1) \div 4 = (k - 1) \div 4
                BY <1>1, <2>5, FourEach
            <4>2. tasks[k - 3] = Of(k)[1]
                BY <1>12, <4>1
            <4>3. tasks[k] = Of(k)[4]
                BY <1>12, <2>5
            <4> QED BY <4>1, <4>2, <4>3
        <3>2. PublishedBefore(tasks, k, tasks[k].what.id)
            <4>1. k - 3 \in 1 .. k - 1
                BY <3>1
            <4> QED BY <2>1, <3>1, <4>1 DEF PublishedBefore
        <3> QED BY <2>1, <3>1, <3>2 DEF TaskFits
    <2>6. (k - 1) % 4 \in 0 .. 3
        BY <1>1, FourEach
    <2> QED BY <2>2, <2>3, <2>4, <2>5, <2>6
<1>11. PlanFits(tasks)
    BY <1>6, <1>10 DEF PlanFits
<1> QED BY <1>3, <1>4, <1>9, <1>11, RequestStep

-----------------------------------------------------------------------------
(* The steps of a request *)

LEMMA HistoryStays ==
    ASSUME HistoryFits, ThingsStay, UNCHANGED history,
           \A e \in Events' \cup delivered' : Announceable(e) \/ Announceable(e)'
    PROVE  HistoryFits'
<1>1. \A id : IsStored(id) => IsStored(id)'
    BY StoredStays
<1>2. \A d : IsKept(d) => IsKept(d)'
    BY StoredStays
<1>3. \A e : Announceable(e) => Announceable(e)'
    BY <1>1 DEF Announceable
<1> QED BY <1>1, <1>2, <1>3 DEF HistoryFits, history

\* What is known of a request that is under way.
LEMMA TaskAtHead ==
    ASSUME CommentsInv, NEW c \in Calls, Busy(c)
    PROVE  /\ plan[c] \in Seq(TaskSet) /\ plan[c] # <<>> /\ PlanFits(plan[c]) /\ Head(plan[c]) \in TaskSet
           /\ Tail(plan[c]) \in Seq(TaskSet) /\ TaskFits(plan[c], 1) /\ plan[c][1] = Head(plan[c])
           /\ DOMAIN plan = Calls
           /\ PlansFit /\ ChainFits /\ FilesFit /\ HistoryFits
<1>1. plan[c] \in Seq(TaskSet) /\ plan[c] # <<>> /\ PlanFits(plan[c])
    BY DEF CommentsInv, PlansFit, Busy, Idle
<1>2. Head(plan[c]) \in TaskSet /\ Tail(plan[c]) \in Seq(TaskSet) /\ plan[c][1] = Head(plan[c])
    BY <1>1, HeadTailProperties
<1>3. 1 \in DOMAIN plan[c]
    BY <1>1, EmptySeq, LenProperties
<1> QED BY <1>1, <1>2, <1>3 DEF PlanFits, CommentsInv, PlansFit

\* What a task is of, by what it does.
LEMMA TaskFields ==
    ASSUME NEW task \in TaskSet
    PROVE  /\ task.do \in {"addComment", "editComment", "addDraft", "editDraft", "dropDraft", "log", "announce", "done"}
           /\ task.do \in {"addComment", "editComment"} => task.what \in Rows
           /\ task.do \in {"addDraft", "editDraft", "dropDraft"} => task.what \in DraftRows
           /\ task.do = "log" => task.what \in JournalEvents
           /\ task.do = "announce" => task.what \in Notices
           /\ task.do = "done" => task.what \in Rows \cup DraftRows
BY DEF TaskSet

\* The request at the head of the chain goes on: with the next task, or with none.
LEMMA WriteEnds ==
    ASSUME CommentsInv, NEW c \in Calls, Busy(c), Ready(c), ThingsStay,
           NEW tasks \in Seq(TaskSet), PlanFits(tasks)', plan' = [plan EXCEPT ![c] = tasks],
           writeQueue' = IF tasks = <<>> \/ Announces(Head(tasks)) THEN Chain ELSE Append(Chain, c),
           DOMAIN seen' = Calls, seen'[c] = {}, \A d \in Calls \ {c} : seen'[d] = seen[d],
           FilesFit', HistoryFits', faults' = 0 => \A row \in comments' : Recorded(row)'
    PROVE  CommentsInv'
<1>1. PlansFit /\ ChainFits /\ DOMAIN plan = Calls
    BY TaskAtHead
<1>2. PlansFit'
    BY <1>1, PlanGoesOn
<1>3. ChainFits'
    BY <1>1, WriterGoesOn
<1> QED BY <1>2, <1>3 DEF CommentsInv

LEMMA SeenChanges ==
    ASSUME ChainFits, NEW c \in Calls, NEW x, seen' = [seen EXCEPT ![c] = x]
    PROVE  DOMAIN seen' = Calls /\ seen'[c] = x /\ \A d \in Calls \ {c} : seen'[d] = seen[d]
BY DEF ChainFits

LEMMA ReadFileStep == ASSUME CommentsInv, NEW c \in Calls, ReadForWrite(c) PROVE CommentsInv'
<1>1. /\ Busy(c) /\ Ready(c) /\ seen[c] = {}
      /\ UNCHANGED <<comments, drafts, journal, spoiled, stamp, faults, delivered, confirmed, saved, discarded>>
    BY DEF ReadForWrite, ReadFile, history
<1>2. /\ PlansFit /\ ChainFits /\ FilesFit /\ HistoryFits
      /\ plan[c] \in Seq(TaskSet) /\ Head(plan[c]) \in TaskSet /\ DOMAIN plan = Calls
    BY <1>1, TaskAtHead
<1>3. ThingsStay
    BY <1>1 DEF ThingsStay
<1>4. HistoryFits'
    BY <1>1, <1>2, <1>3, HistoryStays DEF HistoryFits, Events, history
<1>5. CASE Now(c).do = "log" /\ spoiled
    <2>1. plan' = [plan EXCEPT ![c] = <<>>] /\ writeQueue' = Chain /\ UNCHANGED <<seen, torn>>
        BY <1>5 DEF ReadForWrite, ReadFile, Rejected, Fail
    <2>2. FilesFit' /\ faults' # 0
        BY <1>1, <1>2, <1>5, <2>1 DEF FilesFit
    <2>3. DOMAIN seen' = Calls /\ seen'[c] = {} /\ \A d \in Calls \ {c} : seen'[d] = seen[d]
        BY <1>1, <1>2, <2>1 DEF ChainFits
    <2> QED BY <1>1, <1>3, <1>4, <2>1, <2>2, <2>3, NothingToDo, WriteEnds
<1>6. CASE ~(Now(c).do = "log" /\ spoiled)
    <2>1. /\ seen' = [seen EXCEPT ![c] = {Content(Now(c))}] /\ torn' = (Now(c).do = "log")
          /\ UNCHANGED <<plan, writeQueue>>
        BY <1>6 DEF ReadForWrite, ReadFile
    <2>2. FilesFit'
        BY <1>1, <1>2, <2>1 DEF FilesFit
    <2>3. PlansFit'
        <3>1. \A s \in Seq(TaskSet) : PlanFits(s) => PlanFits(s)'
            BY <1>3, FitStays
        <3> QED BY <1>2, <2>1, <3>1 DEF PlansFit
    <2>4. ChainFits'
        <3>1. DOMAIN seen' = Calls /\ seen'[c] = {Content(Now(c))} /\ \A d \in Calls \ {c} : seen'[d] = seen[d]
            BY <1>2, <2>1, SeenChanges
        <3>2. \A task \in TaskSet : Content(task)' = Content(task)
            BY <1>1 DEF Content
        <3>3. ASSUME NEW d \in Calls PROVE HasRead(d)'
            <4>1. CASE d = c
                BY <1>1, <2>1, <3>1, <3>2, <4>1 DEF HasRead, Ready, Now
            <4>2. CASE d # c
                <5>1. HasRead(d) /\ seen'[d] = seen[d]
                    BY <1>2, <3>1, <4>2 DEF ChainFits
                <5> QED BY <2>1, <3>2, <5>1 DEF HasRead, Ready
            <4> QED BY <4>1, <4>2
        <3>4. \A d \in Calls : Writes(d)' <=> Writes(d)
            BY <2>1 DEF Writes
        <3> QED BY <1>2, <2>1, <3>1, <3>3, <3>4 DEF ChainFits
    <2>5. ASSUME faults' = 0, NEW row \in comments' PROVE Recorded(row)'
        <3>1. Recorded(row)
            BY <1>1, <2>5 DEF CommentsInv
        <3> QED BY <1>1, <2>1, <3>1 DEF Recorded, Events
    <2> QED BY <1>4, <2>2, <2>3, <2>4, <2>5 DEF CommentsInv
<1> QED BY <1>5, <1>6

\* What a write has read is what its file has.
LEMMA WriterFacts ==
    ASSUME CommentsInv, NEW c \in Calls, Busy(c), Ready(c), NEW content \in seen[c]
    PROVE  content = Content(Now(c)) /\ Now(c) \in TaskSet /\ ~Announces(Now(c))
<1>1. ChainFits /\ Now(c) \in TaskSet /\ plan[c] # <<>>
    BY TaskAtHead DEF Now
<1>2. HasRead(c) /\ writeQueue # <<>> /\ Head(writeQueue) = c /\ writeQueue \in Seq(Calls) /\ IsInjective(writeQueue)
    BY <1>1 DEF ChainFits, Ready
<1>3. seen[c] = {Content(Now(c))}
    BY <1>1, <1>2 DEF HasRead, Now
<1>4. Writes(c)
    BY <1>1, <1>2, TailOfChain DEF ChainFits
<1> QED BY <1>1, <1>3, <1>4 DEF Writes, Now

\* As long as a request has no event to record next, what the others have recorded or will stays so.
LEMMA RecordsStay ==
    ASSUME NEW c \in Calls, plan \in [Calls -> Seq(TaskSet)], NEW tasks, plan' = [plan EXCEPT ![c] = tasks],
           Busy(c), Now(c).do # "log", Events \subseteq Events', NEW row, Recorded(row)
    PROVE  Recorded(row)'
<1>1. \A d \in Calls \ {c} : plan'[d] = plan[d]
    OBVIOUS
<1>2. CASE \E e \in Events : e.comment = row.id
    BY <1>2 DEF Recorded
<1>3. CASE \E d \in Calls : plan[d] # <<>> /\ Head(plan[d]).do = "log" /\ Head(plan[d]).what.comment = row.id
    <2>1. PICK d \in Calls : plan[d] # <<>> /\ Head(plan[d]).do = "log" /\ Head(plan[d]).what.comment = row.id
        BY <1>3
    <2>2. d # c
        BY <2>1 DEF Now
    <2>3. plan'[d] = plan[d]
        BY <1>1, <2>2
    <2> QED BY <2>1, <2>3 DEF Recorded
<1> QED BY <1>2, <1>3 DEF Recorded

\* A write that finds nothing to change, or is refused, ends its request.
LEMMA WriteRejected ==
    ASSUME CommentsInv, NEW c \in Calls, Busy(c), Ready(c), Rejected(c), seen' = [seen EXCEPT ![c] = {}],
           UNCHANGED <<comments, drafts, delivered, history>>, FilesFit',
           \A e \in Events' : e \in Events,
           faults' = 0 => UNCHANGED journal /\ Now(c).do # "log" /\ faults = 0
    PROVE  CommentsInv'
<1>1. ChainFits /\ HistoryFits /\ plan \in [Calls -> Seq(TaskSet)]
    BY DEF CommentsInv, PlansFit
<1>2. ThingsStay
    BY DEF ThingsStay, history
<1>3. HistoryFits'
    BY <1>1, <1>2, HistoryStays DEF HistoryFits
<1>4. DOMAIN seen' = Calls /\ seen'[c] = {} /\ \A d \in Calls \ {c} : seen'[d] = seen[d]
    BY <1>1, SeenChanges
<1>5. plan' = [plan EXCEPT ![c] = <<>>] /\ writeQueue' = Chain
    BY DEF Rejected, Fail
<1>6. ASSUME faults' = 0, NEW row \in comments' PROVE Recorded(row)'
    <2>1. Recorded(row)
        BY <1>6 DEF CommentsInv
    <2>2. Events \subseteq Events'
        BY <1>6 DEF Events
    <2> QED BY <1>1, <1>5, <1>6, <2>1, <2>2, RecordsStay
<1> QED BY <1>2, <1>3, <1>4, <1>5, <1>6, NothingToDo, WriteEnds

\* A write that is done, of whichever file.
LEMMA WriteDone ==
    ASSUME CommentsInv, NEW c \in Calls, Busy(c), Ready(c), Advance(c, Chain), seen' = [seen EXCEPT ![c] = {}],
           UNCHANGED <<delivered, history>>, ThingsStay, FilesFit', Events \subseteq Events',
           \A e \in Events' : e \in Events \/ Announceable(e)',
           NEW job, job = Now(c), job.do = "addComment" => IsStored(job.what.id)',
           job.do = "addDraft" => IsKept(job.what.id)',
           faults' = 0 => faults = 0 /\ (Now(c).do = "log" => \E e \in Events' : e.comment = Now(c).what.comment),
           \A row \in comments' : \/ \E old \in comments : old.id = row.id
                                  \/ Now(c).do = "addComment" /\ row.id = Now(c).what.id
    PROVE  CommentsInv'
<1>7. plan[c] \in Seq(TaskSet) /\ Tail(plan[c]) \in Seq(TaskSet)
    BY TaskAtHead
<1>8. PICK s \in Seq(TaskSet), tail \in Seq(TaskSet) : s = plan[c] /\ tail = Tail(s)
    BY <1>7
<1>1. /\ ChainFits /\ HistoryFits /\ plan \in [Calls -> Seq(TaskSet)] /\ plan[c] \in Seq(TaskSet)
      /\ plan[c] # <<>> /\ PlanFits(s) /\ s # <<>> /\ Head(s) = job /\ TaskFits(plan[c], 1)
      /\ plan[c][1] = Head(plan[c]) /\ Head(plan[c]) = Now(c)
    BY <1>8, TaskAtHead DEF CommentsInv, PlansFit, Now
<1>2. PlanFits(tail)'
    BY <1>1, <1>8, TailFits
<1>3. HistoryFits'
    <2>1. \A e \in delivered' : Announceable(e)
        BY <1>1 DEF HistoryFits, history
    <2>2. \A e \in Events : Announceable(e)
        BY <1>1 DEF HistoryFits
    <2> QED BY <1>1, <2>1, <2>2, HistoryStays
<1>4. DOMAIN seen' = Calls /\ seen'[c] = {} /\ \A d \in Calls \ {c} : seen'[d] = seen[d]
    BY <1>1, SeenChanges
<1>5. /\ plan' = [plan EXCEPT ![c] = tail]
      /\ writeQueue' = IF tail = <<>> \/ Announces(Head(tail)) THEN Chain ELSE Append(Chain, c)
    BY <1>8 DEF Advance, Continue
<1>6. ASSUME faults' = 0, NEW row \in comments' PROVE Recorded(row)'
    <2>1. CASE Now(c).do = "addComment" /\ row.id = Now(c).what.id
        <3>1. /\ 2 \in DOMAIN plan[c] /\ plan[c][2].do = "log" /\ plan[c][2].what.comment = row.id
            BY <1>1, <2>1 DEF TaskFits
        <3>2. tail # <<>> /\ Head(tail) = plan[c][2]
            <4>1. /\ Len(tail) = Len(plan[c]) - 1 /\ Len(plan[c]) \in Nat /\ DOMAIN plan[c] = 1 .. Len(plan[c])
                  /\ \A i \in 1 .. Len(tail) : tail[i] = plan[c][i + 1]
                BY <1>1, <1>8, HeadTailProperties, LenProperties
            <4>2. Len(tail) >= 1 /\ tail[1] = plan[c][2]
                BY <3>1, <4>1
            <4> QED BY <1>1, <4>2, EmptySeq
        <3>3. plan'[c] = tail
            BY <1>1, <1>5
        <3> QED BY <3>1, <3>2, <3>3 DEF Recorded
    <2>2. CASE \E old \in comments : old.id = row.id
        <3>1. PICK old \in comments : old.id = row.id
            BY <2>2
        <3>2. Recorded(old)
            BY <1>6 DEF CommentsInv
        <3>3. Recorded(row)
            BY <3>1, <3>2 DEF Recorded
        <3>4. CASE Now(c).do # "log"
            BY <1>1, <1>5, <3>3, <3>4, RecordsStay
        <3>5. CASE Now(c).do = "log"
            <4>1. CASE \E e \in Events : e.comment = row.id
                BY <4>1 DEF Recorded
            <4>2. CASE \E d \in Calls : plan[d] # <<>> /\ Head(plan[d]).do = "log" /\ Head(plan[d]).what.comment = row.id
                <5>1. PICK d \in Calls : plan[d] # <<>> /\ Head(plan[d]).do = "log" /\ Head(plan[d]).what.comment = row.id
                    BY <4>2
                <5>2. CASE d = c
                    BY <1>6, <3>5, <5>1, <5>2 DEF Recorded, Now
                <5>3. CASE d # c
                    <6>1. plan'[d] = plan[d]
                        BY <1>1, <1>5, <5>3
                    <6> QED BY <5>1, <6>1 DEF Recorded
                <5> QED BY <5>2, <5>3
            <4> QED BY <3>3, <4>1, <4>2 DEF Recorded
        <3> QED BY <3>4, <3>5
    <2> QED BY <2>1, <2>2
<1> QED BY <1>1, <1>2, <1>3, <1>4, <1>5, <1>6, WriteEnds

\* The first task needs nothing before it.
LEMMA FirstTask ==
    ASSUME NEW s \in Seq(TaskSet), TaskFits(s, 1)
    PROVE  /\ s[1].do = "log" /\ s[1].what.type # "thread_read" => IsStored(s[1].what.comment)
           /\ s[1].do = "done" /\ s[1].what \in Rows => IsStored(s[1].what.id)
           /\ s[1].do = "done" /\ s[1].what \in DraftRows => IsKept(s[1].what.id)
           /\ s[1].do = "dropDraft" => s[1].what.id \in discarded \/ IsPublished(s[1].what.id)
<1>1. \A j \in 1 .. 1 - 1 : FALSE
    OBVIOUS
<1>2. \A id : ~AddedBefore(s, 1, id) /\ ~PublishedBefore(s, 1, id) /\ ~DraftedBefore(s, 1, id)
    BY <1>1 DEF AddedBefore, PublishedBefore, DraftedBefore
<1> QED BY <1>2 DEF TaskFits

LEMMA EditedDrafts ==
    ASSUME drafts \subseteq DraftRows, IsFiniteSet(drafts), NEW what \in DraftRows
    PROVE  LET edited == {IF d.id = what.id THEN [d EXCEPT !.text = what.text] ELSE d : d \in drafts}
           IN  edited \subseteq DraftRows /\ IsFiniteSet(edited) /\ \A d \in drafts : \E e \in edited : e.id = d.id
<1> DEFINE Edited(d) == IF d.id = what.id THEN [d EXCEPT !.text = what.text] ELSE d
           edited == {Edited(d) : d \in drafts}
           f == [d \in drafts |-> Edited(d)]
<1>1. \A d \in drafts : Edited(d) \in DraftRows /\ Edited(d).id = d.id
    BY DEF DraftRows
<1>2. f \in Surjection(drafts, edited)
    BY DEF Surjection
<1>3. IsFiniteSet(edited)
    BY <1>2, FS_Surjection
<1> QED BY <1>1, <1>3

LEMMA WriteFileStep == ASSUME CommentsInv, NEW c \in Calls, WriteFile(c) PROVE CommentsInv'
<1>1. /\ Busy(c) /\ Ready(c) /\ seen' = [seen EXCEPT ![c] = {}] /\ torn' = FALSE
      /\ UNCHANGED <<spoiled, stamp, faults, delivered, confirmed, saved, discarded>>
    BY DEF WriteFile, history
<1>2. PICK content \in seen[c], job \in TaskSet :
        /\ job = Now(c) /\ content = Content(job) /\ ~Announces(job)
        /\ IF Missing(job, content)
           THEN Rejected(c) /\ UNCHANGED <<comments, drafts, journal>>
           ELSE /\ Advance(c, Chain)
                /\ comments' = IF job.do \in {"addComment", "editComment"} THEN Replaced(job, content) ELSE comments
                /\ drafts' = IF job.do \in {"addDraft", "editDraft", "dropDraft"} THEN Replaced(job, content) ELSE drafts
                /\ journal' = IF job.do = "log" THEN Replaced(job, content) ELSE journal
    <2>1. PICK content \in seen[c] :
             IF Missing(Now(c), content)
             THEN Rejected(c) /\ UNCHANGED <<comments, drafts, journal>>
             ELSE /\ Advance(c, Chain)
                  /\ comments' = IF Now(c).do \in {"addComment", "editComment"} THEN Replaced(Now(c), content) ELSE comments
                  /\ drafts' = IF Now(c).do \in {"addDraft", "editDraft", "dropDraft"} THEN Replaced(Now(c), content)
                               ELSE drafts
                  /\ journal' = IF Now(c).do = "log" THEN Replaced(Now(c), content) ELSE journal
        BY DEF WriteFile
    <2>2. content = Content(Now(c)) /\ Now(c) \in TaskSet /\ ~Announces(Now(c))
        BY <1>1, WriterFacts
    <2> QED BY <2>1, <2>2
<1>3. /\ PlansFit /\ ChainFits /\ FilesFit /\ HistoryFits /\ plan[c] \in Seq(TaskSet) /\ TaskFits(plan[c], 1)
      /\ plan[c][1] = job
    BY <1>1, <1>2, TaskAtHead DEF Now
<1>4. /\ comments \subseteq Rows /\ drafts \subseteq DraftRows /\ IsFiniteSet(drafts) /\ journal \in Seq(JournalEvents)
      /\ UNCHANGED history
    BY <1>1, <1>3 DEF FilesFit, history
<1>5. ASSUME comments' \subseteq Rows, drafts' \subseteq DraftRows, IsFiniteSet(drafts'), journal' \in Seq(JournalEvents)
      PROVE  FilesFit'
    BY <1>1, <1>3, <1>5 DEF FilesFit
<1>6. CASE Missing(job, content)
    <2>1. Rejected(c) /\ UNCHANGED <<comments, drafts, journal>>
        BY <1>2, <1>6
    <2>2. job.do # "log"
        BY <1>6 DEF Missing
    <2>3. FilesFit'
        BY <1>4, <1>5, <2>1
    <2>4. \A e \in Events' : e \in Events
        BY <2>1 DEF Events
    <2> QED BY <1>1, <1>2, <1>4, <2>1, <2>2, <2>3, <2>4, WriteRejected
<1>7. CASE ~Missing(job, content)
    <2>1. Advance(c, Chain)
        BY <1>2, <1>7
    <2>2. CASE job.do \in {"addComment", "editComment"}
        <3>1. content = comments /\ comments' = Replaced(job, comments) /\ UNCHANGED <<drafts, journal>>
            BY <1>2, <1>7, <2>2 DEF Content
        <3>2. job.what \in Rows
            BY <2>2, TaskFields
        <3>3. /\ comments' \subseteq Rows
              /\ \A row \in comments : \E new \in comments' : new.id = row.id
              /\ \A row \in comments' : \/ \E old \in comments : old.id = row.id
                                        \/ job.do = "addComment" /\ row.id = job.what.id
              /\ job.do = "addComment" => job.what \in comments'
            <4>1. CASE job.do = "addComment"
                <5>1. comments' = comments \cup {job.what}
                    BY <3>1, <4>1 DEF Replaced
                <5> QED BY <1>4, <3>2, <4>1, <5>1
            <4>2. CASE job.do = "editComment"
                <5> DEFINE Edited(row) == IF row.id = job.what.id THEN [row EXCEPT !.text = job.what.text] ELSE row
                <5>1. comments' = {Edited(row) : row \in comments}
                    BY <3>1, <4>2 DEF Replaced
                <5>2. \A row \in comments : Edited(row) \in Rows /\ Edited(row).id = row.id
                    BY <1>4, <3>2 DEF Rows
                <5> HIDE DEF Edited
                <5> QED BY <4>2, <5>1, <5>2
            <4> QED BY <2>2, <4>1, <4>2
        <3>4. ThingsStay
            BY <1>1, <3>1, <3>3 DEF ThingsStay
        <3>5. job.do = "addComment" => IsStored(job.what.id)'
            BY <3>3 DEF IsStored
        <3>6. FilesFit' /\ Events' = Events /\ job.do # "log" /\ job.do # "addDraft"
            BY <1>4, <1>5, <2>2, <3>1, <3>3 DEF Events
        <3> QED BY <1>1, <1>2, <1>4, <2>1, <3>3, <3>4, <3>5, <3>6, WriteDone
    <2>3. CASE job.do \in {"addDraft", "editDraft", "dropDraft"}
        <3>1. content = drafts /\ drafts' = Replaced(job, drafts) /\ UNCHANGED <<comments, journal>>
            BY <1>2, <1>7, <2>3 DEF Content
        <3>2. job.what \in DraftRows
            BY <2>3, TaskFields
        <3>3. /\ drafts' \subseteq DraftRows /\ IsFiniteSet(drafts')
              /\ \A d \in drafts : (\E e \in drafts' : e.id = d.id) \/ IsKept(d.id)'
              /\ job.do = "addDraft" => job.what \in drafts'
            <4>1. CASE job.do = "addDraft"
                <5>1. drafts' = drafts \cup {job.what}
                    BY <3>1, <4>1 DEF Replaced
                <5> QED BY <1>4, <3>2, <4>1, <5>1, FS_AddElement
            <4>2. CASE job.do = "editDraft"
                <5>1. drafts' = {IF d.id = job.what.id THEN [d EXCEPT !.text = job.what.text] ELSE d : d \in drafts}
                    BY <3>1, <4>2 DEF Replaced
                <5> QED BY <1>4, <3>2, <4>2, <5>1, EditedDrafts
            <4>3. CASE job.do = "dropDraft"
                <5>1. drafts' = {d \in drafts : d.id # job.what.id}
                    BY <3>1, <4>3 DEF Replaced
                <5>2. job.what.id \in discarded \/ IsPublished(job.what.id)
                    BY <1>3, <4>3, FirstTask
                <5>3. IsKept(job.what.id)'
                    BY <1>1, <3>1, <5>2 DEF IsKept, IsPublished
                <5>4. IsFiniteSet(drafts')
                    BY <1>4, <5>1, FS_Subset
                <5> QED BY <1>4, <4>3, <5>1, <5>3, <5>4
            <4> QED BY <2>3, <4>1, <4>2, <4>3
        <3>4. ThingsStay
            BY <1>1, <3>1, <3>3 DEF ThingsStay
        <3>5. job.do = "addDraft" => IsKept(job.what.id)'
            BY <3>3 DEF IsKept
        <3>6. FilesFit' /\ Events' = Events /\ job.do # "log" /\ job.do # "addComment"
            BY <1>4, <1>5, <2>3, <3>1, <3>3 DEF Events
        <3>7. \A row \in comments' : \E old \in comments : old.id = row.id
            BY <3>1
        <3> QED BY <1>1, <1>2, <1>4, <2>1, <3>4, <3>5, <3>6, <3>7, WriteDone
    <2>4. CASE job.do = "log"
        <3>1. journal' = Append(journal, job.what) /\ UNCHANGED <<comments, drafts>>
            BY <1>2, <1>7, <2>4 DEF Content, Replaced
        <3>2. job.what \in JournalEvents
            BY <2>4, TaskFields
        <3>3. journal' \in Seq(JournalEvents) /\ Events' = Events \cup {job.what}
            <4>1. /\ journal' \in Seq(JournalEvents) /\ Len(journal') = Len(journal) + 1 /\ Len(journal) \in Nat
                  /\ \A i \in 1 .. Len(journal) : journal'[i] = journal[i]
                  /\ journal'[Len(journal) + 1] = job.what
                  /\ DOMAIN journal = 1 .. Len(journal) /\ DOMAIN journal' = 1 .. Len(journal) + 1
                BY <1>4, <3>1, <3>2, AppendProperties, LenProperties
            <4>2. Len(journal) + 1 \in DOMAIN journal' /\ \A i \in DOMAIN journal' : i \in DOMAIN journal \/ i = Len(journal) + 1
                BY <4>1
            <4>3. Events \subseteq Events' /\ job.what \in Events'
                BY <4>1, <4>2 DEF Events, ToSet
            <4>4. Events' \subseteq Events \cup {job.what}
                BY <4>1, <4>2 DEF Events, ToSet
            <4> QED BY <4>1, <4>3, <4>4
        <3>4. ThingsStay
            BY <1>1, <3>1 DEF ThingsStay
        <3>5. Announceable(job.what)'
            <4>1. job.what.type # "thread_read" => IsStored(job.what.comment)
                BY <1>3, <2>4, FirstTask
            <4> QED BY <3>1, <3>2, <4>1 DEF Announceable, IsStored
        <3>6. FilesFit'
            BY <1>4, <1>5, <3>1, <3>3
        <3>7. \A row \in comments' : \E old \in comments : old.id = row.id
            BY <3>1
        <3>8. \A e \in Events' : e \in Events \/ Announceable(e)'
            BY <3>3, <3>5
        <3>9. Events \subseteq Events' /\ \E e \in Events' : e.comment = Now(c).what.comment
            BY <1>2, <3>3
        <3> QED BY <1>1, <1>2, <1>4, <2>1, <2>4, <3>4, <3>6, <3>7, <3>8, <3>9, WriteDone
    <2>5. job.do \notin {"announce", "done"}
        BY <1>2 DEF Announces
    <2> QED BY <2>2, <2>3, <2>4, <2>5, TaskFields
<1> QED BY <1>6, <1>7

LEMMA ShorterJournal ==
    ASSUME journal \in Seq(JournalEvents), CutShort
    PROVE  journal' \in Seq(JournalEvents) /\ (\A e \in Events' : e \in Events) /\ torn' = FALSE
           /\ (spoiled' \in BOOLEAN \/ UNCHANGED spoiled)
<1>1. CASE torn
    <2>1. PICK n \in 0 .. Len(journal) : journal' = SubSeq(journal, 1, n)
        BY <1>1 DEF CutShort
    <2>2. /\ journal' \in Seq(JournalEvents) /\ Len(journal') = n /\ Len(journal) \in Nat /\ n \in Nat
          /\ \A i \in 1 .. n : journal'[i] = journal[i]
          /\ DOMAIN journal' = 1 .. n /\ DOMAIN journal = 1 .. Len(journal)
        <3>1. Len(journal) \in Nat /\ DOMAIN journal = 1 .. Len(journal) /\ n \in Nat
            BY LenProperties
        <3>2. \A i \in 1 .. n : journal[i] \in JournalEvents
            BY <3>1, ElementOfSeq
        <3>3. journal' = [i \in 1 .. n |-> journal[i]]
            BY <2>1, <3>1
        <3>4. journal' \in [1 .. n -> JournalEvents]
            BY <3>2, <3>3
        <3>5. journal' \in Seq(JournalEvents)
            BY <3>1, <3>4, SeqDef
        <3>6. Len(journal') = n
            BY <3>1, <3>4, <3>5, LenProperties
        <3> QED BY <3>1, <3>3, <3>5, <3>6
    <2>3. \A e \in Events' : e \in Events
        BY <2>2 DEF Events, ToSet
    <2> QED BY <1>1, <2>2, <2>3 DEF CutShort
<1>2. CASE ~torn
    BY <1>2 DEF CutShort, Events
<1> QED BY <1>1, <1>2

LEMMA FailWriteStep == ASSUME CommentsInv, NEW c \in Calls, FailWrite(c) PROVE CommentsInv'
<1>1. /\ Busy(c) /\ Ready(c) /\ faults < MaxFaults /\ faults' = faults + 1 /\ Rejected(c) /\ CutShort
      /\ seen' = [seen EXCEPT ![c] = {}] /\ UNCHANGED <<comments, drafts, stamp, delivered, history>>
    BY DEF FailWrite, history
<1>2. FilesFit
    BY DEF CommentsInv
<1>3. journal' \in Seq(JournalEvents) /\ (\A e \in Events' : e \in Events) /\ torn' = FALSE /\ spoiled' \in BOOLEAN
    BY <1>1, <1>2, ShorterJournal DEF FilesFit
<1>4. faults' \in 0 .. MaxFaults /\ faults' > 0 /\ faults' # 0
    BY <1>1, <1>2, NodeCommentsAssumption DEF FilesFit
<1>5. FilesFit'
    BY <1>1, <1>2, <1>3, <1>4 DEF FilesFit
<1>6. faults' = 0 => UNCHANGED journal /\ Now(c).do # "log" /\ faults = 0
    BY <1>4
<1> QED BY <1>1, <1>3, <1>5, <1>6, WriteRejected

LEMMA LatestIsAnEvent ==
    ASSUME NEW what PROVE LatestActivity(what) \subseteq Events
BY DEF LatestActivity, Events, ToSet

\* A request goes on that writes nothing.
LEMMA AnnounceEnds ==
    ASSUME CommentsInv, NEW c \in Calls, Busy(c), Announces(Now(c)), ThingsStay, UNCHANGED <<files, seen, stamp, faults>>,
           NEW tasks \in Seq(TaskSet), PlanFits(tasks)', plan' = [plan EXCEPT ![c] = tasks],
           writeQueue' = IF tasks = <<>> \/ Announces(Head(tasks)) THEN writeQueue ELSE Append(writeQueue, c),
           HistoryFits'
    PROVE  CommentsInv'
<1>1. PlansFit /\ ChainFits /\ FilesFit /\ DOMAIN plan = Calls /\ plan \in [Calls -> Seq(TaskSet)]
    BY TaskAtHead DEF PlansFit
<1>2. UNCHANGED <<comments, drafts, journal, torn, spoiled, seen, stamp, faults>>
    BY DEF files
<1>3. c \notin ToSet(writeQueue)
    BY <1>1 DEF ChainFits, Writes, Now
<1>4. PlansFit'
    BY <1>1, PlanGoesOn
<1>5. ChainFits'
    BY <1>1, <1>2, <1>3, OtherGoesOn
<1>6. FilesFit'
    BY <1>1, <1>2 DEF FilesFit
<1>7. ASSUME faults' = 0, NEW row \in comments' PROVE Recorded(row)'
    <2>1. Recorded(row) /\ Now(c).do # "log" /\ Events' = Events
        BY <1>2, <1>7 DEF CommentsInv, Announces, Events
    <2> QED BY <1>1, <2>1, RecordsStay
<1> QED BY <1>4, <1>5, <1>6, <1>7 DEF CommentsInv

LEMMA AnnounceStep == ASSUME CommentsInv, NEW c \in Calls, Announce(c) PROVE CommentsInv'
<1>1. Busy(c) /\ Now(c).do = "announce" /\ UNCHANGED <<files, seen, stamp, faults, history>>
    BY DEF Announce, history
<1>2. PICK s \in Seq(TaskSet), tail \in Seq(TaskSet) : s = plan[c] /\ tail = Tail(s)
    BY <1>1, TaskAtHead
<1>3. /\ HistoryFits /\ DOMAIN plan = Calls /\ s # <<>> /\ PlanFits(s) /\ Head(s) = Now(c)
    BY <1>1, <1>2, TaskAtHead DEF Now
<1>4. ThingsStay
    BY <1>1 DEF ThingsStay, files, history
<1>5. PlanFits(tail)'
    BY <1>1, <1>2, <1>3, <1>4, TailFits
<1>6. Announces(Now(c)) /\ UNCHANGED history /\ Events' = Events
    BY <1>1 DEF Announces, files, Events
<1>7. ASSUME delivered' \subseteq delivered \cup Events PROVE HistoryFits'
    <2>1. \A e \in Events' \cup delivered' : Announceable(e)
        BY <1>3, <1>6, <1>7 DEF HistoryFits
    <2> QED BY <1>3, <1>4, <1>6, <2>1, HistoryStays
<1>8. CASE delivered' = delivered \cup (IF torn THEN {} ELSE LatestActivity(Now(c).what)) /\ Advance(c, writeQueue)
    <2>1. delivered' \subseteq delivered \cup Events
        BY <1>8, LatestIsAnEvent
    <2>2. /\ plan' = [plan EXCEPT ![c] = tail]
          /\ writeQueue' = IF tail = <<>> \/ Announces(Head(tail)) THEN writeQueue ELSE Append(writeQueue, c)
        BY <1>2, <1>8 DEF Advance, Continue
    <2>3. HistoryFits'
        BY <1>7, <2>1
    <2> QED BY <1>1, <1>4, <1>5, <1>6, <2>2, <2>3, AnnounceEnds
<1>9. CASE plan' = [plan EXCEPT ![c] = <<>>] /\ UNCHANGED <<delivered, writeQueue>>
    <2>1. HistoryFits'
        BY <1>7, <1>9
    <2> QED BY <1>1, <1>4, <1>6, <1>9, <2>1, NothingToDo, AnnounceEnds
<1> QED BY <1>8, <1>9 DEF Announce

LEMMA DoneStep == ASSUME CommentsInv, NEW c \in Calls, Done(c) PROVE CommentsInv'
<1>1. /\ Busy(c) /\ Now(c).do = "done" /\ UNCHANGED <<files, seen, stamp, faults, delivered, discarded>>
      /\ Advance(c, writeQueue)
      /\ confirmed' = IF "thread" \in DOMAIN Now(c).what THEN confirmed \cup {Now(c).what.id} ELSE confirmed
      /\ saved' = IF "target" \in DOMAIN Now(c).what THEN saved \cup {Now(c).what.id} ELSE saved
    BY DEF Done
<1>2. PICK s \in Seq(TaskSet), tail \in Seq(TaskSet) : s = plan[c] /\ tail = Tail(s)
    BY <1>1, TaskAtHead
<1>3. PICK task \in TaskSet : task = Now(c) /\ task = s[1] /\ task = Head(s)
    BY <1>1, <1>2, TaskAtHead DEF Now
<1>4. /\ HistoryFits /\ DOMAIN plan = Calls /\ s # <<>> /\ PlanFits(s) /\ TaskFits(s, 1)
    BY <1>1, <1>2, TaskAtHead
<1>5. ThingsStay
    BY <1>1 DEF ThingsStay, files
<1>6. PlanFits(tail)'
    BY <1>1, <1>2, <1>3, <1>4, <1>5, TailFits
<1>7. Announces(Now(c)) /\ Events' = Events /\ task.do = "done" /\ task.what \in Rows \cup DraftRows
    BY <1>1, <1>3, TaskFields DEF Announces, files, Events
<1>8. /\ plan' = [plan EXCEPT ![c] = tail]
      /\ writeQueue' = IF tail = <<>> \/ Announces(Head(tail)) THEN writeQueue ELSE Append(writeQueue, c)
    BY <1>1, <1>2 DEF Advance, Continue
<1>9. /\ \A id : IsStored(id) => IsStored(id)'
      /\ \A d : IsKept(d) => IsKept(d)'
    BY <1>5, StoredStays
<1>10. confirmed' \subseteq CommentIds /\ \A id \in confirmed' : IsStored(id)'
    <2>1. CASE task.what \in Rows
        <3>1. IsStored(task.what.id) /\ task.what.id \in CommentIds
            BY <1>3, <1>4, <1>7, <2>1, FirstTask DEF Rows
        <3> QED BY <1>1, <1>3, <1>4, <1>9, <3>1 DEF HistoryFits
    <2>2. CASE task.what \in DraftRows
        <3>1. confirmed' = confirmed
            BY <1>1, <1>3, <2>2, RowsAndDrafts
        <3> QED BY <1>4, <1>9, <3>1 DEF HistoryFits
    <2> QED BY <1>7, <2>1, <2>2
<1>11. saved' \subseteq Ids /\ \A d \in saved' : IsKept(d)'
    <2>1. CASE task.what \in Rows
        <3>1. saved' = saved
            BY <1>1, <1>3, <2>1, RowsAndDrafts
        <3> QED BY <1>4, <1>9, <3>1 DEF HistoryFits
    <2>2. CASE task.what \in DraftRows
        <3>1. IsKept(task.what.id) /\ task.what.id \in Ids
            BY <1>3, <1>4, <1>7, <2>2, FirstTask DEF DraftRows
        <3> QED BY <1>1, <1>3, <1>4, <1>9, <3>1 DEF HistoryFits
    <2> QED BY <1>7, <2>1, <2>2
<1>12. HistoryFits'
    <2>1. \A e \in Events \cup delivered : Announceable(e)'
        BY <1>4, <1>9 DEF HistoryFits, Announceable
    <2> QED BY <1>1, <1>4, <1>7, <1>10, <1>11, <2>1 DEF HistoryFits
<1> QED BY <1>1, <1>5, <1>6, <1>7, <1>8, <1>12, AnnounceEnds

LEMMA CrashStep == ASSUME CommentsInv, Crash PROVE CommentsInv'
<1>1. /\ faults < MaxFaults /\ faults' = faults + 1 /\ plan' = [c \in Calls |-> <<>>] /\ writeQueue' = <<>>
      /\ seen' = [c \in Calls |-> {}] /\ CutShort /\ UNCHANGED <<comments, drafts, stamp, delivered, history>>
    BY DEF Crash, history
<1>2. FilesFit /\ HistoryFits
    BY DEF CommentsInv
<1>3. journal' \in Seq(JournalEvents) /\ (\A e \in Events' : e \in Events) /\ torn' = FALSE /\ spoiled' \in BOOLEAN
    BY <1>1, <1>2, ShorterJournal DEF FilesFit
<1>4. faults' \in 0 .. MaxFaults /\ faults' > 0 /\ faults' # 0
    BY <1>1, <1>2, NodeCommentsAssumption DEF FilesFit
<1>5. FilesFit'
    BY <1>1, <1>2, <1>3, <1>4 DEF FilesFit
<1>6. ThingsStay
    BY <1>1 DEF ThingsStay, history
<1>7. HistoryFits'
    BY <1>1, <1>2, <1>3, <1>6, HistoryStays DEF HistoryFits
<1>8. PlansFit'
    <2>1. \A s \in Seq(TaskSet) : s = <<>> => PlanFits(s)'
        BY NothingToDo
    <2> QED BY <1>1, <2>1, NothingToDo DEF PlansFit
<1>9. ChainFits'
    <2>1. <<>> \in Seq(Calls) /\ DOMAIN <<>> = {} /\ IsInjective(<<>>) /\ ToSet(<<>>) = {}
        BY EmptySeq DEF IsInjective, ToSet
    <2>2. \A c \in Calls : ~Writes(c)'
        BY <1>1 DEF Writes
    <2>3. \A c \in Calls : HasRead(c)'
        BY <1>1 DEF HasRead
    <2> QED BY <1>1, <2>1, <2>2, <2>3 DEF ChainFits
<1> QED BY <1>4, <1>5, <1>7, <1>8, <1>9 DEF CommentsInv

-----------------------------------------------------------------------------

LEMMA CommentsStart == Init => CommentsInv
<1> SUFFICES ASSUME Init PROVE CommentsInv
    OBVIOUS
<1> DEFINE row == Row(<<1, 0>>, Root(1), 1)
           event == [type |-> "thread_created", thread |-> Root(1), comment |-> <<1, 0>>]
<1>1. {0, 1, 2, 3} \subseteq Ids /\ Ids \subseteq Nat
    BY IdsAreNumbers
<1>2. {Root(1), None, DraftThread(2)} \subseteq ThreadIds /\ <<1, 0>> \in CommentIds
    BY <1>1 DEF ThreadIds, Root, None, DraftThread, CommentIds
<1>3. row \in Rows /\ row.id = <<1, 0>> /\ event \in JournalEvents /\ event.comment = <<1, 0>>
    BY <1>1, <1>2 DEF Rows, Row, JournalEvents, EventTypes
<1>4. /\ comments = {row} /\ journal = <<event>> /\ torn = FALSE /\ spoiled = FALSE /\ writeQueue = <<>>
      /\ seen = [c \in Calls |-> {}] /\ plan = [c \in Calls |-> <<>>] /\ stamp = 3 /\ faults = 0 /\ delivered = {}
      /\ confirmed = {<<1, 0>>} /\ discarded = {}
    BY DEF Init
<1>5. drafts \in SUBSET {Draft(2, None), Draft(3, DraftThread(2)), Draft(3, Root(1))} /\ saved = {d.id : d \in drafts}
    BY DEF Init
<1>6. {Draft(2, None), Draft(3, DraftThread(2)), Draft(3, Root(1))} \subseteq DraftRows
    BY <1>1, <1>2 DEF Draft, DraftRows
<1>7. IsFiniteSet(drafts)
    <2>1. {Draft(2, None), Draft(3, DraftThread(2)), Draft(3, Root(1))}
             = (({} \cup {Draft(2, None)}) \cup {Draft(3, DraftThread(2))}) \cup {Draft(3, Root(1))}
        OBVIOUS
    <2>2. IsFiniteSet((({} \cup {Draft(2, None)}) \cup {Draft(3, DraftThread(2))}) \cup {Draft(3, Root(1))})
        BY FS_EmptySet, FS_AddElement
    <2> QED BY <1>5, <2>1, <2>2, FS_Subset
<1> HIDE DEF row, event
<1>8. Events = {event} /\ journal \in Seq(JournalEvents)
    BY <1>3, <1>4 DEF Events, ToSet
<1>9. FilesFit
    <2>1. comments \subseteq Rows /\ drafts \subseteq DraftRows
        BY <1>3, <1>4, <1>5, <1>6
    <2>2. stamp \in Ids /\ faults \in 0 .. MaxFaults
        BY <1>1, <1>4, NodeCommentsAssumption
    <2> QED BY <1>4, <1>7, <1>8, <2>1, <2>2 DEF FilesFit
<1>10. IsStored(<<1, 0>>)
    BY <1>3, <1>4 DEF IsStored
<1>11. HistoryFits
    <2>1. \A d \in drafts : IsKept(d.id) /\ d.id \in Ids
        BY <1>5, <1>6 DEF IsKept, DraftRows
    <2>2. Announceable(event)
        BY <1>3, <1>10 DEF Announceable
    <2> QED BY <1>2, <1>4, <1>5, <1>8, <1>10, <2>1, <2>2 DEF HistoryFits
<1>12. PlansFit
    BY <1>4, NothingToDo DEF PlansFit
<1>13. ChainFits
    <2>1. <<>> \in Seq(Calls) /\ DOMAIN <<>> = {} /\ IsInjective(<<>>) /\ ToSet(<<>>) = {}
        BY EmptySeq DEF IsInjective, ToSet
    <2>2. \A c \in Calls : ~Writes(c)
        BY <1>4 DEF Writes
    <2>3. \A c \in Calls : HasRead(c)
        BY <1>4 DEF HasRead
    <2> QED BY <1>4, <2>1, <2>2, <2>3 DEF ChainFits
<1>14. \A r \in comments : Recorded(r)
    BY <1>3, <1>4, <1>8 DEF Recorded
<1> QED BY <1>9, <1>11, <1>12, <1>13, <1>14 DEF CommentsInv

LEMMA CommentsStutter == CommentsInv /\ UNCHANGED vars => CommentsInv'
<1> SUFFICES ASSUME CommentsInv, UNCHANGED vars PROVE CommentsInv'
    OBVIOUS
<1>1. UNCHANGED <<comments, drafts, journal, torn, spoiled, writeQueue, seen, plan, stamp, faults, delivered, confirmed,
                  saved, discarded>>
    BY DEF vars, files, history
<1>2. PlansFit /\ ChainFits /\ FilesFit /\ HistoryFits
    BY DEF CommentsInv
<1>3. ThingsStay
    BY <1>1 DEF ThingsStay
<1>4. PlansFit'
    <2>1. \A s \in Seq(TaskSet) : PlanFits(s) => PlanFits(s)'
        BY <1>3, FitStays
    <2> QED BY <1>1, <1>2, <2>1 DEF PlansFit
<1>5. ChainFits'
    BY <1>1, <1>2 DEF ChainFits, HasRead, Writes, Ready, Content
<1>6. FilesFit'
    BY <1>1, <1>2 DEF FilesFit
<1>7. HistoryFits'
    BY <1>1, <1>2, <1>3, HistoryStays DEF HistoryFits, Events, history
<1>8. faults' = 0 => \A row \in comments' : Recorded(row)'
    BY <1>1 DEF CommentsInv, Recorded, Events
<1> QED BY <1>4, <1>5, <1>6, <1>7, <1>8 DEF CommentsInv

LEMMA CommentsStep == CommentsInv /\ Next => CommentsInv'
<1>1. ASSUME CommentsInv, NEW c \in Calls, Step(c) \/ FailWrite(c) PROVE CommentsInv'
    BY <1>1, ReadFileStep, WriteFileStep, AnnounceStep, DoneStep, FailWriteStep DEF Step
<1>2. ASSUME CommentsInv, NEW c \in Calls,
             \/ CreateThread(c)
             \/ \E t \in Threads : AddComment(c, t) \/ ReadThread(c, t)
             \/ \E row \in comments : UpdateComment(c, row)
      PROVE  CommentsInv'
    BY <1>2, CreateThreadStep, AddCommentStep, ReadThreadStep, UpdateCommentStep
<1>3. ASSUME CommentsInv, NEW c \in Calls,
             \/ \E t \in Targets : SaveDraft(c, t)
             \/ \E d \in drafts : EditDraft(c, d) \/ DeleteDraft(c, d)
             \/ \E selected \in SUBSET drafts : PublishDrafts(c, selected)
      PROVE  CommentsInv'
    BY <1>3, SaveDraftStep, EditDraftStep, DeleteDraftStep, PublishDraftsStep
<1> QED BY <1>1, <1>2, <1>3, CrashStep DEF Next

-----------------------------------------------------------------------------

\* What the Node server has confirmed stays stored, whatever requests, refused writes and crashes
\* there are: comments, and drafts until they are discarded or published; subscribers are told of
\* comments that exist; and without a failure the journal has every comment once no request is
\* left (node-comment-store.ts, viewer-service.ts).
THEOREM CommentsStayKept == MCSpec => []CommentsAreKept
<1>1. MCInit => CommentsInv
    BY CommentsStart DEF MCInit
<1>2. CommentsInv /\ [MCNext]_runtimeVars => CommentsInv'
    <2>1. [MCNext]_runtimeVars => Next \/ UNCHANGED vars
        BY DEF MCNext, runtimeVars
    <2> QED BY <2>1, CommentsStep, CommentsStutter
<1>3. CommentsInv => CommentsAreKept
    BY CommentsInvImplies
<1> QED BY <1>1, <1>2, <1>3, PTL DEF MCSpec

=============================================================================
