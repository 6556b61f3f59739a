------------------------------ MODULE NodeServer ------------------------------
(***************************************************************************)
(* The life of the Node server: cli/typescript/main.ts starts it and shuts it   *)
(* down, http/http-server.ts keeps its connections, and the service              *)
(* (application/viewer-service.ts) the listeners of its event streams.             *)
(*                                                                         *)
(* Shutting down waits for the watcher, for git and for the connections, each of *)
(* which may hang; a grace period and a deadline bound the waiting, and a second *)
(* signal does not wait at all.                                              *)
(***************************************************************************)
EXTENDS Naturals, FiniteSets

CONSTANTS Clients,      \* connections
          Signals,      \* SIGINT and SIGTERM
          MaxEvents     \* bound: events of the watcher

ASSUME ServerAssumption == MaxEvents \in Nat /\ "none" \notin Signals

VARIABLES
    stage,      \* where the process is
    closing,    \* the signal that is being obeyed
    deadline,   \* closeWithDeadline's timer: unset, running or over
    grace,      \* closeServerWithGrace's
    sockets,    \* each connection: none, open, asking (a request is served), streaming, destroyed
    subscribers,\* connections whose listener the service has
    happened,   \* events of the watcher
    told,       \* the events each stream was sent
    openedAt,      \* how many there were when it began
    exit        \* the exit code, by what caused it

serverVars == <<stage, closing, deadline, grace, sockets, subscribers, happened, told, openedAt, exit>>

NoSignal == "none"
Stages == {"starting", "opening", "serving", "watcher", "git", "server", "closed", "exited"}
Accepts == stage \in {"serving", "watcher", "git"}

ServerTypeOK ==
    /\ stage \in Stages /\ closing \in Signals \cup {NoSignal} /\ deadline \in {"unset", "running", "over"}
    /\ grace \in {"unset", "running", "over"} /\ subscribers \subseteq Clients /\ happened \in 0 .. MaxEvents
    /\ (exit = "none") = (stage # "exited")
    /\ stage \in {"server", "closed"} => \A c \in Clients : sockets[c] \in {"none", "destroyed"}

ServerInit ==
    /\ stage = "starting" /\ closing = NoSignal /\ deadline = "unset" /\ grace = "unset"
    /\ sockets = [c \in Clients |-> "none"] /\ subscribers = {} /\ happened = 0
    /\ told = [c \in Clients |-> {}] /\ openedAt = [c \in Clients |-> 0] /\ exit = "none"

Connections == <<sockets, subscribers, told, openedAt>>
Timers == <<deadline, grace>>

Exit(code) == stage' = "exited" /\ exit' = code

\* startHttpServer: the watcher is started first, then the port is opened; an error of either
\* ends the program, and so does a signal, which nobody handles yet.
Start ==
    /\ stage \in {"starting", "opening"}
    /\ \/ stage' = (IF stage = "starting" THEN "opening" ELSE "serving") /\ UNCHANGED exit
       \/ Exit("error")
       \/ \E s \in Signals : Exit(s)
    /\ UNCHANGED <<closing, Timers, Connections, happened>>

Connect(c) ==
    /\ Accepts /\ sockets[c] = "none" /\ sockets' = [sockets EXCEPT ![c] = "open"]
    /\ UNCHANGED <<stage, closing, Timers, subscribers, happened, told, openedAt, exit>>

\* A request is answered after a while, or the server goes first.
Ask(c) ==
    /\ Accepts /\ sockets[c] \in {"open", "asking"}
    /\ sockets' = [sockets EXCEPT ![c] = IF @ = "open" THEN "asking" ELSE "open"]
    /\ UNCHANGED <<stage, closing, Timers, subscribers, happened, told, openedAt, exit>>

\* streamGraphqlWorkspaceEvents: the listener hears what happens from now on.
Stream(c) ==
    /\ Accepts /\ sockets[c] = "open" /\ sockets' = [sockets EXCEPT ![c] = "streaming"]
    /\ subscribers' = subscribers \cup {c}
    /\ openedAt' = [openedAt EXCEPT ![c] = happened] /\ told' = [told EXCEPT ![c] = {}]
    /\ UNCHANGED <<stage, closing, Timers, happened, exit>>

\* (The fault of a listener that outlives its connection.)
ForgetNobody(c) == UNCHANGED subscribers

Unsubscribe(c) == subscribers' = subscribers \ {c}

Disconnect(c) ==
    /\ stage # "exited" /\ sockets[c] \in {"open", "asking", "streaming", "destroyed"}
    /\ sockets' = [sockets EXCEPT ![c] = "none"] /\ Unsubscribe(c)
    /\ UNCHANGED <<stage, closing, Timers, happened, told, openedAt, exit>>

\* The service passes an event of the watcher to every listener, until both are stopped.
WatcherEvent ==
    /\ stage \in {"opening", "serving", "watcher", "git"} /\ happened < MaxEvents /\ happened' = happened + 1
    /\ told' = [c \in Clients |-> IF c \in subscribers THEN told[c] \cup {happened'} ELSE told[c]]
    /\ UNCHANGED <<stage, closing, Timers, sockets, subscribers, openedAt, exit>>

\* (The fault of a shutdown that only waits.)
CloseWithoutDeadline == deadline' = "unset"

CloseWithDeadline == deadline' = "running"

\* installShutdownHandlers: the first signal begins to close the server; another one ends the
\* process, whatever is still waited for.
Signal(s) ==
    /\ stage \notin {"starting", "opening", "exited"}
    /\ IF closing = NoSignal
       THEN stage' = "watcher" /\ closing' = s /\ CloseWithDeadline /\ UNCHANGED exit
       ELSE Exit(s) /\ UNCHANGED <<closing, deadline>>
    /\ UNCHANGED <<grace, Connections, happened>>

\* (The fault of waiting for connections that nobody ends.)
LeaveSockets == sockets

DestroySockets == [c \in Clients |-> IF sockets[c] = "none" THEN "none" ELSE "destroyed"]

\* ViewerService.stop waits for the watcher, then for git, and forgets its listeners; then the
\* sockets are destroyed and the server is closed.
StopStep ==
    /\ \/ stage = "watcher" /\ stage' = "git" /\ UNCHANGED <<grace, sockets, subscribers>>
       \/ /\ stage = "git" /\ stage' = "server" /\ subscribers' = {}
          /\ sockets' = DestroySockets /\ grace' = "running"
       \/ /\ stage = "server" /\ (grace = "over" \/ \A c \in Clients : sockets[c] = "none")
          /\ stage' = "closed" /\ UNCHANGED <<grace, sockets, subscribers>>
    /\ UNCHANGED <<closing, deadline, happened, told, openedAt, exit>>

\* Stopping the watcher, or the server's close, fails: the shutdown goes on to its end.
StopFails ==
    /\ stage \in {"watcher", "git", "server"} /\ deadline = "running" /\ Exit("error")
    /\ UNCHANGED <<closing, Timers, Connections, happened>>

TimerFires ==
    /\ stage # "exited"
    /\ \/ deadline = "running" /\ deadline' = "over" /\ UNCHANGED grace
       \/ grace = "running" /\ grace' = "over" /\ UNCHANGED deadline
    /\ UNCHANGED <<stage, closing, Connections, happened, exit>>

\* Closed, or the deadline is over: the handlers are removed and the process ends.
ExitAfterClose ==
    /\ closing # NoSignal /\ stage # "exited" /\ (stage = "closed" \/ deadline = "over") /\ Exit(closing)
    /\ UNCHANGED <<closing, Timers, Connections, happened>>

ServerNext ==
    \/ Start \/ WatcherEvent \/ StopStep \/ StopFails \/ TimerFires \/ ExitAfterClose
    \/ \E c \in Clients : Connect(c) \/ Ask(c) \/ Stream(c) \/ Disconnect(c)
    \/ \E s \in Signals : Signal(s)

\* Timers fire and callbacks run.  What is waited for may hang: no fairness is asked of StopStep.
ServerFairness == WF_serverVars(TimerFires) /\ WF_serverVars(ExitAfterClose)

-----------------------------------------------------------------------------
(* Properties *)

\* Every listener is an open stream, and was sent everything that happened since it was opened, also
\* while the server is being stopped.
StreamsMissNothing == \A c \in subscribers : sockets[c] = "streaming" /\ told[c] = openedAt[c] + 1 .. happened

\* After a signal the process ends, although anything it waits for may hang.
ShutdownEnds == closing # NoSignal ~> stage = "exited"
=============================================================================
