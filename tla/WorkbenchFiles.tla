--------------------------- MODULE WorkbenchFiles ---------------------------
(***************************************************************************)
(* The files the browser shows (ui/src/features/workbench/                   *)
(* WorkbenchContainer.tsx): tabs and panes, the cache of contents, the loads  *)
(* and live refreshes in flight, and the stream of file events that keeps    *)
(* what is shown up to date.  The server's disk is the other side.           *)
(*                                                                         *)
(* First come the operators on tabs and panes (ui/src/state/tabs.ts,         *)
(* editor-layout.ts, workspace-session.ts).  The tree of splits is kept as   *)
(* the sequence of its panes, from the first to the last: that order is all  *)
(* of it that any decision depends on.                                       *)
(*   tab     [path, pane, preview, changed, removed]                         *)
(*   layout  [panes : sequence of [id, active], focus, next]                 *)
(* The pane "main" is 0 and "pane-n" is n.                                   *)
(*                                                                         *)
(* A content is the number of the write that made it, 0 for a file that is   *)
(* not there.  A load reads the disk at one moment (Serve) and is answered   *)
(* at a later one.                                                           *)
(***************************************************************************)
EXTENDS Integers, Sequences, FiniteSets, SequencesExt

CONSTANT NoPath     \* where no file is shown

Tab(path, pane, preview) ==
    [path |-> path, pane |-> pane, preview |-> preview, changed |-> FALSE, removed |-> FALSE]

InitialLayout == [panes |-> <<[id |-> 0, active |-> NoPath]>>, focus |-> 0, next |-> 1]

Is(tab, path, pane) == tab.path = path /\ tab.pane = pane

\* Those of a sequence that are wanted, in their order (Array.filter).
Among(seq, wanted) ==
    LET upTo[n \in 0..Len(seq)] ==
            IF n = 0 THEN <<>> ELSE IF seq[n] \in wanted THEN Append(upTo[n - 1], seq[n]) ELSE upTo[n - 1]
    IN  upTo[Len(seq)]
Without(seq, unwanted) == Among(seq, ToSet(seq) \ unwanted)

In(tabs, pane) == {tab \in ToSet(tabs) : tab.pane = pane}
InPane(tabs, pane) == Among(tabs, In(tabs, pane))
Paths(tabs) == {tabs[i].path : i \in DOMAIN tabs}
FirstPath(tabs) == IF tabs = <<>> THEN NoPath ELSE tabs[1].path
MapTabs(tabs, Op(_)) == [i \in DOMAIN tabs |-> Op(tabs[i])]
First(tabs, Test(_)) == SelectInSeq(tabs, Test)

-----------------------------------------------------------------------------
(* Tabs *)

UpsertOpenTab(tabs, path, pane, mode) ==
    LET Fresh(tab) ==
            IF ~Is(tab, path, pane) THEN tab
            ELSE [tab EXCEPT !.changed = FALSE, !.removed = FALSE,
                             !.preview = mode # "normal" /\ tab.preview]
        previous == First(tabs, LAMBDA tab : tab.pane = pane /\ tab.preview)
        opened == Tab(path, pane, mode = "preview")
    IN  IF \E i \in DOMAIN tabs : Is(tabs[i], path, pane) THEN MapTabs(tabs, Fresh)
        ELSE IF mode = "preview" /\ previous # 0 THEN [tabs EXCEPT ![previous] = opened]
        ELSE Append(tabs, opened)

PromoteOpenTab(tabs, path, pane) ==
    MapTabs(tabs, LAMBDA tab : IF Is(tab, path, pane) THEN [tab EXCEPT !.preview = FALSE] ELSE tab)

\* The marks of every tab of a file: changed, removed, loaded.
MarkTab(tabs, path, changed, removed) ==
    MapTabs(tabs, LAMBDA tab :
        IF tab.path = path THEN [tab EXCEPT !.changed = changed, !.removed = removed] ELSE tab)
MarkTabChanged(tabs, path) == MarkTab(tabs, path, TRUE, FALSE)
MarkTabRemoved(tabs, path) == MarkTab(tabs, path, FALSE, TRUE)
MarkTabLoaded(tabs, path) == MarkTab(tabs, path, FALSE, FALSE)

\* What is left of the tabs and which file is shown next.
Left(tabs, active) == [tabs |-> tabs, active |-> active]

CloseOpenTab(tabs, path, active, pane) ==
    LET index == First(InPane(tabs, pane), LAMBDA tab : tab.path = path)
        rest == Without(tabs, {tab \in ToSet(tabs) : Is(tab, path, pane)})
        own == InPane(rest, pane)
        before == IF index <= 1 THEN 1 ELSE index - 1
    IN  IF path # active THEN Left(rest, active)
        ELSE Left(rest, IF before \in DOMAIN own THEN own[before].path ELSE FirstPath(own))

CloseOtherOpenTabs(tabs, active, pane) ==
    IF active = NoPath THEN Left(tabs, active)
    ELSE Left(Without(tabs, {tab \in In(tabs, pane) : tab.path # active}), active)

CloseTabsToRight(tabs, active, pane) ==
    LET own == InPane(tabs, pane)
        index == First(own, LAMBDA tab : tab.path = active)
        closing == Paths(SubSeq(own, index + 1, Len(own)))
    IN  IF active = NoPath \/ index = 0 THEN Left(tabs, active)
        ELSE Left(Without(tabs, {tab \in In(tabs, pane) : tab.path \in closing}), active)

CloseTabsBy(tabs, active, pane, closing) ==
    LET rest == Without(tabs, closing)
    IN  IF active = NoPath \/ active \in Paths(InPane(rest, pane)) THEN Left(rest, active)
        ELSE Left(rest, FirstPath(InPane(rest, pane)))
CloseUnchangedTabs(tabs, active, pane) ==
    CloseTabsBy(tabs, active, pane, {tab \in In(tabs, pane) : ~tab.changed})
ClosePreviewTabs(tabs, active, pane) ==
    CloseTabsBy(tabs, active, pane, {tab \in In(tabs, pane) : tab.preview})

\* The fault of leaving the other preview.
MoveBeside(tabs, path, from, to, before) ==
    MapTabs(tabs, LAMBDA tab : IF Is(tab, path, from) THEN [tab EXCEPT !.pane = to] ELSE tab)

\* A preview that is moved takes the place of the preview that is there.
MoveOpenTab(tabs, path, from, to, before) ==
    LET found == First(tabs, LAMBDA tab : Is(tab, path, from))
        moved == [tabs[found] EXCEPT !.pane = to]
        others == Without(tabs, {tab \in ToSet(tabs) : Is(tab, path, from)})
        rest == IF moved.preview THEN Without(others, {tab \in In(others, to) : tab.preview})
                ELSE others
        index == First(rest, LAMBDA tab : Is(tab, before, to))
    IN  IF found = 0 THEN tabs
        ELSE IF before = NoPath \/ index = 0 THEN Append(rest, moved)
        ELSE InsertAt(rest, index, moved)

-----------------------------------------------------------------------------
(* Panes *)

PaneIds(layout) == {layout.panes[i].id : i \in DOMAIN layout.panes}
PaneAt(layout, id) == First(layout.panes, LAMBDA pane : pane.id = id)
ActivePaths(layout) == {layout.panes[i].active : i \in DOMAIN layout.panes} \ {NoPath}

\* The pane shown as the active one: the first, if the one in focus is gone.
ActivePane(layout) ==
    layout.panes[IF layout.focus \in PaneIds(layout) THEN PaneAt(layout, layout.focus) ELSE 1]
SelectedPath(layout) == ActivePane(layout).active
ActiveIn(layout, id) ==
    IF id \in PaneIds(layout) THEN layout.panes[PaneAt(layout, id)].active ELSE NoPath

SetPaneActivePath(layout, id, path) ==
    [layout EXCEPT !.focus = id,
                   !.panes = [i \in DOMAIN @ |-> IF @[i].id = id THEN [@[i] EXCEPT !.active = path]
                                                 ELSE @[i]]]

\* The new pane is put before or after the pane that is split, and shows its file.
SplitEditorPane(layout, id, placement) ==
    LET at == PaneAt(layout, id)
        new == [id |-> layout.next, active |-> layout.panes[at].active]
    IN  IF at = 0 THEN layout
        ELSE [panes |-> InsertAt(layout.panes, IF placement = "before" THEN at ELSE at + 1, new),
              focus |-> new.id, next |-> layout.next + 1]

ClosePaneIfEmpty(layout, id, hasTabs) ==
    LET rest == Without(layout.panes, {pane \in ToSet(layout.panes) : pane.id = id})
    IN  IF hasTabs \/ Len(layout.panes) <= 1 \/ rest = <<>> THEN layout
        ELSE [layout EXCEPT !.panes = rest, !.focus = rest[1].id]

-----------------------------------------------------------------------------
(* The session that is kept for the next visit *)

\* Previews are not kept, nor the marks of a tab.
BuildWorkspaceSession(tabs, layout) ==
    LET kept == Without(tabs, {tab \in ToSet(tabs) : tab.preview})
    IN  [tabs |-> MapTabs(kept, LAMBDA tab : Tab(tab.path, tab.pane, FALSE)),
         layout |-> IF kept # <<>> THEN layout ELSE InitialLayout]

\* The fault of a pane that still shows its preview.
SameSanitizePane(pane, tabs) == pane

\* Panes without tabs are dropped, and a pane shows one of its tabs.
SanitizePane(pane, tabs) ==
    LET own == InPane(tabs, pane.id)
    IN  IF pane.active \in Paths(own) THEN pane ELSE [pane EXCEPT !.active = FirstPath(own)]

LayoutFromTabs(tabs) ==
    [panes |-> <<[id |-> tabs[1].pane, active |-> tabs[1].path]>>, focus |-> tabs[1].pane, next |-> 1]

NextPaneNumberFor(panes) == Max({1} \cup {pane.id + 1 : pane \in ToSet(panes)})

SanitizeLayout(layout, tabs) ==
    LET kept == Without(layout.panes, {pane \in ToSet(layout.panes) : InPane(tabs, pane.id) = <<>>})
        panes == [i \in DOMAIN kept |-> SanitizePane(kept[i], tabs)]
        least == NextPaneNumberFor(panes)
    IN  IF tabs = <<>> THEN InitialLayout
        ELSE IF panes = <<>> THEN LayoutFromTabs(tabs)
        ELSE [panes |-> panes,
              focus |-> IF \E i \in DOMAIN panes : panes[i].id = layout.focus THEN layout.focus
                        ELSE panes[1].id,
              next |-> IF layout.next > least THEN layout.next ELSE least]

RestoreWorkspaceSession(stored) ==
    [tabs |-> stored.tabs, layout |-> SanitizeLayout(stored.layout, stored.tabs)]

\* The user may have only the tab restored that was shown last.
RestoreOnlyActiveWorkspaceTab(session) ==
    LET pane == ActivePane(session.layout)
    IN  IF \E i \in DOMAIN session.tabs : Is(session.tabs[i], pane.active, pane.id)
        THEN [tabs |-> <<Tab(pane.active, 0, FALSE)>>,
              layout |-> SetPaneActivePath(InitialLayout, 0, pane.active)]
        ELSE [tabs |-> <<>>, layout |-> InitialLayout]

-----------------------------------------------------------------------------
(* The files of the page *)

CONSTANTS Files,        \* the paths of the workspace
          MaxPanes,     \* bound: panes ever made
          MaxLoads,     \* bound: loads in flight
          MaxEvents     \* bound: events on their way to the browser

VARIABLES
    disk,       \* what each file contains
    clock,      \* writes so far
    events,     \* file events on their way
    connected,  \* the event stream is up
    budget,     \* how often the user acts, a file changes, the stream breaks, from here on
    tabs, layout,
    cache,      \* files: the contents the browser has
    loads,      \* calls of loadFile in flight
    versions,   \* fileLoadVersions: the latest load of each path in flight, 0 for none
    timers,     \* paths that are about to be refreshed live
    live,       \* live refreshes in flight
    hydration,  \* fetches of a restored session, which are applied together
    requests,   \* liveFileRefreshVersions
    missing, present,   \* paths known to be there, or not to be
    unheard,    \* history: files that changed while the stream was down
    strays      \* history: files whose copy was left behind by a change that is not followed up

disks == <<disk, clock, events, connected, unheard>>
shown == <<tabs, layout>>
contents == <<cache, missing, present>>
pending == <<loads, versions, timers, live, hydration, requests>>
vars == <<disks, budget, shown, contents, pending, strays>>

Unread == -1
None == -1
Modes == {"normal", "preview", "preserve"}
Active == ActivePaths(layout)

TypeOK ==
    /\ disk \in [Files -> Nat] /\ connected \in BOOLEAN
    /\ tabs \in Seq([path : Files, pane : Nat, preview : BOOLEAN, changed : BOOLEAN, removed : BOOLEAN])
    /\ layout.panes \in Seq([id : Nat, active : Files \cup {NoPath}]) /\ layout.panes # <<>>
    /\ cache \in [Files -> Nat \cup {None}]
    /\ versions \in [Files -> Nat] /\ requests \in [Files -> Nat]
    /\ timers \subseteq Files /\ missing \subseteq Files /\ present \subseteq Files
    /\ missing \cap present = {}
    /\ \A p \in Files : versions[p] > 0 <=> \E i \in DOMAIN loads : loads[i].path = p

Init ==
    /\ disk = [p \in Files |-> 1] /\ clock = 1 /\ events = <<>> /\ connected = TRUE
    /\ tabs = <<>> /\ layout = InitialLayout
    /\ cache = [p \in Files |-> None]
    /\ loads = <<>> /\ versions = [p \in Files |-> 0]
    /\ timers = {} /\ live = {} /\ hydration = {} /\ requests = [p \in Files |-> 0]
    /\ missing = {} /\ present = {} /\ strays = {} /\ unheard = {}

InFlight(p) == {i \in DOMAIN loads : loads[i].path = p}
Spend(what) == budget[what] > 0 /\ budget' = [budget EXCEPT ![what] = @ - 1]

-----------------------------------------------------------------------------
(* The disk and the stream of events *)

Announce(event) ==
    IF connected THEN events' = Append(events, event) /\ UNCHANGED <<strays, unheard>>
    ELSE /\ strays' = strays \cup {event.path} /\ unheard' = unheard \cup {event.path}
         /\ UNCHANGED events

Write(p) ==
    /\ Spend("writes") /\ Len(events) < MaxEvents
    /\ clock' = clock + 1 /\ disk' = [disk EXCEPT ![p] = clock']
    /\ Announce([type |-> IF disk[p] = 0 THEN "add" ELSE "change", path |-> p])
    /\ UNCHANGED <<connected, shown, contents, pending>>

Delete(p) ==
    /\ Spend("writes") /\ disk[p] # 0 /\ Len(events) < MaxEvents
    /\ disk' = [disk EXCEPT ![p] = 0]
    /\ Announce([type |-> "unlink", path |-> p])
    /\ UNCHANGED <<clock, connected, shown, contents, pending>>

\* The stream breaks: what was on its way is lost, and so is what happens next.
Disconnect ==
    /\ connected /\ Spend("drops")
    /\ connected' = FALSE /\ events' = <<>>
    /\ strays' = strays \cup {events[i].path : i \in DOMAIN events}
    /\ unheard' = unheard \cup {events[i].path : i \in DOMAIN events}
    /\ UNCHANGED <<disk, clock, shown, contents, pending>>

\* ... and comes back: what is shown is refreshed at once.
Reconnect ==
    /\ ~connected /\ connected' = TRUE
    /\ timers' = timers \cup Active
    /\ requests' = [p \in Files |-> IF p \in Active THEN requests[p] + 1 ELSE requests[p]]
    /\ UNCHANGED <<disk, clock, events, unheard, budget, shown, contents, loads, versions, live,
                   hydration, strays>>

-----------------------------------------------------------------------------
(* Events received *)

\* What is known of a file while a load of it is in flight was known before: the
\* load's answer is not believed about it.
\* (The fault of believing it.)
NotOutdated(p) == versions' = [versions EXCEPT ![p] = @]

Outdated(p) == versions' = [versions EXCEPT ![p] = IF InFlight(p) # {} THEN @ + 1 ELSE @]

ScheduleLiveFileRefresh(p) ==
    /\ timers' = timers \cup {p}
    /\ requests' = [requests EXCEPT ![p] = @ + 1]

\* decideLiveRefresh: a file that is shown is refreshed, one in another tab is marked.
Refresh(event) ==
    LET p == event.path
    IN  IF event.type = "unlink"
        THEN tabs' = MarkTabRemoved(tabs, p) /\ UNCHANGED <<timers, requests>>
        ELSE IF p \in Active THEN ScheduleLiveFileRefresh(p) /\ UNCHANGED tabs
        ELSE tabs' = MarkTabChanged(tabs, p) /\ UNCHANGED <<timers, requests>>

\* History: a file that is not shown is not followed; an answer on its way to the
\* cache, or a copy that an "add" leaves in it, is then out of date.
LeftBehind(event) ==
    LET p == event.path
    IN  /\ event.type # "unlink" /\ p \notin Active
        /\ \/ InFlight(p) # {}
           \/ \E request \in live \cup hydration : request.path = p
           \/ p \in timers
           \/ event.type = "add" /\ cache[p] # None

Receive ==
    /\ connected /\ events # <<>>
    /\ events' = Tail(events)
    /\ LET event == Head(events)
           p == event.path
       IN  /\ CASE event.type = "add" -> /\ Outdated(p)
                                         /\ missing' = missing \ {p} /\ present' = present \cup {p}
                [] event.type = "unlink" -> /\ Outdated(p)
                                            /\ present' = present \ {p} /\ missing' = missing \cup {p}
                [] OTHER -> UNCHANGED <<versions, missing, present>>
           /\ cache' = IF event.type = "change" /\ p \notin Active
                       THEN [cache EXCEPT ![p] = None] ELSE cache
           /\ Refresh(event)
           /\ strays' = IF LeftBehind(event) THEN strays \cup {p} ELSE strays
    /\ UNCHANGED <<disk, clock, connected, unheard, budget, layout, loads, live, hydration>>

-----------------------------------------------------------------------------
(* Loads *)

Load(p, pane, mode, review) ==
    [path |-> p, pane |-> pane, mode |-> mode, review |-> review,
     version |-> versions[p] + 1, read |-> Unread]

\* The first half of loadFile: the pane turns to the path before it is loaded.
StartLoad(p, pane, mode, review, after) ==
    /\ Len(loads) < MaxLoads
    /\ versions' = [versions EXCEPT ![p] = @ + 1]
    /\ loads' = Append(loads, Load(p, pane, mode, review))
    /\ layout' = SetPaneActivePath(after, pane, p)

\* loadFile from the tree, the palette, a link, the queue or a tab.
OpenFile(p, mode, review) ==
    /\ review => mode # "preserve"
    /\ Spend("opens")
    /\ StartLoad(p, layout.focus, mode, review, layout)
    /\ UNCHANGED <<disks, tabs, contents, timers, live, hydration, requests, strays>>

ActivateTab(tab) ==
    /\ Spend("opens")
    /\ IF tab.removed
       THEN layout' = SetPaneActivePath(layout, tab.pane, tab.path) /\ UNCHANGED <<loads, versions>>
       ELSE StartLoad(tab.path, tab.pane, "preserve", FALSE, layout)
    /\ UNCHANGED <<disks, tabs, contents, timers, live, hydration, requests, strays>>

\* The server reads the file for a load or a refresh.
ServeLoad(i) ==
    /\ loads[i].read = Unread
    /\ loads' = [loads EXCEPT ![i].read = disk[loads[i].path]]
    /\ UNCHANGED <<disks, budget, shown, contents, versions, timers, live, hydration, requests, strays>>

\* The second half of loadFile.  Only the latest load is believed about whether
\* the file is there; every load fills the cache and the tabs.
\* (The fault of never forgetting a load.)
FinishedKept(i) == loads' = RemoveAt(loads, i) /\ UNCHANGED versions

Finished(i) ==
    LET p == loads[i].path
    IN  /\ loads' = RemoveAt(loads, i)
        /\ versions' = [versions EXCEPT ![p] = IF InFlight(p) = {i} THEN 0 ELSE @]

\* History: an answer that is older than the copy it replaces.
Overtaken(p, read) == read < cache[p]
Corrected(p, read) ==
    /\ read = disk[p]
    /\ \A i \in InFlight(p) : loads[i].read \in {Unread, disk[p]}
    /\ \A request \in live : request.path = p => request.read \in {Unread, disk[p]}

Settled(p, read) == Corrected(p, read) /\ \A i \in DOMAIN events : events[i].path # p
Followed(p, read) ==
    strays' = IF Overtaken(p, read) THEN strays \cup {p}
              ELSE IF Settled(p, read) THEN strays \ {p} ELSE strays

Loaded(i) ==
    LET load == loads[i]
        p == load.path
    IN  /\ load.read > 0
        /\ IF versions[p] = load.version
           THEN missing' = missing \ {p} /\ present' = present \cup {p}
           ELSE UNCHANGED <<missing, present>>
        /\ cache' = [cache EXCEPT ![p] = load.read]
        /\ tabs' = UpsertOpenTab(tabs, p, load.pane, load.mode)
        /\ layout' = IF load.review THEN SetPaneActivePath(layout, load.pane, p) ELSE layout
        /\ Finished(i) /\ Followed(p, load.read)
        /\ UNCHANGED <<disks, budget, timers, live, hydration, requests>>

\* The file is not there (not_found); any other failure changes nothing.
LoadFailed(i) ==
    LET load == loads[i]
        p == load.path
    IN  /\ \/ /\ load.read = 0 /\ versions[p] = load.version
              /\ missing' = missing \cup {p} /\ present' = present \ {p}
              /\ UNCHANGED budget
           \/ /\ load.read = 0 /\ versions[p] # load.version
              /\ UNCHANGED <<budget, missing, present>>
           \/ Spend("drops") /\ UNCHANGED <<missing, present>>
        /\ Finished(i)
        /\ UNCHANGED <<disks, shown, cache, timers, live, hydration, requests, strays>>

-----------------------------------------------------------------------------
(* Live refreshes *)

\* The timer fires 75 ms after the last event of the path.
LiveTimer(p) ==
    /\ p \in timers /\ timers' = timers \ {p}
    /\ live' = live \cup {[path |-> p, version |-> requests[p], read |-> Unread]}
    /\ UNCHANGED <<disks, budget, shown, contents, loads, versions, hydration, requests, strays>>

ServeLive(request) ==
    /\ request.read = Unread
    /\ live' = (live \ {request}) \cup {[request EXCEPT !.read = disk[request.path]]}
    /\ UNCHANGED <<disks, budget, shown, contents, loads, versions, timers, hydration, requests, strays>>

\* The fault of believing every answer.
AppliesAny(request) == request.path \in Files

ShouldApplyLiveRefresh(request) == requests[request.path] = request.version

RefreshLiveFile(request) ==
    LET p == request.path
        applied == request.read > 0 /\ ShouldApplyLiveRefresh(request)
    IN  /\ request.read # Unread
        /\ live' = live \ {request}
        /\ IF applied
           THEN /\ cache' = [cache EXCEPT ![p] = request.read]
                /\ tabs' = MarkTabLoaded(tabs, p)
                /\ strays' = IF Settled(p, request.read) THEN strays \ {p} ELSE strays
           ELSE UNCHANGED <<cache, tabs, strays>>
        /\ UNCHANGED <<disks, budget, layout, missing, present, loads, versions, timers, hydration,
                       requests>>

\* The request fails: nothing is tried again.
RefreshFailed(request) ==
    /\ Spend("drops") /\ live' = live \ {request}
    /\ strays' = strays \cup {request.path}
    /\ UNCHANGED <<disks, shown, contents, loads, versions, timers, hydration, requests>>

-----------------------------------------------------------------------------
(* Tabs and panes *)

\* closeTab and applyTabCleanup: the tab shown next is loaded, unless it is cached.
ShowNext(left, pane) ==
    LET next == ClosePaneIfEmpty(SetPaneActivePath(layout, pane, left.active), pane,
                                 InPane(left.tabs, pane) # <<>>)
    IN  /\ Spend("opens") /\ tabs' = left.tabs
        /\ IF left.active # NoPath /\ cache[left.active] = None
           THEN StartLoad(left.active, pane, "preserve", FALSE, next)
           ELSE layout' = next /\ UNCHANGED <<loads, versions>>
        /\ UNCHANGED <<disks, contents, timers, live, hydration, requests, strays>>

CloseTab(tab) == ShowNext(CloseOpenTab(tabs, tab.path, ActiveIn(layout, tab.pane), tab.pane), tab.pane)

\* The shortcut closes what is shown, in the pane that has the focus.
CloseActive ==
    /\ SelectedPath(layout) # NoPath
    /\ ShowNext(CloseOpenTab(tabs, SelectedPath(layout), ActiveIn(layout, layout.focus), layout.focus),
                layout.focus)

Cleanup(pane) ==
    LET active == ActiveIn(layout, pane)
    IN  \/ Len(InPane(tabs, pane)) > 1 /\ active \in Paths(InPane(tabs, pane))
           /\ ShowNext(CloseOtherOpenTabs(tabs, active, pane), pane)
        \/ active \in Paths(InPane(tabs, pane)) /\ ShowNext(CloseTabsToRight(tabs, active, pane), pane)
        \/ ShowNext(CloseUnchangedTabs(tabs, active, pane), pane)
        \/ ShowNext(ClosePreviewTabs(tabs, active, pane), pane)

PromoteTab(tab) ==
    /\ tab.preview /\ tabs' = PromoteOpenTab(tabs, tab.path, tab.pane)
    /\ UNCHANGED <<disks, budget, layout, contents, pending, strays>>

MoveTab(tab, pane, before) ==
    LET next == SetPaneActivePath(layout, pane, tab.path)
    IN  /\ Spend("opens")
        /\ tabs' = MoveOpenTab(tabs, tab.path, tab.pane, pane, before)
        /\ IF cache[tab.path] = None THEN StartLoad(tab.path, pane, "preserve", FALSE, next)
           ELSE layout' = next /\ UNCHANGED <<loads, versions>>
        /\ UNCHANGED <<disks, contents, timers, live, hydration, requests, strays>>

SplitTab(tab, pane, placement) ==
    LET new == layout.next
        next == SetPaneActivePath(SplitEditorPane(layout, pane, placement), new, tab.path)
    IN  /\ Spend("opens") /\ layout.next < MaxPanes
        /\ IF cache[tab.path] # None
           THEN /\ tabs' = UpsertOpenTab(tabs, tab.path, new, "normal")
                /\ layout' = next /\ UNCHANGED <<loads, versions>>
           ELSE StartLoad(tab.path, new, "normal", FALSE, next) /\ UNCHANGED tabs
        /\ UNCHANGED <<disks, contents, timers, live, hydration, requests, strays>>

FocusPane(pane) ==
    /\ layout.focus # pane /\ layout' = [layout EXCEPT !.focus = pane]
    /\ UNCHANGED <<disks, budget, tabs, contents, pending, strays>>

-----------------------------------------------------------------------------
(* The page *)

\* The page is loaded anew, with the session that was kept, and fetches what its panes
\* show.  The user may want the active tab only, or none.
Reload ==
    LET session == RestoreWorkspaceSession(BuildWorkspaceSession(tabs, layout))
    IN  /\ Spend("reloads")
        /\ \E s \in {session, RestoreOnlyActiveWorkspaceTab(session),
                     [tabs |-> <<>>, layout |-> InitialLayout]} :
              /\ tabs' = s.tabs /\ layout' = s.layout
              /\ hydration' = [path : ActivePaths(s.layout), read : {Unread}]
        /\ cache' = [p \in Files |-> None]
        /\ loads' = <<>> /\ versions' = [p \in Files |-> 0]
        /\ timers' = {} /\ live' = {} /\ requests' = [p \in Files |-> 0]
        /\ missing' = {} /\ present' = {} /\ strays' = {} /\ unheard' = {}
        /\ events' = <<>> /\ connected' = TRUE
        /\ UNCHANGED <<disk, clock>>

ServeHydration(fetch) ==
    /\ fetch.read = Unread
    /\ hydration' = (hydration \ {fetch}) \cup {[fetch EXCEPT !.read = disk[fetch.path]]}
    /\ UNCHANGED <<disks, budget, shown, contents, loads, versions, timers, live, requests, strays>>

\* Promise.all: one file that is not there, and none of them is shown.
HydrateRestoredFiles ==
    LET Fetch(p) == CHOOSE fetch \in hydration : fetch.path = p
        fetched == {fetch.path : fetch \in hydration}
    IN  /\ hydration # {} /\ \A fetch \in hydration : fetch.read # Unread
        /\ cache' = IF \A fetch \in hydration : fetch.read > 0
                    THEN [p \in Files |-> IF p \in fetched THEN Fetch(p).read ELSE cache[p]]
                    ELSE cache
        /\ strays' = IF cache' = cache THEN strays
                     ELSE strays \cup {p \in fetched : Overtaken(p, Fetch(p).read)}
        /\ hydration' = {}
        /\ UNCHANGED <<disks, budget, shown, missing, present, loads, versions, timers, live, requests>>

Next ==
    \/ \E p \in Files : Write(p) \/ Delete(p) \/ LiveTimer(p)
    \/ Disconnect \/ Reconnect \/ Receive \/ Reload
    \/ \E p \in Files, mode \in Modes, review \in BOOLEAN : OpenFile(p, mode, review)
    \/ CloseActive
    \/ \E fetch \in hydration : ServeHydration(fetch)
    \/ HydrateRestoredFiles
    \/ \E i \in DOMAIN loads : ServeLoad(i) \/ Loaded(i) \/ LoadFailed(i)
    \/ \E request \in live : ServeLive(request) \/ RefreshLiveFile(request) \/ RefreshFailed(request)
    \/ \E tab \in ToSet(tabs) :
          /\ tab.pane \in PaneIds(layout)
          /\ \/ ActivateTab(tab) \/ CloseTab(tab) \/ PromoteTab(tab)
             \/ \E pane \in PaneIds(layout) :
                   \/ \E before \in Files \cup {NoPath} : MoveTab(tab, pane, before)
                   \/ \E placement \in {"before", "after"} : SplitTab(tab, pane, placement)
    \/ \E pane \in PaneIds(layout) : FocusPane(pane) \/ Cleanup(pane)

-----------------------------------------------------------------------------
(* Properties *)

Quiet == connected /\ events = <<>> /\ loads = <<>> /\ timers = {} /\ live = {} /\ hydration = {}

\* When nothing is on its way any more, a file that is shown is shown as it is, or is
\* known to be gone: whatever order changes, loads, refreshes and events came in.
\* Excepted are the files named in strays, which the code loses track of.
ShownIsCurrent ==
    Quiet => \A p \in Active \ strays :
                 cache[p] # None => \/ cache[p] = disk[p]
                                    \/ disk[p] = 0 /\ p \in missing

\* ... and what is believed to be there, or gone, is: an answer that was overtaken by
\* an event about the file is not believed.  Changes that were never announced are not
\* looked for.
MissingIsRight ==
    Quiet => \A p \in (missing \cup present) \ unheard : p \in missing <=> disk[p] = 0

\* A pane has one preview at most, wherever tabs were opened, moved and split.
OnePreviewPerPane ==
    \A i, j \in DOMAIN tabs : tabs[i].preview /\ tabs[j].preview /\ tabs[i].pane = tabs[j].pane => i = j

\* The session that is kept restores to an editor in which every pane shows a tab of
\* its own and a new pane gets a new name, although previews are not kept; unless a tab
\* was opened in a pane that had been closed meanwhile (see Loaded).
SessionsRestore ==
    LET session == RestoreWorkspaceSession(BuildWorkspaceSession(tabs, layout))
        panes == session.layout.panes
    IN  /\ \A i \in DOMAIN tabs : tabs[i].pane \in PaneIds(layout)
        /\ Cardinality(PaneIds(layout)) = Len(layout.panes)
        => /\ \A i, j \in DOMAIN panes : panes[i].id = panes[j].id => i = j
           /\ \A i \in DOMAIN panes : panes[i].id < session.layout.next
           /\ session.layout.focus \in PaneIds(session.layout)
           /\ \A i \in DOMAIN panes : panes[i].active = FirstPath(session.tabs)
                 \/ panes[i].active \in Paths(InPane(session.tabs, panes[i].id))

=============================================================================
