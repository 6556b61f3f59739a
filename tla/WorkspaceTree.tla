---------------------------- MODULE WorkspaceTree ----------------------------
(***************************************************************************)
(* The tree of the workspace in the browser: what is loaded of it            *)
(* (loadTree and loadDirectory of                                            *)
(* ui/src/features/workbench/WorkbenchContainer.tsx, ui/src/state/files.ts)   *)
(* and what its sidebar expands and reveals                                  *)
(* (ui/src/shared/components/TreeSidebar.tsx).                               *)
(*                                                                         *)
(* The directories are a chain: 0 is the root and each one is in the one     *)
(* before it.  A listing is the number of changes that it shows.  Whatever   *)
(* happens in a directory has that directory listed again, one level deep.   *)
(***************************************************************************)
EXTENDS Integers, Sequences, FiniteSets, SequencesExt

CONSTANTS Depth,        \* the innermost directory
          MaxListings,  \* bound: listings in flight
          MaxVersion,   \* bound: listings ever asked for
          MaxNews       \* bound: events on their way

ASSUME TreeAssumption == Depth \in Nat

VARIABLES
    entries,    \* the server: changes of each directory
    pushed,     \* events on their way
    up,         \* the event stream
    moves,      \* how often users, changes and faults happen, from here on
    view,       \* the page: what is loaded, in flight, expanded, revealed
    unseen      \* history: directories whose change was lost, or whose listing failed

treeVars == <<entries, pushed, up, moves, view, unseen>>

Root == 0
Dirs == 0..Depth
NotRead == -1
Spends(what) == moves[what] > 0 /\ moves' = [moves EXCEPT ![what] = @ - 1]

\* listings: of the topmost directory, of the one in it, ... as far as they are loaded; a
\* directory is in the tree if the one above it is loaded.
InTree(v, dir) == dir > v.top /\ dir <= v.top + Len(v.listings)
IsLoaded(v, dir) == dir >= v.top /\ dir < v.top + Len(v.listings)
Listing(v, dir) == v.listings[dir - v.top + 1]

TreeTypeOK ==
    /\ Len(view.listings) <= Depth + 1 /\ \A i \in DOMAIN view.listings : view.listings[i] \in Nat
    /\ view.expanded \subseteq Dirs \ {Root} /\ view.reveal \in Dirs
    /\ \A call \in view.calls : call.version <= view.sequence
    \* what is shown as loading is being loaded
    /\ \A dir \in view.loadingDirectories : \E call \in view.calls : call.dir = dir

NoCalls == [dir \in Dirs |-> 0]
Empty == [top |-> Root, listings |-> <<>>, calls |-> {}, versions |-> NoCalls, sequence |-> 0,
          loadingDirectories |-> {}, expanded |-> {}, reveal |-> Root]

\* (The fault of counting the loads of each directory, from one whenever none is current.)
CountEach(v, dir) == v.versions[dir] + 1

\* Versions are never used twice.
NextVersion(v, dir) == v.sequence + 1

\* loadTree and loadDirectory.
List(v, dir) ==
    LET version == NextVersion(v, dir)
    IN  [v EXCEPT !.sequence = IF version > @ THEN version ELSE @, !.versions[dir] = version,
                  !.calls = @ \cup {[dir |-> dir, version |-> version, read |-> NotRead]},
                  !.loadingDirectories = IF dir = Root THEN @ ELSE @ \cup {dir}]

\* (The fault of loading nothing but what is asked for.)
RevealNothing(v) == v

\* The effect of every change of the tree and of what is loading: the first directory on
\* the way to the revealed file that is not loaded is loaded.
RevealNext(v) ==
    LET first == v.top + Len(v.listings)
    IN  IF v.listings # <<>> /\ first <= v.reveal /\ first \notin v.loadingDirectories
        THEN List(v, first) ELSE v

Show(v) ==
    /\ view' = RevealNext(v)
    /\ Cardinality(view'.calls) <= MaxListings /\ view'.sequence <= MaxVersion

TreeInit ==
    /\ entries = [dir \in Dirs |-> 0] /\ pushed = <<>> /\ up = TRUE
    /\ view = List(Empty, Root) /\ unseen = {}

-----------------------------------------------------------------------------
(* The workspace *)

ChangeIn(dir) ==
    /\ Spends("changes") /\ entries' = [entries EXCEPT ![dir] = @ + 1]
    /\ IF up THEN Len(pushed) < MaxNews /\ pushed' = Append(pushed, dir) /\ UNCHANGED unseen
       ELSE unseen' = unseen \cup {dir} /\ UNCHANGED pushed
    /\ UNCHANGED <<up, view>>

Outage ==
    /\ up /\ Spends("faults") /\ up' = FALSE /\ pushed' = <<>>
    /\ unseen' = unseen \cup ToSet(pushed)
    /\ UNCHANGED <<entries, view>>

EndOfOutage ==
    /\ ~up /\ up' = TRUE /\ Show(List(view, Root))
    /\ UNCHANGED <<entries, pushed, moves, unseen>>

ReceiveChange ==
    /\ up /\ pushed # <<>> /\ pushed' = Tail(pushed)
    /\ Show(List(view, Head(pushed)))
    /\ UNCHANGED <<entries, up, moves, unseen>>

-----------------------------------------------------------------------------
(* Listings *)

ServeListing(call) ==
    /\ call.read = NotRead
    /\ view' = [view EXCEPT !.calls = (@ \ {call}) \cup {[call EXCEPT !.read = entries[call.dir]]}]
    /\ UNCHANGED <<entries, pushed, up, moves, unseen>>

\* replaceDirectoryChildren: what was loaded further down is gone.
ReplaceDirectoryChildren(v, dir, read) ==
    IF InTree(v, dir) THEN [v EXCEPT !.listings = Append(SubSeq(@, 1, dir - v.top), read)] ELSE v

\* The first listing is taken for the tree, whichever directory it is of.
Apply(v, dir, read) ==
    IF dir = Root \/ v.listings = <<>> THEN [v EXCEPT !.top = dir, !.listings = <<read>>]
    ELSE ReplaceDirectoryChildren(v, dir, read)

IsLatestListing(v, call) == v.versions[call.dir] = call.version

\* (The fault of an answer that leaves its directory shown as loading.)
EndedLoading(v, call) ==
    [v EXCEPT !.calls = @ \ {call}, !.versions[call.dir] = IF IsLatestListing(v, call) THEN 0 ELSE @]

Ended(v, call) ==
    [v EXCEPT !.calls = @ \ {call}, !.loadingDirectories = @ \ {call.dir},
              !.versions[call.dir] = IF IsLatestListing(v, call) THEN 0 ELSE @]

ListingAnswered(call) ==
    LET shown == IF IsLatestListing(view, call) THEN Apply(view, call.dir, call.read) ELSE view
    IN  /\ call.read # NotRead /\ Show(Ended(shown, call))
        /\ UNCHANGED <<entries, pushed, up, moves, unseen>>

ListingFails(call) ==
    /\ Spends("faults") /\ Show(Ended(view, call))
    /\ unseen' = unseen \cup {call.dir}
    /\ UNCHANGED <<entries, pushed, up>>

-----------------------------------------------------------------------------
(* The sidebar *)

\* A directory is loaded when it is expanded, unless it was before.
ToggleDirectory(dir) ==
    /\ dir # Root /\ InTree(view, dir) /\ Spends("users")
    /\ LET toggled == [view EXCEPT !.expanded = IF dir \in @ THEN @ \ {dir} ELSE @ \cup {dir}]
       IN  Show(IF dir \notin view.expanded /\ ~IsLoaded(view, dir) THEN List(toggled, dir) ELSE toggled)
    /\ UNCHANGED <<entries, pushed, up, unseen>>

\* The file of a tab is revealed: every directory above it is expanded.
RevealFileIn(dir) ==
    /\ view.listings # <<>> /\ Spends("users")
    /\ Show([view EXCEPT !.reveal = dir, !.expanded = @ \cup 1..dir])
    /\ UNCHANGED <<entries, pushed, up, unseen>>

TreeNext ==
    \/ \E dir \in Dirs : ChangeIn(dir) \/ ToggleDirectory(dir) \/ RevealFileIn(dir)
    \/ Outage \/ EndOfOutage \/ ReceiveChange
    \/ \E call \in view.calls : ServeListing(call) \/ ListingAnswered(call) \/ ListingFails(call)

-----------------------------------------------------------------------------
(* Properties *)

TreeQuiet == up /\ pushed = <<>> /\ view.calls = {}

\* When nothing is on its way, every directory that is loaded is listed as it is, however
\* the listings overtook each other; except one whose change was lost or whose listing
\* failed.  The listing of another directory is not taken for the root's for good.
ListingsAreCurrent ==
    TreeQuiet /\ Root \notin unseen =>
        /\ view.top = Root
        /\ \A dir \in Dirs \ unseen : IsLoaded(view, dir) => Listing(view, dir) = entries[dir]

\* The directories above the revealed file are loaded, again after every listing of one
\* above them.
RevealedIsLoaded == TreeQuiet /\ view.top = Root /\ view.listings # <<>> => IsLoaded(view, view.reveal)

\* "Preserve expanded/collapsed state across tree updates": a listing, after which nothing
\* else is loaded, leaves the entries of a directory that is expanded where they are.
ExpandedStaysLoaded ==
    [][\A dir \in view.expanded \cap view'.expanded :
          IsLoaded(view, dir) /\ InTree(view', dir) /\ TreeQuiet' => IsLoaded(view', dir)]_treeVars

=============================================================================
