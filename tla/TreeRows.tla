------------------------------ MODULE TreeRows ------------------------------
(***************************************************************************)
(* The rows of the tree in the sidebar: which ones there are, how keys move  *)
(* over them and what a folder says of the files in it                       *)
(* (ui/src/state/tree-expansion.ts, tree-navigation.ts, files.ts and         *)
(* ui/src/shared/components/TreeSidebar.tsx).                                *)
(*                                                                         *)
(* A path is the sequence of its names and a tree the sequence of its nodes, *)
(* every folder before what is in it.  The entries of a folder are in the    *)
(* tree once the folder was listed.                                          *)
(***************************************************************************)
EXTENDS Integers, Sequences, FiniteSets, SequencesExt

CONSTANTS MaxTreeRows,      \* of rows that are rendered (800)
          MaxAutoExpanded   \* of rows that are expanded to at first (280)

NoPath == <<>>

\* ancestorDirectoryPaths; of no path, none.
Ancestors(path) == {SubSeq(path, 1, n) : n \in 1 .. Len(path) - 1}
Under(folder, path) == folder \in Ancestors(path)
IsFolder(folders, path) == path \in folders

\* What the server has of a workspace, as far as it was listed.
TreeOf(preorder, listed) == SelectSeq(preorder, LAMBDA path : Ancestors(path) \subseteq listed)

-----------------------------------------------------------------------------
(* Rows *)

FlattenVisibleTreeRows(nodes, expanded) ==
    SelectSeq(nodes, LAMBDA path : Ancestors(path) \subseteq expanded)

\* (The fault of not counting what is further down.)
VisitEntries(nodes, folders, listed, forced, so_far, path) ==
    LET rows == so_far.rows + 1
    IN  IF ~(Ancestors(path) \subseteq so_far.expanded) THEN so_far
        ELSE [rows |-> rows,
              expanded |-> IF path \in folders \cap listed /\ (path \in forced \/ rows <= MaxAutoExpanded)
                           THEN so_far.expanded \cup {path} ELSE so_far.expanded]

\* A folder is expanded at first if everything in it still fits.
VisitRow(nodes, folders, listed, forced, so_far, path) ==
    LET rows == so_far.rows + 1
        fits == rows + Cardinality({q \in ToSet(nodes) : Under(path, q)}) <= MaxAutoExpanded
    IN  IF ~(Ancestors(path) \subseteq so_far.expanded) THEN so_far
        ELSE [rows |-> rows,
              expanded |-> IF path \in folders \cap listed /\ (path \in forced \/ fits)
                           THEN so_far.expanded \cup {path} ELSE so_far.expanded]

InitialExpandedPaths(nodes, folders, listed, reveal) ==
    LET Visit(so_far, path) ==
            VisitRow(nodes, folders, listed, Ancestors(reveal), so_far, path)
    IN  FoldLeft(Visit, [rows |-> 0, expanded |-> {}], nodes).expanded \cup Ancestors(reveal)

\* (The fault of a reveal that expands the folder of the file alone.)
EnsureVisibleFolder(expanded, path) ==
    IF Len(path) > 1 THEN expanded \cup {Front(path)} ELSE expanded

EnsureVisibleAncestors(expanded, path) == expanded \cup Ancestors(path)

\* (The fault of keeping a revealed row without the folders above it.)
BoundedRowsAlone(nodes, expanded, reveal) ==
    LET all == FlattenVisibleTreeRows(nodes, expanded)
    IN  SubSeq(all, 1, IF Len(all) < MaxTreeRows THEN Len(all) ELSE MaxTreeRows)
        \o SelectSeq(SubSeq(all, MaxTreeRows + 1, Len(all)), LAMBDA path : path = reveal)

\* The first rows, and the revealed one with the folders above it wherever they are.
BoundedVisibleTreeRows(nodes, expanded, reveal) ==
    LET all == FlattenVisibleTreeRows(nodes, expanded)
    IN  IF Len(all) <= MaxTreeRows THEN all
        ELSE SubSeq(all, 1, MaxTreeRows)
             \o SelectSeq(SubSeq(all, MaxTreeRows + 1, Len(all)),
                          LAMBDA path : path = reveal \/ Under(path, reveal))

-----------------------------------------------------------------------------
(* Keys *)

TreeKeys == {"ArrowDown", "ArrowUp", "Home", "End", "Enter", "ArrowRight", "ArrowLeft"}
Key(kind, path) == [kind |-> kind, path |-> path]
Ignored == Key("none", NoPath)

\* The row that takes the keys: the last one that had the focus, else the selected file's.
FocusedTreePath(rows, active, selected) ==
    CASE active \in ToSet(rows) -> active
      [] active \notin ToSet(rows) /\ selected \in ToSet(rows) -> selected
      [] OTHER -> IF rows = <<>> THEN NoPath ELSE rows[1]

TreeKeyboardAction(rows, folders, expanded, current, key) ==
    LET at == CHOOSE i \in DOMAIN rows : rows[i] = current
        open == IsFolder(folders, current) /\ current \in expanded
        above == {i \in 1 .. at - 1 : Len(rows[i]) < Len(current)}
        Nearest == CHOOSE i \in above : \A j \in above : j <= i
    IN  CASE rows = <<>> -> Ignored
          [] key = "ArrowDown" -> Key("focus", rows[IF at < Len(rows) THEN at + 1 ELSE at])
          [] key = "ArrowUp" -> Key("focus", rows[IF at > 1 THEN at - 1 ELSE 1])
          [] key = "Home" -> Key("focus", rows[1])
          [] key = "End" -> Key("focus", Last(rows))
          [] key = "Enter" -> Key("activate", current)
          [] key = "ArrowRight" /\ IsFolder(folders, current) /\ ~open -> Key("toggle", current)
          [] key = "ArrowRight" /\ open /\ at < Len(rows) /\ Len(rows[at + 1]) > Len(current) ->
                Key("focus", rows[at + 1])
          [] key = "ArrowLeft" /\ open -> Key("toggle", current)
          [] key = "ArrowLeft" /\ ~open /\ above # {} -> Key("focus", rows[Nearest])
          [] OTHER -> Ignored

TogglePath(paths, path) == IF path \in paths THEN paths \ {path} ELSE paths \cup {path}

\* (The fault of expanding a folder that was not listed.)
ToggleOnly(side, path) == [side EXCEPT !.active = path, !.expanded = TogglePath(@, path)]

\* A folder that is expanded is listed, unless it was before.
ToggleFolder(side, path) ==
    [side EXCEPT !.active = path, !.expanded = TogglePath(@, path),
                 !.listed = IF path \in side.expanded THEN @ ELSE @ \cup {path}]

\* handleTreeKeyDown: a sidebar has a focus, expanded and listed folders, and opens files.
PressKey(world, side, key) ==
    LET rows == BoundedVisibleTreeRows(TreeOf(world.preorder, side.listed), side.expanded, world.reveal)
        action == TreeKeyboardAction(rows, world.folders, side.expanded,
                                     FocusedTreePath(rows, side.active, world.selected), key)
    IN  CASE action.kind = "none" -> side
          [] action.kind = "focus" -> [side EXCEPT !.active = action.path]
          [] action.kind = "activate" /\ ~IsFolder(world.folders, action.path) ->
                [side EXCEPT !.opened = action.path]
          [] OTHER -> ToggleFolder(side, action.path)

-----------------------------------------------------------------------------
(* Listing and missing files *)

\* unloadedAncestorDirectoryPaths: everything from the first folder on the way that is in the
\* tree and not listed.
UnloadedAncestors(nodes, folders, listed, path) ==
    LET unlisted == {f \in Ancestors(path) : f \in ToSet(nodes) /\ f \in folders \ listed}
    IN  {f \in Ancestors(path) : \E first \in unlisted : first = f \/ Under(first, f)}

\* (The fault of a folder that is not listed taken for an empty one.)
IsPathAbsent(nodes, folders, listed, path) == path \notin ToSet(nodes)

\* The first node on the way that is not in the tree is one whose folder was listed.
IsPathKnownMissing(nodes, folders, listed, path) ==
    LET missing == {q \in Ancestors(path) \cup {path} : q \notin ToSet(nodes)}
    IN  \E q \in missing : /\ \A r \in missing : ~Under(r, q)
                           /\ Len(q) > 1 => Front(q) \in listed \/ Front(q) \notin folders

-----------------------------------------------------------------------------
(* What rows say *)

StopPriority == [current |-> 4, attention |-> 3, review |-> 1, none |-> 0]

FileReviewStopKind(marks, path) ==
    CASE path = marks.stop -> "current"
      [] path # marks.stop /\ path \in marks.unread -> "attention"
      [] path # marks.stop /\ path \in marks.review \ marks.unread -> "review"
      [] OTHER -> "none"

FileSummary(marks, path) ==
    LET One(set) == IF path \in set THEN 1 ELSE 0
        kind == FileReviewStopKind(marks, path)
    IN  [comments |-> marks.comments[path], open |-> One(marks.open), review |-> One(marks.review),
         unread |-> One(marks.unread), kind |-> kind, stop |-> IF kind = "none" THEN NoPath ELSE path]

\* (The fault of the last stop taken for the first.)
PreferredLater(left, right) ==
    IF StopPriority[right.kind] >= StopPriority[left.kind] THEN right ELSE left

PreferredReviewStop(left, right) ==
    IF StopPriority[right.kind] > StopPriority[left.kind] THEN right ELSE left

NoSummary == [comments |-> 0, open |-> 0, review |-> 0, unread |-> 0, kind |-> "none", stop |-> NoPath]
AddSummary(left, right) ==
    LET preferred == PreferredReviewStop(left, right)
    IN  [comments |-> left.comments + right.comments, open |-> left.open + right.open,
         review |-> left.review + right.review, unread |-> left.unread + right.unread,
         kind |-> preferred.kind, stop |-> preferred.stop]

\* The entries of a folder, or of the root, in their order.
ChildrenOf(nodes, path) ==
    SelectSeq(nodes, LAMBDA q : Len(q) = Len(path) + 1 /\ IsPrefix(path, q))

\* directoryReviewSummary and workspaceTreeSummary, of every node: a folder adds up its entries.
ReviewSummaries(nodes, folders, marks) ==
    LET summary[path \in ToSet(nodes) \cup {NoPath}] ==
            IF path = NoPath \/ IsFolder(folders, path)
            THEN FoldLeft(AddSummary, NoSummary,
                          [i \in DOMAIN ChildrenOf(nodes, path) |-> summary[ChildrenOf(nodes, path)[i]]])
            ELSE FileSummary(marks, path)
    IN  summary

\* (The fault of marking open folders too.)
LocatesInFolder(path, folders, expanded, selected) ==
    path = selected \/ (IsFolder(folders, path) /\ Under(path, selected))

\* A row says where the selected file is: it is the file's or that of a closed folder it is in.
LocatesSelection(path, folders, expanded, selected) ==
    \/ path = selected
    \/ IsFolder(folders, path) /\ path \notin expanded /\ Under(path, selected)

\* What the label of a file's row says, what its second line does, and its badges; a file whose
\* row ends with the size of its change has no badge for the change.
FileLabel(marks, path, selected) ==
    {said \in {"selected", "changed", "review", "unread", "open", "removed", "stop", "comments"} :
        CASE said = "selected" -> path = selected
          [] said = "stop" -> path = marks.stop
          [] said = "comments" -> marks.comments[path] > 0
          [] OTHER -> path \in marks[said]}
FileReason(marks, path) ==
    {said \in {"unread", "stop", "review", "comments", "changed", "removed"} :
        CASE said = "stop" -> path = marks.stop
          [] said = "comments" -> marks.comments[path] > 0
          [] OTHER -> path \in marks[said]}
FileBadges(marks, path, diffstat) ==
    {said \in {"unread", "stop", "changed"} :
        CASE said = "stop" -> path = marks.stop
          [] said = "changed" -> path \in marks.changed /\ ~diffstat
          [] OTHER -> path \in marks.unread}

\* What the row of a folder says of the files in it, and of the file that it leads to.
SaidStop(kind, file) == [kind |-> kind, file |-> file]
FolderLabel(summary, containsStop) ==
    [counts |-> {said \in {"open", "review", "unread", "comments"} : summary[said] > 0},
     stop |-> IF containsStop THEN SaidStop("current", summary.stop)
              ELSE IF summary.stop # NoPath THEN SaidStop("next", summary.stop) ELSE SaidStop("none", NoPath)]

\* (The fault of a stop that is told from the others by its kind alone, not by its place.)
FolderReasonByKind(summary, containsStop) ==
    [counts |-> {said \in {"review", "unread", "comments"} : summary[said] > 0},
     stop |-> IF summary.stop = NoPath THEN SaidStop("none", NoPath)
              ELSE IF summary.kind = "attention" THEN SaidStop("current", summary.stop)
              ELSE SaidStop("next", summary.stop)]

FolderReason(summary, containsStop) ==
    [counts |-> {said \in {"review", "unread", "comments"} : summary[said] > 0},
     stop |-> IF summary.stop = NoPath THEN SaidStop("none", NoPath)
              ELSE IF containsStop \/ summary.kind = "current" THEN SaidStop("current", summary.stop)
              ELSE SaidStop("next", summary.stop)]
FolderBadges(summary) == {said \in {"review", "unread"} : summary[said] > 0}

=============================================================================
