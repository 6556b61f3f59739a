------------------------- MODULE MCWorkbenchUpkeep -------------------------
(***************************************************************************)
(* What a page keeps up to date beside its files and comments: the list of    *)
(* changes and the diffs, where the reader looks, the tree, and the dialogs.   *)
(* They share no variable, so each is checked from its own initial states      *)
(* while the others stand still.                                              *)
(***************************************************************************)
EXTENDS WorkbenchReview, WorkbenchFocus, WorkspaceTree, CommandPalette
CONSTANTS guide, notes

MCFinds == <<"f1", "f2">>
MCDeeds == <<"a1", "a2">>

VARIABLE concern    \* which of them a behaviour is about

Left(users, edits, faults) == [users |-> users, edits |-> edits, faults |-> faults]
Acts(users, faults) == [users |-> users, faults |-> faults]
Moves(users, changes, faults) == [users |-> users, changes |-> changes, faults |-> faults]

Concern(name, lefts, actses, moveses) ==
    /\ concern = name /\ (name = "focus" \/ ~narrow) /\ (name = "review" \/ ~diffEnabled)
    /\ left \in lefts /\ acts \in actses /\ moves \in moveses

MCInit ==
    /\ ReviewInit /\ FocusInit /\ TreeInit /\ PaletteInit
    /\ \/ Concern("review", {Left(2, 1, 0), Left(1, 1, 1), Left(0, 1, 2)}, {Acts(0, 0)}, {Moves(0, 0, 0)})
       \/ Concern("focus", {Left(0, 0, 0)}, {Acts(4, 0), Acts(3, 1)}, {Moves(0, 0, 0)})
       \/ Concern("dialogs", {Left(0, 0, 0)}, {Acts(0, 0)}, {Moves(0, 0, 0)})
       \/ Concern("tree", {Left(0, 0, 0)}, {Acts(0, 0)}, {Moves(1, 2, 0), Moves(2, 1, 0), Moves(1, 1, 1)})
    /\ concern = "dialogs" \/ focusOn = Body

MCNext ==
    /\ UNCHANGED concern
    /\ \/ concern = "review" /\ ReviewNext /\ UNCHANGED <<focusVars, treeVars, paletteVars>>
       \/ concern = "focus" /\ FocusNext /\ UNCHANGED <<reviewVars, treeVars, paletteVars>>
       \/ concern = "tree" /\ TreeNext /\ UNCHANGED <<reviewVars, focusVars, paletteVars>>
       \/ concern = "dialogs" /\ PaletteNext /\ UNCHANGED <<reviewVars, focusVars, treeVars>>

\* The fairness of the review is asked of the behaviours that are about it: the others leave
\* its first answer unserved, and so are none of the fair ones.
MCSpec == MCInit /\ [][MCNext]_<<reviewVars, focusVars, treeVars, paletteVars, concern>> /\ ReviewFairness

-----------------------------------------------------------------------------
(* What is checked, by what it is about *)

\* The list of changes has a refresh coming for every change it was told of, and the diffs that
\* are shown are those of the files as they are.
ReviewIsCurrent == ReviewTypeOK /\ QueuedIsScheduled /\ DiffsAreCurrent

\* Directories that nothing is asked about are listed as they are, and the folders above a file
\* that is revealed have been asked for.
TreeIsLoaded == TreeTypeOK /\ ListingsAreCurrent /\ RevealedIsLoaded

\* The hit or the result that is marked is one of those that are shown, and when the last dialog
\* has closed the focus is where it was before.
DialogsHold ==
    FocusTypeOK /\ SearchIsForTheQuery /\ PaletteTypeOK /\ ArrowsReachEveryResult /\ FocusReturns

=============================================================================
