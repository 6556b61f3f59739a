---------------------------- MODULE MCWorkbench ----------------------------
(***************************************************************************)
(* The files and the comments of one page, each from its own initial states: *)
(* the two share no variable.                                                *)
(***************************************************************************)
EXTENDS WorkbenchFiles, WorkbenchComments
CONSTANTS a, b

VARIABLE concern    \* which of the two a behaviour is about; the other one stands still

Budget(opens, writes, drops, reloads) ==
    [opens |-> opens, writes |-> writes, drops |-> drops, reloads |-> reloads]
Budgets == {Budget(4, 0, 0, 0), Budget(2, 0, 0, 1), Budget(2, 1, 0, 0), Budget(1, 2, 1, 0)}

Spare(users, agents, faults) == [users |-> users, agents |-> agents, faults |-> faults]
Spares == {Spare(2, 1, 0), Spare(1, 1, 1), Spare(2, 0, 1), Spare(3, 0, 0)}

Symmetry == Permutations({a, b})

MCInit ==
    /\ Init /\ CommentsInit
    /\ \/ concern = "files" /\ budget \in Budgets /\ spare = Spare(0, 0, 0)
       \/ concern = "comments" /\ budget = Budget(0, 0, 0, 0) /\ spare \in Spares

MCNext ==
    /\ UNCHANGED concern
    /\ \/ concern = "files" /\ Next /\ UNCHANGED commentVars
       \/ concern = "comments" /\ CommentsNext /\ UNCHANGED vars

MCSpec == MCInit /\ [][MCNext]_<<vars, commentVars, concern>>

-----------------------------------------------------------------------------
(* What is checked, by what it is about *)

\* A file that is shown is shown as it is and known to be there or gone, whatever order answers
\* and events came in; and the editor it is shown in can be restored.
EditorIsRight == TypeOK /\ MissingIsRight /\ ShownIsCurrent /\ OnePreviewPerPane /\ SessionsRestore

\* The page has the server's comments and drafts once nothing is on its way, each of them once,
\* and none that was deleted at any time.
CommentsAreRight ==
    CommentsTypeOK /\ DeletedStaysGone /\ CommentsConverge /\ DraftsConverge /\ NoneShownTwice

=============================================================================
