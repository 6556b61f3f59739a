--------------------------- MODULE MCReviewRules ---------------------------
(***************************************************************************)
(* The rules about comments, anchors and differences, over small inputs:    *)
(* every behaviour is one input and its answer.                             *)
(***************************************************************************)
EXTENDS PageRules, DiffView

vars == <<input, done, answer>>

CONSTANTS MaxLines, MaxFile, MaxComments

-----------------------------------------------------------------------------
(* Inputs *)

LineNumbers == -1 .. MaxLines
Ranges == [start : LineNumbers, end : LineNumbers]

Anchors ==
    [what : {"anchor"}, surface : {"source"}, canonical : Ranges, rendered : {NoRange},
     diff : {NoRange}] \cup
    [what : {"anchor"}, surface : {"rendered"}, canonical : Ranges, rendered : Ranges,
     diff : {NoRange}] \cup
    [what : {"anchor"}, surface : {"diff"}, canonical : Ranges, rendered : {NoRange},
     diff : [side : {"old", "new", "current"}, old : {NoRange, [start |-> 1, end |-> 2]},
             new : Ranges] \cup
            [side : {"old"}, old : Ranges, new : {NoRange, [start |-> 2, end |-> 1]}]]

\* Comments are listed in any order; the first of a thread has no thread id.
CommentLists ==
    LET Comment == [thread : {Absent, 1}, status : {"open", "resolved", "archived"},
                    updated : 1 .. 2, resolved : {Absent, 1}]
        Full(c, i) == [id |-> i, thread |-> c.thread, status |-> c.status, batch |-> c.resolved,
                       created |-> 3 - c.updated, updated |-> c.updated,
                       resolved |-> c.resolved, archived |-> c.resolved]
    IN  {[what |-> "comments", comments |-> [i \in DOMAIN s |-> Full(s[i], i)]] :
            s \in BoundedSeq(Comment, MaxComments)}

Texts == {"a", "b", Blank, Fence}
Contents == BoundedSeq(Texts, MaxFile) \ {<<>>}

\* The content of a file that is not there is <<>>; an empty file has one line.
Diffs == [what : {"diff"}, old : Contents, new : Contents \cup {<<>>}] \cup
         [what : {"diff"}, old : {<<>>}, new : Contents]

-----------------------------------------------------------------------------

Raws ==
    CASE input.old = <<>> -> AddedFileDiff(input.new)
      [] input.new = <<>> -> DeletedFileDiff(input.old)
      [] OTHER -> FullFileDiff(input.old, input.new)

Answer ==
    CASE input.what = "anchor" -> NormalizeAnchor(input)
      [] input.what = "comments" ->
            [server |-> ThreadsOnServer(input.comments), browser |-> BrowserThreads(input.comments)]
      [] input.what = "diff" ->
            [ops |-> LineDiffOf(input.old, input.new), stat |-> DiffStat(Raws),
             parsed |-> ParseUnifiedDiff(Raws),
             markdown |-> Cards(Raws, "markdown"), html |-> Cards(Raws, "html")]
      [] OTHER -> PageAnswer

Init ==
    /\ input \in Anchors \cup CommentLists \cup Diffs \cup NodeInputs \/ DocumentInput \/ ReadingInput \/ QueueInput \/ PageInput
    /\ done = FALSE /\ answer = Invalid
Next == ~done /\ done' = TRUE /\ answer' = Answer /\ UNCHANGED input
Spec == Init /\ [][Next]_vars

-----------------------------------------------------------------------------
(* Properties *)

\* An anchor that is accepted is accepted again as it was stored: its canonical
\* lines are in order, whatever was filled in.
AnchorsAreStable ==
    Of("anchor") /\ answer # Invalid /\ Plain(input) => NormalizeAnchor(answer) = answer

\* A thread is the same in whichever order its comments are listed, and open as
\* long as one of them is.
ThreadsAreSummaries ==
    Of("comments") =>
        \A i \in DOMAIN answer.server :
            LET thread == answer.server[i]
                own == {c \in ToSet(input.comments) : ThreadOf(c) = thread.id}
                ranks == {CommentStatusRank(c.status) : c \in own}
            IN  /\ IsSummaryOf(thread, own)
                /\ CommentStatusRank(thread.status) \in ranks
                /\ \A r \in ranks : r <= CommentStatusRank(thread.status)

\* The browser makes the same threads, and gives each the status that was set last.
BrowserStatusIsTheLatest ==
    Of("comments") =>
        /\ Len(answer.server) = Len(answer.browser)
        /\ \A i \in DOMAIN answer.browser :
            LET thread == answer.browser[i]
                latest == {c \in ToSet(thread.comments) : c.updated = thread.updated}
            IN  /\ [thread EXCEPT !.status = "any"] = [answer.server[i] EXCEPT !.status = "any"]
                /\ \E c \in latest : c.status = thread.status

\* A difference contains both files, and no line twice that could be kept, unless
\* the files are too large to compare; the counts shown for it are its own.
DiffsAreMinimal ==
    Of("diff") =>
        /\ IsDiffOf(answer.ops, input.old, input.new)
        /\ answer.stat = [additions |-> Count(answer.ops, {"add"}),
                          deletions |-> Count(answer.ops, {"remove"})]
        /\ Len(input.old) * Len(input.new) <= MaxCells =>
               Count(answer.ops, {"context"}) = LongestCommon(input.old, input.new)

AllCards == ToSet(answer.markdown) \cup ToSet(answer.html)
Sides(card) == ToSet(card.before) \cup ToSet(card.after)

\* The lines that a card is labelled with are the lines it shows: numbers survive
\* formatting, parsing, grouping and folding.
CardsSayWhatTheFileSays ==
    Of("diff") => \A card \in AllCards : \A row \in Sides(card) :
                      SaysWhatTheFileSays(row, input.old, input.new)

\* Every changed line is on a card, and a line is on one card only.
CardsShowEveryChange ==
    Of("diff") =>
        \A cards \in {answer.markdown, answer.html} :
            /\ \A i \in DOMAIN answer.ops : answer.ops[i].text # Blank =>
                  /\ answer.ops[i].kind = "add" => answer.ops[i].new \in OnCards(cards, "new")
                  /\ answer.ops[i].kind = "remove" => answer.ops[i].old \in OnCards(cards, "old")
            /\ \A side \in {"old", "new"} : \A i, j \in DOMAIN cards :
                  i # j => OnCards(<<cards[i]>>, side) \cap OnCards(<<cards[j]>>, side) = {}

\* A comment on a card is accepted by the server, names the hunk it is in, and is
\* shown again on that card and on no other.
CardCommentsReturn ==
    Of("diff") =>
        \A cards \in {answer.markdown, answer.html} : \A i \in DOMAIN cards :
            LET anchor == NormalizeAnchor(DraftOnCard(cards[i]))
            IN  /\ anchor # Invalid
                /\ HunkOf(Raws, CardRange(cards[i])) = 1
                /\ \A j \in DOMAIN cards : ShownAt(cards[j], anchor) <=> i = j

\* A fold says how many lines it hides, and hides no change.
FoldsHideOnlyWhatIsUnchanged ==
    Of("diff") =>
        LET rows == LineRows(answer.parsed)
            focused == Focused(rows, 1)
            gaps == {i \in DOMAIN focused : focused[i].kind = "gap"}
            hidden == FoldFunctionOnSet(+, 0, [i \in gaps |-> focused[i].hidden], gaps)
        IN  /\ hidden + Len(focused) - Cardinality(gaps) = Len(rows)
            /\ OfKind(focused, {"add", "remove"}) = OfKind(rows, {"add", "remove"})

-----------------------------------------------------------------------------
(* What is checked, by what it is about *)

\* Anchors, threads and differences stay what they are, wherever they are made, stored, sent,
\* parsed, folded and shown: no line, no change and no comment is lost or moved on the way.
CommentsAndDiffsAgree ==
    /\ AnchorsAreStable /\ ThreadsAreSummaries /\ BrowserStatusIsTheLatest
    /\ DiffsAreMinimal /\ CardsSayWhatTheFileSays /\ CardsShowEveryChange
    /\ CardCommentsReturn /\ FoldsHideOnlyWhatIsUnchanged

\* The server gives out what is in the workspace and nothing else, tells what a file is, finds the
\* best matches, and is asked and understood in the same way by each of its clients.
ServerRulesHold ==
    /\ PathsStayInside /\ ExcludesMeanTheirGlob /\ GitListIsKept /\ PayloadsAreWhatTheFileIs
    /\ BestMatchesAreKept /\ MatchIsMarked
    /\ OperationsAreFoundByName /\ ClientsAskTheSame /\ MissingMeansMissing

\* A comment on a block of a rendered page finds its block, its lines and its marker again, and its
\* card is in sight beside it.
BlocksAreFound ==
    /\ BlocksKnowTheirLines /\ BothSidesCountAlike /\ CommentsReturnToTheirBlock
    /\ HighlightsGoWithTheirComment /\ MarkersOpenTheirComment
    /\ CardsAreInView /\ CardsLeaveTheTextVisible

\* Everything of a document is shown, and its outline, its links and the lines of its blocks lead
\* to where server and browser have put them.
DocumentsReadAlike ==
    /\ MarkdownIsShownWhole /\ PlainOutlineLeadsToHeadings /\ BothSidesNameHeadings
    /\ ActiveHeadingIsTheOneRead /\ PlainBlocksKnowTheirLines /\ LinksLeadToTheSameFile

\* What asks for attention is remembered, listed and reached, as long as it does: changes, looks,
\* receipts, drafts, unseen feedback and its threads.
QueueTellsWhatWaits ==
    /\ ChangedFilesExist /\ CompactionKeepsTheSummary /\ LastingFilesAppear
    /\ RecentIsRemembered /\ ExpiryIsNotMissed /\ SeenIsNotForgotten
    /\ PendingIsListed /\ NextVisitsAll /\ OfferedActionsAct /\ MoveVisitsEveryThread

\* The tree shows and opens every file, with keys alone, and what it does not show it tells of.
TreeShowsTheWorkspace ==
    /\ RevealedIsRendered /\ FirstRowsAreFew /\ LeftLeadsOut /\ KeysOpenEveryFile
    /\ PathsAreShownOrMissing /\ ClosedFoldersTell
    /\ FoldersLeadToTheNextStop /\ LabelsSayWhatIsShown

=============================================================================
