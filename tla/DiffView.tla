------------------------------ MODULE DiffView ------------------------------
(***************************************************************************)
(* The line differences the Node server builds without Git (domain/change- *)
(* review.ts), what the browser reads from a unified diff (state/git-      *)
(* review.ts), and how DiffViewer.tsx shows it and places comments on it:  *)
(* lines are grouped into blocks, unchanged blocks far from a change are   *)
(* folded away, and removed and added blocks are paired on cards.  A card  *)
(* is where a comment on its lines is made and shown again.                *)
(*                                                                         *)
(* A line is a symbol; a raw line of a diff is a mark and a symbol.        *)
(***************************************************************************)
EXTENDS CommentDomain

CONSTANTS
    MaxCells,   \* the largest table that is filled in
    CellSize    \* what a cell counts up to (Uint16Array)

ASSUME DiffAssumption == MaxCells \in Nat /\ CellSize \in Nat \ {0}

Blank == "blank"     \* a line without text
Dashed == "dashed"   \* a line of text that starts with "-- "
Fence == "fence"     \* a line that starts a fenced block

None == 0            \* no line number

Larger(a, b) == IF a > b THEN a ELSE b

-----------------------------------------------------------------------------
(* The server *)

\* Operations of a difference, with the numbers of their lines.
Keep(old, i, j) == [kind |-> "context", text |-> old[i], old |-> i, new |-> j]
Drop(old, i) == [kind |-> "remove", text |-> old[i], old |-> i, new |-> None]
Put(new, j) == [kind |-> "add", text |-> new[j], old |-> None, new |-> j]

\* Common lines of what follows the lines i of old and j of new.
CommonLines(old, new) ==
    LET table[i \in 1 .. Len(old) + 1, j \in 1 .. Len(new) + 1] ==
            IF i > Len(old) \/ j > Len(new) THEN 0
            ELSE IF old[i] = new[j] THEN (table[i + 1, j + 1] + 1) % CellSize
            ELSE Larger(table[i + 1, j], table[i, j + 1])
    IN  table

\* The fault of stepping over the wrong file.
WrongWay(table, i, j) == table[i + 1, j] < table[i, j + 1]
RightWay(table, i, j) == table[i + 1, j] >= table[i, j + 1]
DropsFirst(table, i, j) == RightWay(table, i, j)

Aligned(old, new) ==
    LET table == CommonLines(old, new)
        from[i \in 1 .. Len(old) + 1, j \in 1 .. Len(new) + 1] ==
            IF i > Len(old) THEN [k \in 1 .. Len(new) - j + 1 |-> Put(new, j + k - 1)]
            ELSE IF j > Len(new) THEN [k \in 1 .. Len(old) - i + 1 |-> Drop(old, i + k - 1)]
            ELSE IF old[i] = new[j] THEN <<Keep(old, i, j)>> \o from[i + 1, j + 1]
            ELSE IF DropsFirst(table, i, j) THEN <<Drop(old, i)>> \o from[i + 1, j]
            ELSE <<Put(new, j)>> \o from[i, j + 1]
    IN  IF Len(old) * Len(new) > MaxCells
        THEN [i \in 1 .. Len(old) |-> Drop(old, i)] \o [j \in 1 .. Len(new) |-> Put(new, j)]
        ELSE from[1, 1]

\* Where the run of operations of this kind that starts at i ends.
RunEnd(ops, i, kind) ==
    LET ends == {k \in i .. Len(ops) + 1 : \A m \in i .. k - 1 : ops[m].kind = kind}
    IN  CHOOSE k \in ends : \A m \in ends : m <= k

\* One from each, for as long as there are any.
InTurn(removed, added) ==
    FlattenSeq([k \in 1 .. Larger(Len(removed), Len(added)) |->
        (IF k <= Len(removed) THEN <<removed[k]>> ELSE <<>>) \o
        (IF k <= Len(added) THEN <<added[k]>> ELSE <<>>)])

\* The fault of stopping at the end of the shorter run.
InterleavedShort(ops) ==
    LET from[i \in 1 .. Len(ops) + 1] ==
            IF i > Len(ops) THEN <<>>
            ELSE IF ops[i].kind # "remove" THEN <<ops[i]>> \o from[i + 1]
            ELSE LET r == RunEnd(ops, i, "remove")
                     a == RunEnd(ops, r, "add")
                     short == IF r - i < a - r THEN r - i ELSE a - r
                 IN  (IF a = r THEN SubSeq(ops, i, r - 1)
                      ELSE InTurn(SubSeq(ops, i, i + short - 1), SubSeq(ops, r, r + short - 1)))
                     \o from[a]
    IN  from[1]

Interleaved(ops) ==
    LET from[i \in 1 .. Len(ops) + 1] ==
            IF i > Len(ops) THEN <<>>
            ELSE IF ops[i].kind # "remove" THEN <<ops[i]>> \o from[i + 1]
            ELSE LET r == RunEnd(ops, i, "remove")
                     a == RunEnd(ops, r, "add")
                 IN  InTurn(SubSeq(ops, i, r - 1), SubSeq(ops, r, a - 1)) \o from[a]
    IN  from[1]

LineDiffOf(old, new) == Interleaved(Aligned(old, new))

Count(ops, kinds) == Cardinality({i \in DOMAIN ops : ops[i].kind \in kinds})

Hunk(old, oldCount, new, newCount) ==
    [mark |-> "@@", text |-> "hunk", old |-> old, new |-> new,
     oldCount |-> oldCount, newCount |-> newCount]

Meta(text) == [mark |-> "meta", text |-> text]
Marked(mark, text) == [mark |-> mark, text |-> text]

FormatDiffOp(op) ==
    Marked(CASE op.kind = "add" -> "+" [] op.kind = "remove" -> "-" [] OTHER -> " ", op.text)

FormatOps(ops) == [i \in DOMAIN ops |-> FormatDiffOp(ops[i])]

Headers == <<Meta("diff"), Meta("old"), Meta("new")>>

FullFileDiff(old, new) ==
    LET ops == LineDiffOf(old, new)
    IN  Headers \o <<Hunk(1, Count(ops, {"context", "remove"}), 1, Count(ops, {"context", "add"}))>>
                \o FormatOps(ops)

AddedFileDiff(new) ==
    Headers \o <<Hunk(0, 0, 1, Len(new))>> \o [i \in DOMAIN new |-> Marked("+", new[i])]

DeletedFileDiff(old) ==
    Headers \o <<Hunk(1, Len(old), 0, 0)>> \o [i \in DOMAIN old |-> Marked("-", old[i])]

-----------------------------------------------------------------------------
(* The browser *)

\* A removed line of dashes looks like the name of the old file.
IsMeta(raw) == raw.mark = "meta" \/ (raw.mark = "-" /\ raw.text = Dashed)

Parsed(kind, text, old, new) == [kind |-> kind, text |-> text, old |-> old, new |-> new]

After(number) == IF number = None THEN None ELSE number + 1

\* The fault of counting a removed line in the new file.
ParseLineOff(state, raw) ==
    CASE raw.mark = "@@" ->
            [out |-> Append(state.out, Parsed("hunk", raw.text, None, None)),
             old |-> raw.old, new |-> raw.new]
      [] IsMeta(raw) ->
            [state EXCEPT !.out = Append(@, Parsed("meta", raw.text, None, None))]
      [] raw.mark = "+" ->
            [state EXCEPT !.out = Append(@, Parsed("add", raw.text, None, state.new)),
                          !.new = @ + 1]
      [] raw.mark = "-" ->
            [state EXCEPT !.out = Append(@, Parsed("remove", raw.text, state.old, None)),
                          !.old = @ + 1, !.new = @ + 1]
      [] OTHER ->
            [out |-> Append(state.out, Parsed("context", raw.text, state.old, state.new)),
             old |-> After(state.old), new |-> After(state.new)]

ParseUnifiedLine(state, raw) ==
    CASE raw.mark = "@@" ->
            [out |-> Append(state.out, Parsed("hunk", raw.text, None, None)),
             old |-> raw.old, new |-> raw.new]
      [] raw.mark # "@@" /\ IsMeta(raw) ->
            [state EXCEPT !.out = Append(@, Parsed("meta", raw.text, None, None))]
      [] raw.mark = "+" ->
            [state EXCEPT !.out = Append(@, Parsed("add", raw.text, None, state.new)),
                          !.new = @ + 1]
      [] raw.mark = "-" /\ ~IsMeta(raw) ->
            [state EXCEPT !.out = Append(@, Parsed("remove", raw.text, state.old, None)),
                          !.old = @ + 1]
      [] raw.mark = " " ->
            [out |-> Append(state.out, Parsed("context", raw.text, state.old, state.new)),
             old |-> After(state.old), new |-> After(state.new)]

ParseLine(state, raw) == ParseUnifiedLine(state, raw)

\* Added and removed lines without text are left out.
ParseUnifiedDiff(raws) ==
    LET all == FoldLeft(ParseLine, [out |-> <<>>, old |-> 0, new |-> 0], raws).out
    IN  SelectSeq(all, LAMBDA line : line.text # Blank \/ line.kind = "context")

\* buildDiffStat.
DiffStat(raws) ==
    [additions |-> Cardinality({i \in DOMAIN raws : raws[i].mark = "+"}),
     deletions |-> Cardinality({i \in DOMAIN raws : raws[i].mark = "-" /\ ~IsMeta(raws[i])})]

-----------------------------------------------------------------------------
(* What they should be *)

LinesOf(ops, kinds) ==
    LET of == SelectSeq(ops, LAMBDA op : op.kind \in kinds)
    IN  [i \in DOMAIN of |-> of[i].text]

\* The number of lines in the longest sequence that both files contain.
LongestCommon(old, new) ==
    LET matchings == {m \in SUBSET {<<i, j>> \in (DOMAIN old) \X (DOMAIN new) : old[i] = new[j]} :
                        \A p, q \in m : p # q => \/ p[1] < q[1] /\ p[2] < q[2]
                                                 \/ q[1] < p[1] /\ q[2] < p[2]}
        sizes == {Cardinality(m) : m \in matchings}
    IN  CHOOSE n \in sizes : \A k \in sizes : k <= n

IsDiffOf(ops, old, new) ==
    /\ LinesOf(ops, {"context", "remove"}) = old
    /\ LinesOf(ops, {"context", "add"}) = new

-----------------------------------------------------------------------------
(* The view *)

-----------------------------------------------------------------------------
(* Blocks *)

Visible(lines) == SelectSeq(lines, LAMBDA line : line.kind \in {"context", "add", "remove"})

\* The side whose numbers label a block of this kind.
NumberOf(kind, line) == IF kind = "remove" THEN line.old ELSE line.new

\* lineLabelForLines: the first and the last number there is.
RowOf(kind, lines) ==
    LET numbers == SelectSeq([i \in DOMAIN lines |-> NumberOf(kind, lines[i])],
                             LAMBDA n : n # None)
    IN  [kind |-> kind,
         first |-> IF numbers = <<>> THEN None ELSE Head(numbers),
         last |-> IF numbers = <<>> THEN None ELSE Last(numbers),
         text |-> [i \in DOMAIN lines |-> lines[i].text]]

Least(set) == CHOOSE n \in set : \A m \in set : n <= m

\* collectFencedDiffBlock: up to the next fence, or to the end.
FenceEnd(lines, i) ==
    Least({k \in i + 1 .. Len(lines) : lines[k].text = Fence} \cup {Len(lines)})

\* collectMarkdownBlock: up to a blank line outside fences, or to another kind.
BlockEnd(lines, i) ==
    LET fences(k) == Cardinality({m \in i .. k : lines[m].text = Fence})
    IN  Least({k \in i .. Len(lines) :
                 \/ k = Len(lines) \/ lines[k + 1].kind # lines[i].kind
                 \/ lines[k].text = Blank /\ fences(k) % 2 = 0})

ChangeEnd(lines, i) ==
    Least({k \in i .. Len(lines) : k = Len(lines) \/ lines[k + 1].kind = "context"})

\* markdownRowsForChangedLines.
BlockRows(lines) ==
    LET from[i \in 1 .. Len(lines) + 1] ==
            IF i > Len(lines) THEN <<>>
            ELSE <<RowOf(lines[i].kind, SubSeq(lines, i, BlockEnd(lines, i)))>>
                 \o from[BlockEnd(lines, i) + 1]
    IN  from[1]

OfKind(lines, kinds) == SelectSeq(lines, LAMBDA line : line.kind \in kinds)

\* A fenced block with both kinds of change is shown twice, before and after.
FencedRows(lines) ==
    LET adds == OfKind(lines, {"add"})  removes == OfKind(lines, {"remove"})
    IN  IF adds # <<>> /\ removes # <<>>
        THEN <<RowOf("remove", OfKind(lines, {"context", "remove"})),
               RowOf("add", OfKind(lines, {"context", "add"}))>>
        ELSE <<RowOf(IF adds # <<>> THEN "add"
                     ELSE IF removes # <<>> THEN "remove" ELSE "context", lines)>>

Hollow(row) == \A i \in DOMAIN row.text : row.text[i] = Blank

WithText(rows) == SelectSeq(rows, LAMBDA row : ~Hollow(row))

\* buildRenderedDiffRows.
MarkdownRows(lines) ==
    LET visible == Visible(lines)
        from[i \in 1 .. Len(visible) + 1] ==
            IF i > Len(visible) THEN <<>>
            ELSE IF visible[i].text = Fence
            THEN FencedRows(SubSeq(visible, i, FenceEnd(visible, i)))
                 \o from[FenceEnd(visible, i) + 1]
            ELSE IF visible[i].kind = "context"
            THEN <<RowOf("context", SubSeq(visible, i, BlockEnd(visible, i)))>>
                 \o from[BlockEnd(visible, i) + 1]
            ELSE LET changed == SubSeq(visible, i, ChangeEnd(visible, i))
                 IN  BlockRows(OfKind(changed, {"remove"})) \o BlockRows(OfKind(changed, {"add"}))
                     \o from[ChangeEnd(visible, i) + 1]
    IN  WithText(from[1])

LineRows(lines) ==
    LET visible == Visible(lines)
    IN  [i \in DOMAIN visible |-> RowOf(visible[i].kind, <<visible[i]>>)]

\* buildRenderedHtmlRows: neighbours of one kind are one block, folds apart.
HtmlRows(rows) ==
    LET Merge(grouped, row) ==
            IF grouped = <<>> \/ row.kind = "gap" \/ Last(grouped).kind # row.kind
            THEN Append(grouped, row)
            ELSE LET numbers == {Last(grouped).first, row.first, Last(grouped).last, row.last}
                     merged == [Last(grouped) EXCEPT
                                  !.text = @ \o row.text,
                                  !.first = IF None \in numbers THEN @ ELSE Least(numbers),
                                  !.last = IF None \in numbers THEN @
                                           ELSE CHOOSE n \in numbers : \A m \in numbers : m <= n]
                 IN  Append(Front(grouped), merged)
    IN  WithText(FoldLeft(Merge, <<>>, rows))

-----------------------------------------------------------------------------
(* Folding *)

\* focusedIndexes.
Near(changed, radius) ==
    IF \A i \in DOMAIN changed : ~changed[i] THEN DOMAIN changed
    ELSE {i \in DOMAIN changed : \E k \in DOMAIN changed :
              changed[k] /\ i >= k - radius /\ i <= k + radius}

Gap(hidden) == [kind |-> "gap", first |-> None, last |-> None, text |-> <<"gap">>,
                hidden |-> hidden]

\* rowsWithGaps: a fold stands for the rows between two that are shown.
WithGaps(rows, included) ==
    LET shown == SetToSortSeq(included, <)
        before(k) == IF k = 1 THEN 0 ELSE shown[k - 1]
        gap(n) == IF n > 0 THEN <<Gap(n)>> ELSE <<>>
    IN  IF shown = <<>> THEN <<>>
        ELSE FlattenSeq([k \in DOMAIN shown |-> gap(shown[k] - before(k) - 1) \o <<rows[shown[k]]>>])
             \o gap(Len(rows) - Last(shown))

\* The fault of not folding what comes after the last change.
WithGapsBefore(rows, included) ==
    LET all == WithGaps(rows, included)
    IN  IF all # <<>> /\ Last(all).kind = "gap" THEN Front(all) ELSE all

Folded(rows, included) == WithGaps(rows, included)

Focused(rows, radius) ==
    LET changed == [i \in DOMAIN rows |-> rows[i].kind \notin {"context", "gap"}]
    IN  IF Near(changed, radius) = DOMAIN rows THEN rows ELSE Folded(rows, Near(changed, radius))

-----------------------------------------------------------------------------
(* Cards *)

Card(kind, before, after) == [kind |-> kind, before |-> before, after |-> after]

\* buildRenderedChangeCards: a removed block and the added one that follows it.
ChangeCards(rows) ==
    LET from[i \in 1 .. Len(rows) + 1] ==
            IF i > Len(rows) THEN <<>>
            ELSE IF rows[i].kind \in {"gap", "context"} THEN from[i + 1]
            ELSE IF rows[i].kind = "add"
            THEN <<Card("added", <<>>, <<rows[i]>>)>> \o from[i + 1]
            ELSE IF i < Len(rows) /\ rows[i + 1].kind = "add"
            THEN <<Card("changed", <<rows[i]>>, <<rows[i + 1]>>)>> \o from[i + 2]
            ELSE <<Card("removed", <<rows[i]>>, <<>>)>> \o from[i + 1]
    IN  from[1]

Cards(raws, renderKind) ==
    LET parsed == ParseUnifiedDiff(raws)
    IN  ChangeCards(IF renderKind = "markdown" THEN Focused(MarkdownRows(parsed), 1)
                    ELSE HtmlRows(Focused(LineRows(parsed), 1)))

\* renderedCommentLineRangeForCard: the new lines, or the old ones of a removal.
RangeOf(card) ==
    LET row == IF card.after # <<>> THEN card.after[1] ELSE card.before[1]
    IN  [side |-> IF card.after # <<>> THEN "new" ELSE "old",
         start |-> row.first, end |-> row.last]

\* The fault of numbering a removal like the rest.
RangeOnNew(card) == [RangeOf(card) EXCEPT !.side = "new"]

CardRange(card) == RangeOf(card)

\* hunkIdForDiffRange: the hunk of the first line in the range; 0: none.
HunkOf(raws, range) ==
    LET lines == ParseUnifiedDiff(raws)
        number(line) == IF range.side = "old" THEN line.old ELSE line.new
        inRange == {i \in DOMAIN lines : /\ number(lines[i]) # None
                                         /\ number(lines[i]) >= range.start
                                         /\ number(lines[i]) <= range.end}
        hunks == {i \in DOMAIN lines : lines[i].kind = "hunk"}
    IN  IF inRange = {} THEN 0
        ELSE Cardinality({h \in hunks : h < Least(inRange)})

NoRange == [start |-> Absent, end |-> Absent]

\* renderedChangeCardCommentDraft, as an input of NormalizeAnchor.
DraftOnCard(card) ==
    LET range == CardRange(card)
        lines == [start |-> range.start, end |-> range.end]
    IN  [surface |-> "diff", canonical |-> lines, rendered |-> NoRange,
         diff |-> [side |-> range.side,
                   old |-> IF range.side = "old" THEN lines ELSE NoRange,
                   new |-> IF range.side = "new" THEN lines ELSE NoRange]]

\* commentsForRenderedDiffLineRange, of a comment with this anchor.
ShownAt(card, anchor) ==
    LET range == CardRange(card)
        lines == IF range.side = "old" THEN anchor.diff.old ELSE anchor.diff.new
    IN  /\ anchor.surface # "source"
        /\ anchor.diff.side = range.side
        /\ lines.start # Absent
        /\ lines.start <= range.end /\ lines.end >= range.start

-----------------------------------------------------------------------------
(* What they should be *)

Textual(line) == line # Blank

\* The lines of a file in a range, without those that are blank.
LinesIn(file, row) ==
    SelectSeq(SubSeq(file, row.first, row.last), Textual)

SaysWhatTheFileSays(row, old, new) ==
    LET file == IF row.kind = "remove" THEN old ELSE new
    IN  /\ row.first .. row.last \subseteq DOMAIN file
        /\ SelectSeq(row.text, Textual) = LinesIn(file, row)

\* The changed lines that cards show, on one side.
OnCards(cards, side) ==
    LET rows == UNION {ToSet(IF side = "old" THEN cards[i].before ELSE cards[i].after)
                       : i \in DOMAIN cards}
    IN  UNION {row.first .. row.last : row \in rows}

=============================================================================
