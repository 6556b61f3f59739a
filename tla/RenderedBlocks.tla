--------------------------- MODULE RenderedBlocks ---------------------------
(***************************************************************************)
(* The blocks of a rendered page that can be commented: how the server and *)
(* the browser number them and find their source lines (domain/rendered-   *)
(* comment-blocks.ts), how the Markdown viewer (state/rendered-comment-    *)
(* blocks.ts) and the script in an HTML preview (http-server.ts) find the  *)
(* blocks of a comment again, and where the cards with comments are put    *)
(* beside them: the thread of a rendered block (state/rendered-comment-    *)
(* position.ts), the card of a published comment (InlineCommentCard) and   *)
(* the composer for selected text (SelectionCommentComposer).  Lengths are *)
(* whole pixels.                                                           *)
(*                                                                         *)
(* A document is a forest of elements in the order of their opening tags,  *)
(* some of them without an end tag; breaks are the tags that begin a line. *)
(* Each element has its own text, one word.                                *)
(***************************************************************************)
EXTENDS Integers, Sequences, FiniteSets, SequencesExt

CONSTANT NoBlocks   \* no lines, no block, no text: what a comment does not have

-----------------------------------------------------------------------------
(* Documents *)

Elements(doc) == DOMAIN doc.tags
Void == {"img"}
RawText == {"script", "comment"}     \* their content is not markup
Hidden == RawText \cup {"template"}  \* nor is it on the page

\* The element and what it is in, the innermost first.
PathOf(parents) ==
    LET path[i \in 0 .. Len(parents)] ==
            IF i = 0 THEN <<>> ELSE <<i>> \o path[parents[i]]
    IN  path

Encloses(doc, outer, inner) == outer \in ToSet(doc.path[inner])
Children(doc, i) == {j \in Elements(doc) : doc.parents[j] = i}

\* The document's tags in their order.
TokensOf(doc) ==
    LET path == PathOf(doc.parents)
        ended == doc.unended \cup {i \in Elements(doc) : doc.tags[i] \in Void}
        Next(i) == IF i = Len(doc.tags) THEN 0 ELSE i + 1
        Closed(i) == SelectSeq(path[i], LAMBDA j : j \notin ToSet(path[Next(i)]) /\ j \notin ended)
    IN  FlattenSeq([i \in Elements(doc) |->
            <<[opens |-> TRUE, of |-> i]>> \o
            [k \in DOMAIN Closed(i) |-> [opens |-> FALSE, of |-> Closed(i)[k]]]])

\* A document with its tags and paths.
Written(doc) ==
    [tags |-> doc.tags, parents |-> doc.parents, breaks |-> doc.breaks, texts |-> doc.texts,
     path |-> PathOf(doc.parents), tokens |-> TokensOf(doc)]

TokenLine(doc, k) == 1 + Cardinality({b \in doc.breaks : b <= k})
LineBefore(doc, k) == TokenLine(doc, k) - Cardinality({k} \cap doc.breaks)

-----------------------------------------------------------------------------
(* Parsing.  The server counts lines with a cursor that only moves on: two    *)
(* steps for each tag, the character before it and the tag itself.           *)

RenderedCommentBlockTags == {"p", "a", "section", "li", "tr"}
BlockOpening == RenderedCommentBlockTags \cup {"div", "ul", "table"}

Begun == [stack |-> <<>>, template |-> 0, raw |-> NoBlocks, blocks |-> <<>>, cursor |-> 0]

At(k) == 2 * k
JustBefore(k) == 2 * k - 1

LineOf(doc, step) ==
    IF step % 2 = 0 THEN TokenLine(doc, step \div 2) ELSE LineBefore(doc, (step + 1) \div 2)

\* The fault of answering before moving on.
LineBehind(doc, parser, step) == LineOf(doc, IF parser.cursor = 0 THEN step ELSE parser.cursor)

\* The line counter's answer; the steps it has passed are not seen again.
LineAt(doc, parser, step) == LineOf(doc, IF step < parser.cursor THEN parser.cursor ELSE step)
Asked(parser, step) == [parser EXCEPT !.cursor = IF step < @ THEN @ ELSE step]

LineNumberAt(doc, parser, step) == LineOf(doc, step)

Popped(parser, from, line) ==
    LET gone == {parser.stack[i].block : i \in from .. Len(parser.stack)}
    IN  [parser EXCEPT
            !.stack = SubSeq(@, 1, from - 1),
            !.blocks = [b \in DOMAIN @ |-> IF b \in gone THEN [@[b] EXCEPT !.end = line] ELSE @[b]]]

FindLastOpen(parser, tags) == SelectLastInSeq(parser.stack, LAMBDA open : open.tag \in tags)

CloseOpenElements(parser, tag, line) ==
    LET match == FindLastOpen(parser, {tag})
    IN  IF match = 0 THEN parser ELSE Popped(parser, match, line)

\* The fault of forgetting the list that the item is in.
ClosePeerAnywhere(parser, peer, containers, line) ==
    LET item == FindLastOpen(parser, {peer})
    IN  IF item > 0 THEN Popped(parser, item, line) ELSE parser

ClosePeerWithinContainer(parser, peer, containers, line) ==
    LET item == FindLastOpen(parser, {peer})
    IN  IF item > FindLastOpen(parser, containers) THEN Popped(parser, item, line) ELSE parser

AutoCloseOptionalElements(parser, tag, line) ==
    LET inParagraph == parser.stack # <<>> /\ Last(parser.stack).tag = "p"
        closed == IF inParagraph /\ tag \in BlockOpening
                  THEN CloseOpenElements(parser, "p", line) ELSE parser
    IN  CASE tag = "li" -> ClosePeerWithinContainer(closed, "li", {"ul"}, line)
          [] tag = "tr" -> ClosePeerWithinContainer(closed, "tr", {"table"}, line)
          [] OTHER -> closed

OpenTag(doc, Line(_, _, _), parser, k) ==
    LET tag == doc.tags[doc.tokens[k].of]
        before == AutoCloseOptionalElements(parser, tag, Line(doc, parser, JustBefore(k)))
        isBlock == tag \in RenderedCommentBlockTags /\ parser.template = 0
        line == Line(doc, Asked(before, JustBefore(k)), At(k))
        index == IF isBlock THEN Len(before.blocks) + 1 ELSE 0
    IN  [before EXCEPT
            !.template = IF tag = "template" THEN @ + 1 ELSE @,
            !.raw = IF tag \in RawText THEN tag ELSE @,
            !.blocks = IF isBlock
                       THEN Append(@, [element |-> doc.tokens[k].of, start |-> line, end |-> line])
                       ELSE @,
            !.stack = IF tag \in Void \cup {"comment"} THEN @
                      ELSE Append(@, [tag |-> tag, block |-> index]),
            !.cursor = Asked(parser, IF isBlock THEN At(k) ELSE JustBefore(k)).cursor]

CloseTag(doc, Line(_, _, _), parser, k) ==
    LET tag == doc.tags[doc.tokens[k].of]
        closed == CloseOpenElements(parser, tag, Line(doc, parser, At(k)))
    IN  [Asked(closed, At(k)) EXCEPT
            !.template = IF tag = "template" /\ @ > 0 THEN @ - 1 ELSE @,
            !.raw = IF tag = @ THEN NoBlocks ELSE @]

ParseTag(doc, Line(_, _, _), parser, k) ==
    LET token == doc.tokens[k]
    IN  IF parser.raw # NoBlocks /\ (token.opens \/ doc.tags[token.of] # parser.raw) THEN parser
        ELSE IF token.opens THEN OpenTag(doc, Line, parser, k)
        ELSE IF parser.raw = "comment" THEN [parser EXCEPT !.raw = NoBlocks]
        ELSE CloseTag(doc, Line, parser, k)

\* What is open at the end lasts to the end.
Parse(doc, Line(_, _, _)) ==
    LET all == Len(doc.tokens)
        parsed == FoldLeft(LAMBDA parser, k : ParseTag(doc, Line, parser, k), Begun,
                           [k \in 1 .. all |-> k])
    IN  Popped(parsed, 1, TokenLine(doc, all)).blocks

ParseRenderedCommentBlocks(doc) == Parse(doc, LineAt)
RenderedCommentBlocksForHtml(doc) == Parse(doc, LineNumberAt)

-----------------------------------------------------------------------------
(* The page: the elements that are blocks, by their number and lines.         *)

WithIds(blocks) ==
    LET shown == {blocks[b].element : b \in DOMAIN blocks}
    IN  [i \in shown |-> LET b == CHOOSE b \in DOMAIN blocks : blocks[b].element = i
                         IN  [id |-> b, start |-> blocks[b].start, end |-> blocks[b].end]]

AddRenderedCommentBlockIdsToHtml(doc) == WithIds(ParseRenderedCommentBlocks(doc))

Page(doc, viewer) ==
    [doc |-> doc, viewer |-> viewer, blocks |-> AddRenderedCommentBlockIdsToHtml(doc)]

InOrder(S) == SetToSortSeq(S, <)
FirstOf(S) == InOrder(S)[1]

\* What the block says, without what is not on the page.
ReadableBlockText(page, i) ==
    LET doc == page.doc
        Said(j) == /\ Encloses(doc, i, j)
                   /\ \A k \in ToSet(doc.path[j]) : doc.tags[k] \notin Hidden
        said == InOrder({j \in Elements(doc) : Said(j)})
    IN  [k \in DOMAIN said |-> doc.texts[said[k]]]

Includes(text, quote) ==
    \E from \in 1 .. Len(text) - Len(quote) + 1 : SubSeq(text, from, from + Len(quote) - 1) = quote

LayoutContainerBlockTags == {"section"}

IsLayoutContainerBlock(page, i) ==
    /\ page.doc.tags[i] \in LayoutContainerBlockTags
    /\ \E j \in DOMAIN page.blocks : j # i /\ Encloses(page.doc, i, j)

\* In the Markdown viewer every block can be commented.
CommentableRenderedBlocks(page) == DOMAIN page.blocks
CommentableBlocks(page) == {i \in DOMAIN page.blocks : ~IsLayoutContainerBlock(page, i)}

Commentable(page) ==
    IF page.viewer = "html" THEN CommentableBlocks(page) ELSE CommentableRenderedBlocks(page)

ClosestOf(page, i, blocks) ==
    LET around == SelectSeq(page.doc.path[i], LAMBDA j : j \in blocks)
    IN  IF around = <<>> THEN NoBlocks ELSE around[1]

ClosestRenderedCommentBlock(page, i) == ClosestOf(page, i, CommentableRenderedBlocks(page))
ClosestBlock(page, i) == ClosestOf(page, i, CommentableBlocks(page))

Closest(page, i) ==
    IF page.viewer = "html" THEN ClosestBlock(page, i) ELSE ClosestRenderedCommentBlock(page, i)

RenderedCommentSourceRange(page, blocks) ==
    [start |-> page.blocks[FirstOf(blocks)].start,
     end |-> page.blocks[Last(InOrder(blocks))].end]

\* What a new comment on the blocks says of its place.
TargetForRenderedCommentBlocks(page, blocks) ==
    [block |-> page.blocks[FirstOf(blocks)].id, selector |-> FirstOf(blocks),
     lines |-> RenderedCommentSourceRange(page, blocks),
     quote |-> IF Cardinality(blocks) = 1 THEN ReadableBlockText(page, FirstOf(blocks))
               ELSE NoBlocks]

-----------------------------------------------------------------------------
(* Finding the blocks of a comment.                                           *)

BlocksForRenderedSourceRange(page, comment) ==
    IF comment.lines = NoBlocks THEN {}
    ELSE {i \in Commentable(page) : /\ page.blocks[i].start <= comment.lines.end
                                    /\ page.blocks[i].end >= comment.lines.start}

\* The fault of showing what is inside the block as well.
ProjectsAlways(page, closest, blocks) == Cardinality(blocks) > 1 /\ closest \in blocks

ShouldProjectSourceRange(page, closest, blocks) ==
    /\ Cardinality(blocks) > 1 /\ closest \in blocks
    /\ \E i \in blocks \ {closest} : ~Encloses(page.doc, closest, i)

BlockByNumber(page, id) == {i \in Commentable(page) : page.blocks[i].id = id}

BySelector(page, comment) ==
    IF comment.selector = NoBlocks THEN NoBlocks
    ELSE ClosestOf(page, comment.selector, DOMAIN page.blocks)

ByQuote(page, comment) ==
    LET says == {i \in DOMAIN page.blocks : Includes(ReadableBlockText(page, i), comment.quote)}
    IN  IF comment.quote = NoBlocks \/ says = {} THEN {} ELSE {FirstOf(says)}

FindBlocksForRenderedComment(page, comment) ==
    LET byRange == BlocksForRenderedSourceRange(page, comment)
        numbered == BlockByNumber(page, comment.block)
        manyLines == comment.lines # NoBlocks /\ comment.lines.end > comment.lines.start
        selected == BySelector(page, comment)
    IN  CASE numbered # {} ->
                IF manyLines /\ ShouldProjectSourceRange(page, FirstOf(numbered), byRange)
                THEN byRange ELSE numbered
          [] numbered = {} /\ selected # NoBlocks -> {selected}
          [] numbered = {} /\ selected = NoBlocks /\ byRange # {} -> byRange
          [] OTHER -> ByQuote(page, comment)

-----------------------------------------------------------------------------
(* Highlights: the comment that a click on the block opens, and the one whose *)
(* marker it has.  They are taken from the commentable blocks before they are *)
(* set anew.                                                                  *)

NoHighlight == [comment |-> NoBlocks, marker |-> NoBlocks]
NoHighlights(page) == [i \in DOMAIN page.blocks |-> NoHighlight]

\* The fault of leaving what is not replaced.
KeptHighlights(page, highlights) == highlights

ClearedHighlights(page, highlights) ==
    [i \in DOMAIN highlights |-> IF i \in Commentable(page) THEN NoHighlight ELSE highlights[i]]

\* The fault of a marker on each block.
MarkerOnEach(found) == found

MarkerBlocks(found) == IF found = {} THEN {} ELSE {Last(InOrder(found))}
FirstComment(S) == IF S = {} THEN NoBlocks ELSE FirstOf(S)

ApplyHighlights(page, highlights, comments) ==
    LET found == [c \in DOMAIN comments |-> FindBlocksForRenderedComment(page, comments[c])]
        cleared == ClearedHighlights(page, highlights)
        On(i) == {c \in DOMAIN comments : i \in found[c]}
        Marked(i) == {c \in On(i) : i \in MarkerBlocks(found[c])}
    IN  [i \in DOMAIN highlights |->
            IF On(i) = {} THEN cleared[i]
            ELSE [comment |-> FirstComment(On(i)), marker |-> FirstComment(Marked(i))]]

\* The preview's markers open their own comment, those of Markdown that of the block.
MarkerOpens(page, highlight) ==
    IF page.viewer = "html" THEN highlight.marker ELSE highlight.comment

-----------------------------------------------------------------------------
(* The places of the cards *)

Minimum(a, b) == IF a <= b THEN a ELSE b
Maximum(a, b) == IF a >= b THEN a ELSE b
Clamp(value, least, most) == Minimum(Maximum(value, least), most)

Right(rect) == rect.left + rect.width
Bottom(rect) == rect.top + rect.height

Between(left, top, right, bottom) ==
    [left |-> left, top |-> top, width |-> Maximum(0, right - left),
     height |-> Maximum(0, bottom - top)]

\* A place with lists of conditions: the first that holds decides.
Placed(rect, placement) == [rect |-> rect, placement |-> placement]
Rect(left, top, width, height) ==
    [left |-> left, top |-> top, width |-> width, height |-> height]

-----------------------------------------------------------------------------
(* The thread of a rendered block, between the margins of the viewer.         *)

\* The viewer without its toolbar, and what the window shows of it.
RenderedCommentContentBounds(container, toolbar) ==
    LET top == Minimum(Bottom(container), Maximum(container.top, Bottom(toolbar)))
    IN  Between(container.left, top, Right(container), Bottom(container))

IntersectionBounds(container, viewport) ==
    LET left == Clamp(container.left, 0, viewport.width)
        top == Clamp(container.top, 0, viewport.height)
    IN  Between(left, top, Clamp(Right(container), left, viewport.width),
                Clamp(Bottom(container), top, viewport.height))

ThreadMargin == 16
ThreadGap == 12
LeastWidth == 300
LeastHeight == 180

\* The fault of the other side of the two.
RoomAboveIsBelow(anchor, bounds) == anchor.top - ThreadGap - (bounds.top + ThreadMargin)

RoomBelow(anchor, bounds) == Bottom(bounds) - ThreadMargin - (Bottom(anchor) + ThreadGap)
RoomAbove(anchor, bounds) == anchor.top - ThreadGap - (bounds.top + ThreadMargin)

PositionRenderedCommentThread(anchor, viewport, container, card) ==
    LET bounds == IntersectionBounds(container, viewport)
        availableWidth == Maximum(0, bounds.width - 2 * ThreadMargin)
        availableHeight == Maximum(0, bounds.height - 2 * ThreadMargin)
        width == Minimum(Maximum(LeastWidth, card.width), availableWidth)
        height == Minimum(Maximum(LeastHeight, card.height), availableHeight)
        leftmost == bounds.left + ThreadMargin
        topmost == bounds.top + ThreadMargin
        bottom == Bottom(bounds) - ThreadMargin
        beside == Clamp(anchor.top - 16, topmost, Maximum(topmost, bottom - height))
        narrow == Minimum(width, Maximum(Minimum(LeastWidth, availableWidth),
                                        (72 * availableWidth) \div 100))
        left == Clamp(Right(anchor) - narrow, leftmost,
                      Maximum(leftmost, Right(bounds) - ThreadMargin - narrow))
        below == RoomBelow(anchor, bounds)
        above == RoomAbove(anchor, bounds)
        usable == Minimum(LeastHeight, height)
        inUpperHalf == 2 * anchor.top + anchor.height <= 2 * bounds.top + bounds.height
        fits == [right |-> Right(anchor) + ThreadGap + width <= Right(bounds) - ThreadMargin,
                 left |-> anchor.left - ThreadGap - width >= leftmost]
        lower == Maximum(0, Minimum(height, below))
        upper == Maximum(0, Minimum(height, above))
    IN  CASE fits.right -> Placed(Rect(Right(anchor) + ThreadGap, beside, width, height), "right")
          [] ~fits.right /\ fits.left ->
                Placed(Rect(anchor.left - ThreadGap - width, beside, width, height), "left")
          [] ~fits.right /\ ~fits.left /\ Maximum(below, above) < usable ->
                Placed(Rect(left, IF inUpperHalf THEN bottom - height ELSE topmost, narrow, height),
                       "overlay")
          [] ~fits.right /\ ~fits.left /\ Maximum(below, above) >= usable /\
             (below >= usable \/ below >= above) ->
                Placed(Rect(left, Bottom(anchor) + ThreadGap, narrow, lower), "below")
          [] OTHER -> Placed(Rect(left, anchor.top - ThreadGap - upper, narrow, upper), "above")

-----------------------------------------------------------------------------
(* The card of a published comment and the composer, in the window.           *)

CardMargin == 12
CardGap == 12

FitsBeside(left, width, viewport) == left + width + CardMargin <= viewport.width

\* As far down, or right, as the card may begin.
LastPlace(room, size) == Maximum(CardMargin, room - size - CardMargin)

\* The fault of keeping the lower edge only.
NotBelow(value, room, size) == Minimum(value, LastPlace(room, size))

Onto(value, room, size) == Clamp(value, CardMargin, LastPlace(room, size))

PositionInlineCommentCard(anchor, viewport, card) ==
    LET right == Right(anchor) + CardGap
        left == anchor.left - card.width - CardGap
        beside == Onto(anchor.top - 10, viewport.height, card.height)
        inside == Onto(anchor.left, viewport.width, card.width)
        below == Bottom(anchor) + CardGap
        room == viewport.height - below - CardMargin
    IN  CASE FitsBeside(right, card.width, viewport) ->
                Placed(Rect(right, beside, card.width, card.height), "right")
          [] ~FitsBeside(right, card.width, viewport) /\ left >= CardMargin ->
                Placed(Rect(left, beside, card.width, card.height), "left")
          [] ~FitsBeside(right, card.width, viewport) /\ left < CardMargin /\
             room >= Minimum(card.height, 120) ->
                Placed(Rect(inside, below, card.width, Minimum(card.height, room)), "below")
          [] OTHER ->
                Placed(Rect(inside, Onto(anchor.top - card.height - CardGap, viewport.height,
                                         card.height), card.width, card.height), "above")

\* Only rendered text has its composer beside it.
PositionComposer(anchor, viewport, card, rendered) ==
    LET right == Right(anchor) + 16
        inside == Onto(anchor.left, viewport.width, card.width)
        below == Bottom(anchor) + 10
        above == anchor.top - card.height - 10
        takesBelow == below + card.height + CardMargin <= viewport.height \/ above < CardMargin
        top == Onto(IF takesBelow THEN below ELSE above, viewport.height, card.height)
    IN  IF rendered /\ FitsBeside(right, card.width, viewport)
        THEN Placed(Rect(right, Onto(anchor.top - 8, viewport.height, card.height),
                         card.width, card.height), "right")
        ELSE Placed(Rect(inside, top, card.width, card.height),
                    IF takesBelow THEN "below" ELSE "above")

=============================================================================
