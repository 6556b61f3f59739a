--------------------------- MODULE DocumentRules ----------------------------
(***************************************************************************)
(* Small documents, and what must hold of the way they are rendered,       *)
(* commented and listed and of what is read out of them: front matter,     *)
(* outline, source lines and links.                                        *)
(***************************************************************************)
EXTENDS NodeRules, RenderedBlocks, DocumentText

CONSTANT MaxElements   \* of a document

-----------------------------------------------------------------------------
(* Inputs *)

\* What an element may contain; a script or a comment may contain what looks like it.
Content ==
    [root |-> {"p", "section", "div", "ul", "table", "template", "script", "comment"},
     section |-> {"p", "section", "a", "ul"}, div |-> {"p", "section"},
     p |-> {"a", "img"}, a |-> {"img"}, img |-> {},
     ul |-> {"li"}, li |-> {"p", "ul", "a"}, table |-> {"tr"}, tr |-> {"p"},
     template |-> {"p", "ul"}, script |-> {"p"}, comment |-> {"p", "section"}]

TagOf(tags, i) == IF i = 0 THEN "root" ELSE tags[i]

\* An element is in the one before it, or in something that contains that one.
Around(parents) ==
    LET around[i \in 0 .. Len(parents)] ==
            IF i = 0 THEN {0} ELSE {i} \cup around[parents[i]]
    IN  around

RECURSIVE Forests(_)
Forests(n) ==
    IF n = 0 THEN {[tags |-> <<>>, parents |-> <<>>]}
    ELSE UNION {{[tags |-> Append(f.tags, tag), parents |-> Append(f.parents, p)] :
                    tag \in Content[TagOf(f.tags, p)]} : <<f, p>> \in
               {<<f, p>> \in Forests(n - 1) \X (0 .. n - 1) : p \in Around(f.parents)[n - 1]}}

\* The end tags that HTML lets an author leave out.
MayBeUnended(f, i) ==
    LET parent == f.parents[i]
        later == {j \in i + 1 .. Len(f.tags) : f.parents[j] = parent}
        next == f.tags[CHOOSE j \in later : \A k \in later : j <= k]
    IN  /\ TagOf(f.tags, parent) \notin {"a", "comment", "script"}
        /\ CASE f.tags[i] = "p" -> later = {} \/ next \in {"p", "section", "div", "ul", "table"}
             [] f.tags[i] \in {"li", "tr"} -> later = {} \/ next = f.tags[i]
             [] OTHER -> FALSE

\* Every element may begin a line, as may every end tag.
Breaks(n) ==
    IF n < MaxElements THEN SUBSET (2 .. 2 * n) ELSE {2 .. 2 * n, {3, 4}, {2, 5, 7}}

SomeDocument(P(_)) ==
    \E n \in 1 .. MaxElements : \E f \in Forests(n), breaks \in Breaks(n) :
        \E unended \in SUBSET {i \in 1 .. n : MayBeUnended(f, i)} :
            P(Written([tags |-> f.tags, parents |-> f.parents, breaks |-> breaks,
                       unended |-> unended, texts |-> [i \in 1 .. n |-> i % 2]]))

APage(doc) == input = [what |-> "page", doc |-> doc]

\* A comment, of a single block or of lines, from this version of the document,
\* from another, or from its source.
SomeComments(n) ==
    [block : {NoBlocks} \cup 1 .. n, selector : {NoBlocks} \cup 1 .. n,
     lines : {NoBlocks, [start |-> 1, end |-> 1], [start |-> 1, end |-> 2]},
     quote : {NoBlocks, <<1>>}]

AMarkedPage(doc) ==
    /\ Len(doc.tags) < MaxElements /\ doc.breaks = 2 .. 2 * Len(doc.tags)
    /\ \E viewer \in {"markdown", "html"} :
        \E comments \in BoundedSeq(SomeComments(Len(doc.tags)), 1) :
            input = [what |-> "marks", viewer |-> viewer, doc |-> doc, comments |-> comments]

\* A window, a viewer in it with a toolbar, and text that begins in the viewer.
Windows == {[width |-> 400, height |-> 300], [width |-> 900, height |-> 700],
            [width |-> 1300, height |-> 900]}
TextRects == [left : {90, 300, 640}, top : {100, 260, 560}, width : {40, 200, 500},
             height : {20, 160, 480}]

APlace ==
    \E viewport \in Windows, anchor \in TextRects, card \in {"thread", "card", "composer"},
      rendered \in BOOLEAN, height \in {100, 300, 430}, toolbar \in {0, 54} :
        /\ anchor.left < viewport.width - 20 /\ anchor.top < viewport.height
        /\ input = [what |-> "place", viewport |-> viewport, anchor |-> anchor, card |-> card,
                    rendered |-> rendered, height |-> height, toolbar |-> toolbar]

DocumentInput == SomeDocument(APage) \/ SomeDocument(AMarkedPage) \/ APlace

MarksOn(page, comments) == ApplyHighlights(page, NoHighlights(page), comments)
Marks(comments) == MarksOn(Page(input.doc, input.viewer), comments)

Viewer ==
    LET inset == [left |-> 80, top |-> 40, width |-> input.viewport.width - 100,
                  height |-> input.viewport.height - 60]
    IN  RenderedCommentContentBounds(inset, [inset EXCEPT !.height = input.toolbar])

Place ==
    LET card == [width |-> 340, height |-> input.height]
    IN  CASE input.card = "thread" ->
                PositionRenderedCommentThread(input.anchor, input.viewport, Viewer,
                                              [card EXCEPT !.width = 520])
          [] input.card = "card" -> PositionInlineCommentCard(input.anchor, input.viewport, card)
          [] OTHER -> PositionComposer(input.anchor, input.viewport, card, input.rendered)

DocumentAnswer ==
    CASE input.what = "page" ->
            [server |-> ParseRenderedCommentBlocks(input.doc),
             browser |-> RenderedCommentBlocksForHtml(input.doc)]
      [] input.what = "marks" -> Marks(input.comments)
      [] input.what = "place" -> Place
      [] OTHER -> NodeAnswer

-----------------------------------------------------------------------------
(* Properties *)

\* What is shown of a document: nothing inside a template, a script or a comment.
OnThePage(doc) ==
    {i \in Elements(doc) : \A j \in ToSet(doc.path[i]) \ {i} : doc.tags[j] \notin Hidden}

\* An element lasts to its end tag; without one, to the line before its sibling,
\* to the end tag of what it is in, or to the end of the file.
Span(doc, i) ==
    LET tokens == doc.tokens
        Where(opens) == {k \in DOMAIN tokens : tokens[k].opens = opens /\ tokens[k].of = i}
        opening == CHOOSE k \in Where(TRUE) : TRUE
        after == {k \in opening + 1 .. Len(tokens) : ~Encloses(doc, i, tokens[k].of)}
        next == CHOOSE k \in after : \A l \in after : k <= l
        end == CASE Where(FALSE) # {} -> TokenLine(doc, CHOOSE k \in Where(FALSE) : TRUE)
                 [] Where(FALSE) = {} /\ after = {} -> TokenLine(doc, Len(tokens))
                 [] OTHER -> IF tokens[next].opens THEN LineBefore(doc, next)
                             ELSE TokenLine(doc, next)
    IN  [element |-> i, start |-> TokenLine(doc, opening), end |-> end]

\* A link ends the paragraph it is in, as far as the server can see.
LinksAreNotInParagraphs(doc) ==
    \A i \in OnThePage(doc) : doc.tags[i] = "a" => TagOf(doc.tags, doc.parents[i]) # "p"

BlocksAreElements ==
    Of("page") =>
        LET blocks == InOrder({i \in OnThePage(input.doc) :
                                   input.doc.tags[i] \in RenderedCommentBlockTags})
        IN  answer.server = [b \in DOMAIN blocks |-> Span(input.doc, blocks[b])]

\* The lines that a block is given are those of its element, whatever is nested in it,
\* left open, or only looks like markup.
BlocksKnowTheirLines ==
    Of("page") /\ LinksAreNotInParagraphs(input.doc) => BlocksAreElements

\* The browser's own count of the blocks is the server's.
BothSidesCountAlike == Of("page") => answer.server = answer.browser

\* A comment on a block is shown on it, and on others only with lines in common.
ShownWhereItBelongs(page, i, shown) ==
    /\ i \in shown
    /\ \A j \in shown \ {i} :
          /\ page.blocks[j].start <= page.blocks[i].end
          /\ page.blocks[i].start <= page.blocks[j].end
    /\ \/ shown = {i}
       \/ /\ page.blocks[i].end > page.blocks[i].start
          /\ \E j \in shown : ~Encloses(page.doc, i, j)

EachReturns(page) ==
    \A i \in Commentable(page) :
        ShownWhereItBelongs(page, i,
            FindBlocksForRenderedComment(page, TargetForRenderedCommentBlocks(page, {i})))

CommentsReturnToTheirBlock ==
    Of("page") => \A viewer \in {"markdown", "html"} : EachReturns(Page(input.doc, viewer))

\* When the comments go, their highlights go, unless the preview's script put one on
\* a container that it offers no comments on.
HighlightsGoWithTheirComment ==
    Of("marks") =>
        LET page == Page(input.doc, input.viewer)
            ours == {i \in DOMAIN answer : answer[i] = NoHighlight \/ i \in Commentable(page)}
        IN  \A i \in ours : ApplyHighlights(page, answer, <<>>)[i] = NoHighlight

\* A comment that has a place has one marker, and the marker opens it.
EachMarkerOpens(page) ==
    \A c \in DOMAIN input.comments :
        LET found == FindBlocksForRenderedComment(page, input.comments[c])
            marked == {i \in DOMAIN answer : MarkerOpens(page, answer[i]) = c /\ answer[i].marker # NoBlocks}
        IN  found # {} => Cardinality(marked) = 1 /\ marked \subseteq found

MarkersOpenTheirComment == Of("marks") => EachMarkerOpens(Page(input.doc, input.viewer))

Covers(rect, anchor) ==
    /\ rect.left < Right(anchor) /\ anchor.left < Right(rect)
    /\ rect.top < Bottom(anchor) /\ anchor.top < Bottom(rect)

Inside(rect, bounds) ==
    /\ bounds.left <= rect.left /\ Right(rect) <= Right(bounds)
    /\ bounds.top <= rect.top /\ Bottom(rect) <= Bottom(bounds)

Screen == Rect(0, 0, input.viewport.width, input.viewport.height)
Bounds == IF input.card = "thread" THEN IntersectionBounds(Viewer, input.viewport) ELSE Screen

\* A card is on the screen whenever it could be, and a thread always high enough to be
\* used.
CardsAreInView ==
    Of("place") =>
        LET visible == Covers(input.anchor, Bounds)
            couldBe == /\ answer.rect.width + 2 * CardMargin <= Bounds.width
                       /\ answer.rect.height + 2 * CardMargin <= Bounds.height
        IN  /\ visible /\ couldBe => Inside(answer.rect, Bounds)
            /\ input.card = "thread" =>
                  answer.rect.height >= Minimum(LeastHeight, Bounds.height - 2 * ThreadMargin)

\* The room that a card needs beside, below and above the text: a thread and a card
\* may be made lower, a composer may not.
Needs ==
    CASE input.card = "thread" ->
            [beside |-> Minimum(520, Bounds.width - 2 * ThreadMargin) + ThreadGap + ThreadMargin,
             below |-> LeastHeight + ThreadGap + ThreadMargin,
             above |-> LeastHeight + ThreadGap + ThreadMargin]
      [] input.card = "card" ->
            [beside |-> answer.rect.width + CardGap + CardMargin,
             below |-> Minimum(input.height, 120) + CardGap + CardMargin,
             above |-> input.height + CardGap + CardMargin]
      [] OTHER ->
            [beside |-> IF input.rendered THEN answer.rect.width + 16 + CardMargin ELSE 9999,
             below |-> input.height + 10 + CardMargin, above |-> input.height + 10 + CardMargin]

\* A card covers the text it is about only when there is no room beside, above or
\* below it.
CardsLeaveTheTextVisible ==
    Of("place") /\ Covers(answer.rect, input.anchor) =>
        /\ Right(Bounds) - Right(input.anchor) < Needs.beside
        /\ input.card = "composer" \/ input.anchor.left - Bounds.left < Needs.beside
        /\ Bottom(Bounds) - Bottom(input.anchor) < Needs.below
        /\ input.anchor.top - Bounds.top < Needs.above

-----------------------------------------------------------------------------
(* Documents as they are read *)

-----------------------------------------------------------------------------
(* Inputs *)

Line(is, text) == [is |-> is, text |-> text]
A == <<"a">>

FrontLines ==
    {Line(is, A) : is \in {"pair", "key", "nested key", "nested pair", "item", "comment", "blank", "text"}}
    \cup {Line("nested pair", <<"b">>)}

\* Front matter of a few lines and the begin of a body.
FrontDocuments ==
    {<<Line("dashes", A)>> \o raw \o <<Line("dashes", A)>> \o body :
        raw \in BoundedSeq(FrontLines, 3),
        body \in {<<>>, <<Line("text", A)>>, <<Line("blank", A), Line("text", A)>>,
                  <<Line("blank", A), Line("blank", A), Line("h1", A)>>}}

OutlineLines ==
    {Line(is, A) : is \in {"h1", "h2", "text", "blank", "dashes", "indented dashes", "ticks", "quoted"}}
    \cup {Line("h1", <<"a", "2">>)}

At1(lines) == [k \in DOMAIN lines |-> [is |-> lines[k].is, text |-> lines[k].text, at |-> k]]

\* HTML headings, some with an id of their own, some without an end tag.
HtmlHeadings ==
    BoundedSeq([level : 1 .. 2, text : {<<>>, A, <<"!">>, <<"a", "&">>}, id : {NoId, A},
                closed : BOOLEAN], 3) \ {<<>>}

\* Blocks of text, and lists of items up to two levels deep.
Block(kind, texts) ==
    [kind |-> kind, lines |-> [k \in DOMAIN texts |-> [indent |-> 0, text |-> texts[k]]]]

TextBlocks ==
    {Block("heading", <<"#a">>), Block("paragraph", <<"a">>), Block("paragraph", <<"b">>),
     Block("paragraph", <<"a", "b">>), Block("code", <<"code", "a", "code">>),
     Block("table", <<"|a", "|-", "|a">>)}

Depths == {<<0>>, <<0, 0>>, <<0, 2>>, <<0, 0, 0>>, <<0, 0, 2>>, <<0, 2, 0>>, <<0, 2, 2>>, <<0, 2, 4>>}
Lists ==
    UNION {{[kind |-> "list", lines |-> [k \in DOMAIN depths |-> [indent |-> depths[k], text |-> texts[k]]]] :
               texts \in [DOMAIN depths -> {"-a", "-b"}]} : depths \in Depths}

\* Without a blank line between them some blocks would be one.
MayTouch(block, next) == {block.kind, next.kind} \cap {"heading", "code"} # {} /\ next.kind # "table"

SomeMarkdown(P(_)) ==
    \E blocks \in BoundedSeq(TextBlocks, 3) \cup
                  {before \o <<list>> \o after : before \in BoundedSeq(TextBlocks, 1), list \in Lists,
                                                 after \in BoundedSeq(TextBlocks, 1)} :
        \E blank \in [DOMAIN blocks -> BOOLEAN] :
            /\ blocks # <<>>
            /\ \A b \in DOMAIN blocks :
                  IF b = Len(blocks) THEN ~blank[b]
                  ELSE blank[b] \/ MayTouch(blocks[b], blocks[b + 1])
            /\ P([b \in DOMAIN blocks |-> [kind |-> blocks[b].kind, lines |-> blocks[b].lines,
                                           blank |-> blank[b]]])

Hrefs == [root : BOOLEAN, scheme : BOOLEAN,
          segments : BoundedSeq({"..", ".", "n", "%23"}, 3)]

ReadingInput ==
    \/ \E lines \in FrontDocuments \cup BoundedSeq(OutlineLines, 4) :
          lines # <<>> /\ input = [what |-> "lines", lines |-> At1(lines)]
    \/ \E items \in HtmlHeadings : input = [what |-> "headings", items |-> items]
    \/ \E eol \in 1 .. 2 : SomeMarkdown(LAMBDA blocks : input = [what |-> "blocks", blocks |-> blocks, eol |-> eol])
    \/ \E current \in {<<"f">>, <<"d", "f">>}, href \in Hrefs :
          input = [what |-> "link", current |-> current, href |-> href]

ReadingAnswer ==
    CASE input.what = "lines" ->
            [outline |-> ExtractMarkdownOutline(input.lines),
             headings |-> RenderMarkdownDocumentHtml(input.lines)]
      [] input.what = "headings" ->
            [outline |-> ExtractHtmlOutline(input.items), ids |-> AddHtmlHeadingIds(input.items)]
      [] input.what = "blocks" -> AssignTokenRanges(input.blocks, input.eol)
      [] input.what = "link" ->
            [opened |-> ResolveWorkspaceLink(input.current, input.href),
             image |-> WorkspaceImageUrl(input.current, input.href),
             resource |-> PreviewResource(input.current, input.href)]
      [] OTHER -> DocumentAnswer

-----------------------------------------------------------------------------
(* Properties *)

\* Every line of a Markdown document is in the panel above it or, at its own line, in
\* the body, unless it is blank, a comment or a fence, comes below a value of its own,
\* or a later value has its name.
Dropped(lines, k) ==
    LET owner == {j \in 1 .. k - 1 : lines[j].is \in {"pair", "key", "nested pair"}}
    IN  \/ lines[k].is \in {"blank", "dashes"} \/ IsComment(lines[k])
        \/ \E j \in owner : lines[j].is # "key"
        \/ \E j \in k .. Len(lines) : lines[j].is \in {"nested pair", "nested key"}

MarkdownIsShownWhole ==
    Of("lines") =>
        LET lines == input.lines
            front == ParseMarkdownFrontMatter(lines)
            offset == MarkdownBodyLineOffset(lines)
        IN  /\ \A k \in DOMAIN front.body : front.body[k].at = offset + k
            /\ \A k \in DOMAIN lines :
                  k \in front.shown \/ k \in {line.at : line \in ToSet(front.body)} \/ Dropped(lines, k)

\* Lines of which the outline's rules and Markdown's say the same: no code, quotes or
\* underlined paragraphs, and no heading that ends like a number given to another.
PlainLines(lines) ==
    \A k \in DOMAIN lines :
        /\ lines[k].is \notin {"ticks", "quoted", "indented dashes"}
        /\ lines[k].is = "dashes" /\ k > 1 => k = ClosingIndex(lines, IsFence) /\ HasFrontMatter(lines)
        /\ lines[k].text = A

LeadsTo(entry, headings) ==
    \E k \in DOMAIN headings :
        /\ headings[k].id = entry.id /\ headings[k].at = entry.at
        /\ \A j \in 1 .. k - 1 : headings[j].id # entry.id

\* Each entry of the outline leads to the heading it names.
OutlineLeadsToHeadings ==
    Of("lines") => \A k \in DOMAIN answer.outline : LeadsTo(answer.outline[k], answer.headings)

PlainOutlineLeadsToHeadings ==
    Of("lines") /\ PlainLines(input.lines) => OutlineLeadsToHeadings

\* HTML headings without ids, entities or names that make no id.
PlainHeadings(items) ==
    \A k \in DOMAIN items : items[k].id = NoId /\ items[k].text \in {<<>>, A}

\* The browser's outline and the ids that the server gives agree, although each makes
\* its own.
BothSidesNameHeadings ==
    Of("headings") /\ PlainHeadings(input.items) =>
        \A k \in DOMAIN answer.outline :
            LET entry == answer.outline[k]
            IN  {j \in DOMAIN answer.ids : answer.ids[j] = entry.id} = {entry.at}

\* As the reader scrolls, the heading marked in the outline is the last that has passed
\* the upper edge.
ActiveHeadingIsTheOneRead ==
    Of("lines") /\ PlainLines(input.lines) =>
        \A passed \in 1 .. Len(answer.outline) :
            LET positions == [k \in DOMAIN answer.outline |->
                                 [id |-> answer.outline[k].id, top |-> 200 * (k - passed)]]
            IN  ActiveOutlineHeadingId(positions, 96) = answer.headings[passed].id

\* The lines of the blocks as they are in the file.
LastLine(items, k) == Deeper(items, k)
TrueRanges(blocks) ==
    LET first[b \in DOMAIN blocks] ==
            IF b = 1 THEN 1
            ELSE first[b - 1] + Len(blocks[b - 1].lines) + (IF blocks[b - 1].blank THEN 1 ELSE 0)
        Of1(b) ==
            LET lines == blocks[b].lines
            IN  CASE blocks[b].kind = "list" ->
                        [k \in DOMAIN lines |-> [start |-> first[b] + k - 1,
                                                 end |-> first[b] + LastLine(lines, k) - 1]]
                  [] blocks[b].kind = "table" ->
                        <<[start |-> first[b], end |-> first[b]], [start |-> first[b] + 2, end |-> first[b] + 2]>>
                  [] OTHER -> <<[start |-> first[b], end |-> first[b] + Len(lines) - 1]>>
    IN  FlattenSeq([b \in DOMAIN blocks |-> Of1(b)])

MarkdownBlocksKnowTheirLines == Of("blocks") => answer = TrueRanges(input.blocks)

\* Items that are found where they are: those in others have none below, and none says
\* what a line before it in the same item says.
PlainLists(blocks) ==
    \A b \in DOMAIN blocks : blocks[b].kind = "list" =>
        \A k \in DOMAIN blocks[b].lines :
            LET lines == blocks[b].lines
            IN  lines[k].indent > 0 =>
                    /\ Deeper(lines, k) = k
                    /\ \A j \in 1 .. k - 1 : lines[j].text # lines[k].text

\* In a file with plain line ends every block knows the lines it was written in.
PlainBlocksKnowTheirLines ==
    Of("blocks") /\ input.eol = 1 /\ PlainLists(input.blocks) => MarkdownBlocksKnowTheirLines

\* A link to a place inside the workspace leads to the same file in Markdown, where the
\* browser resolves it, in a preview, where its base does, and for an image; unless it
\* begins at the root or escapes a letter that paths may not have.
LinksLeadToTheSameFile ==
    Of("link") /\ ~input.href.root /\ "%23" \notin ToSet(input.href.segments) /\ answer.opened # NoId =>
        /\ answer.resource = answer.opened /\ answer.image = answer.opened

=============================================================================
