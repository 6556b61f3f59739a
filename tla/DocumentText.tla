---------------------------- MODULE DocumentText ----------------------------
(***************************************************************************)
(* What the browser and the server read out of a document without          *)
(* rendering it: front matter (state/markdown-frontmatter.ts), the outline *)
(* and the ids of the headings (state/outline.ts and http-server.ts), the  *)
(* files that links lead to (state/workspace-links.ts and the preview's    *)
(* script), and the source lines of the blocks of a Markdown document,     *)
(* found by looking for the text of each token behind the last             *)
(* (state/markdown-comment-blocks.ts).                                     *)
(*                                                                         *)
(* A Markdown document is a sequence of lines, an HTML document a sequence *)
(* of headings.  A text, as an id, is a sequence of words.  Where source   *)
(* lines are looked for, a line is [indent, text]; a text has Width        *)
(* characters, a line ends with eol characters, the last line with none.   *)
(* The lexer's text of a token has its own line ends, of one character     *)
(* each.                                                                   *)
(***************************************************************************)
EXTENDS Integers, Sequences, FiniteSets, SequencesExt

CONSTANT NoId   \* no id, no file, no value

\* Numbers as words.
Digit(n) == <<"1", "2", "3", "4", "5", "6", "7", "8", "9">>[n]

FirstIn(S) == CHOOSE i \in S : \A j \in S : i <= j

-----------------------------------------------------------------------------
(* Front matter: dashes around values.                                        *)

IsFence(line) == line.is = "dashes"
TrimmedIsFence(line) == line.is \in {"dashes", "indented dashes"}

ClosingIndex(lines, Closes(_)) ==
    LET found == {k \in 2 .. Len(lines) : Closes(lines[k])}
    IN  IF found = {} THEN 0 ELSE FirstIn(found)

HasFrontMatter(lines) == lines # <<>> /\ IsFence(lines[1])
BlankAt(lines, k) == k \in DOMAIN lines /\ lines[k].is = "blank"

IsKey(line) == line.is \in {"key", "pair"}
IsNestedKey(line) == line.is \in {"nested key", "nested pair"}
NextKey(lines, k, Is(_)) ==
    LET later == {j \in k + 1 .. Len(lines) : Is(lines[j])}
    IN  IF later = {} THEN Len(lines) + 1 ELSE FirstIn(later)

\* The numbers of the lines of which something is shown: the items of a list, a text
\* as it is, or nested values, of two of one name the later.  What comes below a value
\* of its own is not shown.
ParseNestedValue(given) ==
    LET lines == SelectSeq(given, LAMBDA line : line.is # "blank")
        keys == {k \in DOMAIN lines : IsNestedKey(lines[k])}
        last == {k \in keys : \A l \in keys : lines[l].text = lines[k].text => l <= k}
        end == [k \in keys |-> IF lines[k].is = "nested pair" THEN k
                               ELSE NextKey(lines, k, IsNestedKey) - 1]
        shown == IF 1 \in keys THEN UNION {k .. end[k] : k \in last} ELSE DOMAIN lines
    IN  {lines[k].at : k \in shown}

\* A line that begins with "#" is a heading in the body.
IsComment(line) == line.is \in {"comment", "h1", "h2"}

\* Before the first key there is nothing but blank lines and comments.
ParseYamlLikeEntries(lines) ==
    LET keys == {k \in DOMAIN lines : IsKey(lines[k])}
        Below(k) == SubSeq(lines, k + 1, NextKey(lines, k, IsKey) - 1)
        ok == \A k \in 1 .. NextKey(lines, 0, IsKey) - 1 : lines[k].is = "blank" \/ IsComment(lines[k])
    IN  IF ok THEN [ok |-> TRUE,
                    shown |-> UNION {{lines[k].at} \cup
                                     (IF lines[k].is = "pair" THEN {} ELSE ParseNestedValue(Below(k))) :
                                     k \in keys}]
        ELSE [ok |-> FALSE, shown |-> {lines[k].at : k \in DOMAIN lines}]

\* The body, and what is shown of the front matter.
ParseMarkdownFrontMatter(lines) ==
    LET closing == ClosingIndex(lines, IsFence)
        after == IF BlankAt(lines, closing + 1) THEN closing + 2 ELSE closing + 1
        entries == ParseYamlLikeEntries(SubSeq(lines, 2, closing - 1))
    IN  CASE ~HasFrontMatter(lines) -> [status |-> "none", body |-> lines, shown |-> {}]
          [] HasFrontMatter(lines) /\ closing = 0 ->
                [status |-> "invalid", body |-> <<>>, shown |-> 2 .. Len(lines)]
          [] OTHER -> [status |-> IF entries.ok THEN "valid" ELSE "invalid",
                       body |-> SubSeq(lines, after, Len(lines)), shown |-> entries.shown]

\* The fault of counting the blank line to the body.
OffsetAtFence(lines) == IF HasFrontMatter(lines) THEN ClosingIndex(lines, IsFence) ELSE 0

\* How many lines come before the body.
MarkdownBodyLineOffset(lines) ==
    LET closing == ClosingIndex(lines, IsFence)
    IN  IF ~HasFrontMatter(lines) \/ closing = 0 THEN 0
        ELSE IF BlankAt(lines, closing + 1) THEN closing + 1 ELSE closing

-----------------------------------------------------------------------------
(* The outline and its ids.                                                   *)

\* Letters and digits make a slug; an ampersand is spelt out where it is escaped.
Slugify(text) == SelectSeq(text, LAMBDA word : word \notin {"!", "&"})
Escaped(text) == [k \in DOMAIN text |-> IF text[k] = "&" THEN "amp" ELSE text[k]]

CountOf(base, bases) == Cardinality({k \in DOMAIN bases : bases[k] = base})

\* The fault of not counting.
NotNumbered(base, bases) == base

Numbered(base, bases) ==
    IF CountOf(base, bases) = 0 THEN base
    ELSE base \o <<Digit(CountOf(base, bases) + 1)>>

NoOutline == [headings |-> <<>>, bases |-> <<>>]

AddHeading(outline, item) ==
    LET slug == Slugify(item.text)
        base == CASE item.id # NoId -> item.id
                  [] item.id = NoId /\ slug # <<>> -> slug
                  [] OTHER -> <<"heading", Digit(Len(outline.headings) + 1)>>
    IN  IF item.text = <<>> THEN outline
        ELSE [headings |-> Append(outline.headings,
                                  [id |-> Numbered(base, outline.bases), level |-> item.level,
                                   text |-> item.text, at |-> item.at]),
              bases |-> Append(outline.bases, base)]

ExtractPlainHeadingOutline(items) == FoldLeft(AddHeading, NoOutline, items).headings

LevelOf(line) == IF line.is = "h1" THEN 1 ELSE 2
HeadingOf(line) == [level |-> LevelOf(line), text |-> line.text, id |-> NoId, at |-> line.at]
IsHeadingLine(line) == line.is \in {"h1", "h2"}

\* The fault of reading the comments of the front matter.
StartAtTop(lines) == 1

MarkdownBodyStart(lines) ==
    LET closing == ClosingIndex(lines, TrimmedIsFence)
    IN  CASE lines = <<>> -> 1
          [] lines # <<>> /\ ~TrimmedIsFence(lines[1]) -> 1
          [] OTHER -> IF closing = 0 THEN Len(lines) + 1 ELSE closing + 1

ExtractMarkdownOutline(lines) ==
    LET front == ParseMarkdownFrontMatter(lines)
        headings == SelectSeq(SubSeq(lines, MarkdownBodyStart(lines), Len(lines)), IsHeadingLine)
    IN  IF front.status = "invalid" /\ front.body = <<>> THEN <<>>
        ELSE ExtractPlainHeadingOutline([k \in DOMAIN headings |-> HeadingOf(headings[k])])

\* The headings that marked makes of the lines: none in a code block, some in a quote,
\* and a paragraph that is underlined is one as well.
MarkedHeadings(lines) ==
    LET Step(parser, line) ==
            CASE parser.code -> [parser EXCEPT !.code = line.is # "ticks"]
              [] ~parser.code /\ line.is = "ticks" -> [parser EXCEPT !.code = TRUE, !.open = <<>>]
              [] ~parser.code /\ IsHeadingLine(line) ->
                    [parser EXCEPT !.open = <<>>, !.found = Append(@, HeadingOf(line))]
              [] ~parser.code /\ line.is = "quoted" ->
                    [parser EXCEPT !.open = <<>>, !.found = Append(@, [HeadingOf(line) EXCEPT !.level = 1])]
              [] ~parser.code /\ TrimmedIsFence(line) ->
                    [parser EXCEPT !.open = <<>>,
                        !.found = IF parser.open = <<>> THEN @ ELSE Append(@, HeadingOf(parser.open[1]))]
              [] ~parser.code /\ line.is = "blank" -> [parser EXCEPT !.open = <<>>]
              [] OTHER -> [parser EXCEPT !.open = IF @ = <<>> THEN <<line>> ELSE @]
    IN  FoldLeft(Step, [code |-> FALSE, open |-> <<>>, found |-> <<>>], lines).found

\* The n-th heading is given the n-th id.
RenderMarkdownHtmlWithHeadingIds(headings, outline) ==
    [k \in DOMAIN headings |->
        IF k <= Len(outline) /\ outline[k].level = headings[k].level
        THEN [headings[k] EXCEPT !.id = outline[k].id] ELSE headings[k]]

RenderMarkdownDocumentHtml(lines) ==
    LET body == ParseMarkdownFrontMatter(lines).body
    IN  RenderMarkdownHtmlWithHeadingIds(MarkedHeadings(body), ExtractMarkdownOutline(body))

-----------------------------------------------------------------------------
(* HTML: a heading goes on to the next end tag of its level.                  *)

HeadingSpans(items) ==
    LET from[i \in 1 .. Len(items) + 1] ==
            IF i > Len(items) THEN <<>>
            ELSE LET ends == {j \in i .. Len(items) : items[j].closed /\ items[j].level = items[i].level}
                 IN  IF ends = {} THEN from[i + 1]
                     ELSE <<[first |-> i, last |-> FirstIn(ends)]>> \o from[FirstIn(ends) + 1]
    IN  from[1]

SpanText(items, span) == FlattenSeq([k \in 1 .. span.last - span.first + 1 |-> items[span.first + k - 1].text])

ExtractHtmlOutline(items) ==
    LET spans == HeadingSpans(items)
    IN  ExtractPlainHeadingOutline(
            [k \in DOMAIN spans |->
                LET first == items[spans[k].first]
                IN  [level |-> first.level, id |-> first.id, at |-> spans[k].first,
                     text |-> Escaped(SpanText(items, spans[k]))]])

\* The server leaves ids alone, and does not count them.
AddHtmlHeadingIds(items) ==
    LET Give(given, span) ==
            LET slug == Slugify(SpanText(items, span))
                base == IF slug = <<>>
                        THEN <<"heading", Digit(Cardinality(ToSet(given.bases)) + 1)>> ELSE slug
            IN  IF items[span.first].id # NoId THEN given
                ELSE [ids |-> [given.ids EXCEPT ![span.first] = Numbered(base, given.bases)],
                      bases |-> Append(given.bases, base)]
    IN  FoldLeft(Give, [ids |-> [k \in DOMAIN items |-> items[k].id], bases |-> <<>>],
                 HeadingSpans(items)).ids

\* The fault of stopping at the first.
FirstAbove(positions, threshold) ==
    LET above == {k \in DOMAIN positions : positions[k].top <= threshold}
    IN  CASE positions = <<>> -> NoId
          [] positions # <<>> /\ above = {} -> positions[1].id
          [] OTHER -> positions[FirstIn(above)].id

\* The heading that is read: the last above the threshold, or the first.
ActiveOutlineHeadingId(positions, threshold) ==
    LET above == {k \in DOMAIN positions : positions[k].top <= threshold}
    IN  CASE positions = <<>> -> NoId
          [] positions # <<>> /\ above = {} -> positions[1].id
          [] OTHER -> positions[CHOOSE k \in above : \A l \in above : l <= k].id

-----------------------------------------------------------------------------
(* Links.  An escaped "#" in a name is one segment, "%23".                    *)

Parent(path) == IF path = <<>> THEN <<>> ELSE Front(path)

\* The fault of resolving at the file itself.
BesideTheFile(path) == path

DirectoryOf(path) == Parent(path)

NormalizeWorkspacePath(segments) ==
    LET Go(path, segment) ==
            CASE path = NoId \/ segment \in {"", "."} -> path
              [] path # NoId /\ segment = ".." -> IF path = <<>> THEN NoId ELSE Front(path)
              [] OTHER -> Append(path, segment)
        path == FoldLeft(Go, <<>>, segments)
    IN  IF path = <<>> THEN NoId ELSE path

\* A link in Markdown and, by a copy of the same rules, in the preview's script.
ResolveWorkspaceLink(current, href) ==
    CASE href.scheme \/ href.segments = <<>> -> NoId
      [] ~href.scheme /\ href.segments # <<>> /\ href.root -> NormalizeWorkspacePath(href.segments)
      [] OTHER -> NormalizeWorkspacePath(DirectoryOf(current) \o href.segments)

\* What the server is asked for: the names once more escaped.
Decoded(segment) == IF segment = "%23" THEN "#" ELSE segment
WorkspaceImageUrl(current, href) == ResolveWorkspaceLink(current, href)

\* The base of a preview, where the browser resolves what the page asks for; it does
\* not go above the server's root, and what is not below /preview/raw is no file.
PreviewRoot == <<"preview", "raw">>
WithPreviewBase(current) == PreviewRoot \o Parent(current)

PreviewResource(current, href) ==
    LET Go(path, segment) ==
            CASE segment \in {"", "."} -> path
              [] segment = ".." -> IF path = <<>> THEN path ELSE Front(path)
              [] OTHER -> Append(path, segment)
        url == FoldLeft(Go, IF href.root THEN <<>> ELSE WithPreviewBase(current), href.segments)
        below == SubSeq(url, 3, Len(url))
    IN  IF href.scheme \/ href.segments = <<>> \/ ~IsPrefix(PreviewRoot, url) \/ below = <<>>
        THEN NoId ELSE [k \in DOMAIN below |-> Decoded(below[k])]

-----------------------------------------------------------------------------
(* Source lines of Markdown blocks *)

Width == 3
Nothing == "nothing"    \* the text of a blank line
LengthOf(line) == IF line.text = Nothing THEN 0 ELSE line.indent + Width

\* Where the lines of the source begin.
StartsOf(source) ==
    LET start[k \in 1 .. Len(source.lines)] ==
            IF k = 1 THEN 0 ELSE start[k - 1] + LengthOf(source.lines[k - 1]) + source.eol
    IN  start

LineNumberOf(source, offset) ==
    Cardinality({k \in DOMAIN source.lines : source.start[k] <= offset} \cup {1})

RawLength(raw) ==
    FoldLeft(LAMBDA sum, line : sum + LengthOf(line), 0, raw.lines) +
    (IF raw.lines = <<>> THEN 0 ELSE Len(raw.lines) - 1) + raw.ends

\* The text begins anywhere in its first line, and goes on with whole lines.
FoundAt(source, raw, k) ==
    LET last == k + Len(raw.lines) - 1
        first == raw.lines[1]
    IN  /\ last <= Len(source.lines)
        /\ source.lines[k].text = first.text /\ source.lines[k].indent >= first.indent
        /\ \A j \in 2 .. Len(raw.lines) : source.lines[k + j - 1] = raw.lines[j]
        /\ source.eol = 1 \/ (Len(raw.lines) = 1 /\ raw.ends = 0)
        /\ raw.ends > 0 => last < Len(source.lines)
        /\ raw.ends > 1 => source.lines[last + 1].text = Nothing

OffsetAt(source, raw, k) == source.start[k] + source.lines[k].indent - raw.lines[1].indent

\* The fault of looking from the beginning.
FromTheBeginning(source, raw, cursor) ==
    LET found == {OffsetAt(source, raw, k) : k \in {k \in DOMAIN source.lines : FoundAt(source, raw, k)}}
    IN  IF raw.lines = <<>> \/ found = {} THEN cursor ELSE CHOOSE o \in found : \A p \in found : o <= p

\* Where it is not found it is taken to be at the cursor; blank lines are.
FindTokenStart(source, raw, cursor) ==
    LET places == {k \in DOMAIN source.lines : FoundAt(source, raw, k)}
        found == {o \in {OffsetAt(source, raw, k) : k \in places} : o >= cursor}
    IN  IF raw.lines = <<>> \/ found = {} THEN cursor ELSE CHOOSE o \in found : \A p \in found : o <= p

\* The lines from the first character to the last that is not a line break.
RangeForOffsets(source, start, end) ==
    LET In(k) == source.start[k] + LengthOf(source.lines[k])
        texts == {k \in DOMAIN source.lines : source.lines[k].text # Nothing /\ source.start[k] < end}
        last == IF texts = {} THEN start
                ELSE LET k == CHOOSE k \in texts : \A l \in texts : l <= k
                     IN  (IF In(k) <= end THEN In(k) ELSE end) - 1
    IN  [start |-> LineNumberOf(source, start),
         end |-> LineNumberOf(source, IF last < start THEN start ELSE last)]

-----------------------------------------------------------------------------
(* Lists.  An item is a line and those that are deeper below it; the lexer    *)
(* takes the indentation off before it reads the items in an item.           *)

Deeper(items, k) ==
    LET after == {j \in k + 1 .. Len(items) : items[j].indent <= items[k].indent}
    IN  (IF after = {} THEN Len(items) + 1 ELSE CHOOSE j \in after : \A l \in after : j <= l) - 1

Outdented(items) == [k \in DOMAIN items |-> [items[k] EXCEPT !.indent = @ - items[1].indent]]

\* The items of a list: where each begins and ends.
ItemsOf(items) ==
    LET from[k \in 1 .. Len(items) + 1] ==
            IF k > Len(items) THEN <<>>
            ELSE <<[first |-> k, last |-> Deeper(items, k)]>> \o from[Deeper(items, k) + 1]
    IN  from[1]

ItemRaw(items, item) ==
    [lines |-> Outdented(SubSeq(items, item.first, item.last)),
     ends |-> IF item.last = Len(items) THEN 0 ELSE 1]

\* The ranges of all the items, in the order of their lines.
RECURSIVE AssignListItemRanges(_, _, _)
AssignListItemRanges(source, items, listStart) ==
    LET Assign(done, item) ==
            LET raw == ItemRaw(items, item)
                start == FindTokenStart(source, raw, done.cursor)
                end == start + RawLength(raw)
                nested == SubSeq(items, item.first + 1, item.last)
                list == [lines |-> Outdented(nested), ends |-> 0]
                below == IF nested = <<>> THEN <<>>
                         ELSE AssignListItemRanges(source, nested, FindTokenStart(source, list, start))
            IN  [cursor |-> IF end > done.cursor THEN end ELSE done.cursor,
                 ranges |-> done.ranges \o <<RangeForOffsets(source, start, end)>> \o below]
    IN  FoldLeft(Assign, [cursor |-> listStart, ranges |-> <<>>], ItemsOf(items)).ranges

-----------------------------------------------------------------------------
(* Documents: blocks, each with the lines it has and whether a blank line     *)
(* follows.                                                                   *)

LinesOfBlocks(blocks) ==
    FlattenSeq([b \in DOMAIN blocks |->
        blocks[b].lines \o (IF blocks[b].blank THEN <<[indent |-> 0, text |-> Nothing]>> ELSE <<>>)])

SourceOf(blocks, eol) ==
    LET source == [lines |-> LinesOfBlocks(blocks), eol |-> eol]
    IN  [lines |-> source.lines, eol |-> eol, start |-> StartsOf(source)]

\* What marked makes of the line ends behind a block: they belong to a heading and to
\* code, and to others only without a blank line, which is a token of its own.
TokensOfBlocks(blocks) ==
    LET Raw(b) ==
            CASE b = Len(blocks) -> [lines |-> blocks[b].lines, ends |-> 0]
              [] b < Len(blocks) /\ blocks[b].kind \in {"heading", "code"} ->
                    [lines |-> blocks[b].lines, ends |-> IF blocks[b].blank THEN 2 ELSE 1]
              [] OTHER -> [lines |-> blocks[b].lines, ends |-> IF blocks[b].blank THEN 0 ELSE 1]
        Space(b) == IF Raw(b).ends = 0 /\ blocks[b].blank
                    THEN <<[block |-> 0, raw |-> [lines |-> <<>>, ends |-> 2]]>> ELSE <<>>
    IN  FlattenSeq([b \in DOMAIN blocks |-> <<[block |-> b, raw |-> Raw(b)]>> \o Space(b)])

\* A table has a range for each of its lines but the second.
TableRowRanges(first, lines) ==
    [k \in 1 .. lines - 1 |->
        LET line == IF k = 1 THEN first ELSE first + k
        IN  [start |-> line, end |-> line]]

RangesOf(source, block, start, end) ==
    LET range == RangeForOffsets(source, start, end)
    IN  CASE block.kind = "list" -> AssignListItemRanges(source, block.lines, start)
          [] block.kind = "table" -> TableRowRanges(range.start, Len(block.lines))
          [] OTHER -> <<range>>

\* The ranges that the rendered blocks are given, before the lines above the body are
\* added.
AssignTokenRanges(blocks, eol) ==
    LET source == SourceOf(blocks, eol)
        Assign(done, token) ==
            LET start == FindTokenStart(source, token.raw, done.cursor)
                end == start + RawLength(token.raw)
            IN  [cursor |-> IF end > done.cursor THEN end ELSE done.cursor,
                 ranges |-> IF token.block = 0 THEN done.ranges
                            ELSE done.ranges \o RangesOf(source, blocks[token.block], start, end)]
    IN  FoldLeft(Assign, [cursor |-> 0, ranges |-> <<>>], TokensOfBlocks(blocks)).ranges

=============================================================================
