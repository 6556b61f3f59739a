----------------------------- MODULE SourceLines -----------------------------
(***************************************************************************)
(* The lines of a source file and the cards below them: how clicks, drags    *)
(* and keys on lines, numbers and markers open, hide and start comments      *)
(* (SourceCommentSurface.tsx, with the threads of state/comments.ts and the   *)
(* ranges of state/code-viewer.ts).                                          *)
(*                                                                         *)
(* A click comes after the press and the release of the button it is on; a   *)
(* gesture that has started a comment lets it pass (quiet), until a timer.    *)
(***************************************************************************)
EXTENDS Integers, Sequences, FiniteSets, SequencesExt

CONSTANTS MaxLine,        \* bound: lines of the file
          Saved,          \* the saved threads that may appear, a sequence of their places
          MaxGestures,    \* bound: what the reader does
          MaxTyped,       \* bound: typed comments
          NoLines, NoPress    \* model values

ASSUME LinesAssumption ==
    /\ MaxLine \in Nat \ {0} /\ MaxTyped \in Nat
    /\ Saved \in Seq([start : 1 .. MaxLine, end : 1 .. MaxLine, surface : {"source", "rendered"}])
    /\ \A i \in DOMAIN Saved : Saved[i].start <= Saved[i].end

VARIABLES
    length,         \* lines of the file as it is
    lineThreads,        \* the threads there are
    typing,         \* the typed comments of the file, oldest first: open, or collapsed
    expanded,       \* expandedThreads: the threads that were opened
    chosen,         \* the selected lines
    anchorLine,     \* where a selection begins; 0 if nowhere
    activeKey,      \* the thread of the active comment; 0 if there is none
    press,          \* the button of a line that is held down
    clickDue,       \* the button that a click is still to come for
    quiet,          \* suppressLineClickRef
    promised,       \* history: lines of the comment that the last gesture started
    meant,          \* history: the lines that the last click with Shift meant
    gestures        \* how much the reader did

sourceVars == <<length, lineThreads, typing, expanded, chosen, anchorLine, activeKey, press, clickDue,
                quiet, promised, meant, gestures>>

Line == 1 .. MaxLine
Buttons == {"marker", "number"}

\* normalizeLineRange.
ClampLine(l) == IF l < 1 THEN 1 ELSE IF l > length THEN length ELSE l
NormalizeLineRange(a, b) ==
    LET safeA == ClampLine(a)
        safeB == ClampLine(b)
    IN  IF safeA <= safeB THEN [start |-> safeA, end |-> safeB] ELSE [start |-> safeB, end |-> safeA]
RangeOf(x) == [start |-> x.start, end |-> x.end]
SameRange(a, b) == RangeOf(a) = RangeOf(b)
Holds(range, l) == l \in range.start .. range.end

-----------------------------------------------------------------------------
(* Threads and cards *)

\* codeCommentThreads: by the line they end at, then by where they begin.
IsBefore(a, b) ==
    \/ a.end < b.end
    \/ a.end = b.end /\ a.start < b.start
    \/ a.end = b.end /\ a.start = b.start /\ a.key < b.key
First(ts) == CHOOSE t \in ts : \A u \in ts \ {t} : IsBefore(t, u)
LastOf(ts) == CHOOSE t \in ts : \A u \in ts \ {t} : IsBefore(u, t)

\* draftPreviewThreadsForSurface and matchingDraftPreviewThread.
Previews(range) == {t \in lineThreads : t.draft /\ t.surface = "source" /\ SameRange(t, range)}

\* sourceDraftThreadForSession: where an open comment shows in the file as it is.
OpenTyping == {input \in ToSet(typing) : ~input.collapsed}
\* (The fault of looking where it was written.)
WrittenAt(input) == RangeOf(input)
PlaceOf(input) == NormalizeLineRange(input.start, input.end)

\* The threads that are visible: those that typed comments add to, else those that were opened;
\* and the active one.
MatchingExpanded(item) ==
    LET same == {t \in lineThreads : SameRange(t, item)}
    IN  IF \E t \in lineThreads : t.key = item.key THEN item.key
        ELSE IF same # {} THEN First(same).key ELSE item.key
VisibleThreadKeys ==
    {activeKey} \cup
    IF OpenTyping # {}
    THEN {First(Previews(PlaceOf(input))).key : input \in {i \in OpenTyping : Previews(PlaceOf(i)) # {}}}
    ELSE {MatchingExpanded(item) : item \in expanded}

DisplayedThreads(l) == {t \in lineThreads : t.key \in VisibleThreadKeys /\ t.end = l}

\* Of the open ones, the first that holds a line and adds to no draft has the line; its
\* composer is below the last line of its own.
HasLine(input, l) == ~input.collapsed /\ Previews(PlaceOf(input)) = {} /\ Holds(PlaceOf(input), l)
TypedAt(l) == SelectInSeq(typing, LAMBDA input : HasLine(input, l))
Composer(l) ==
    LET k == TypedAt(l) IN IF k # 0 /\ PlaceOf(typing[k]).end = l THEN k ELSE 0

ThreadOpen(l) == DisplayedThreads(l) # {} \/ Composer(l) # 0

\* What the marker of a line is for.
RowThreads(l) == {t \in lineThreads : t.end = l}
Preferred(ts) ==
    IF \E t \in ts : t.key = activeKey THEN CHOOSE t \in ts : t.key = activeKey ELSE First(ts)
ActionThreads(l) ==
    LET one == IF DisplayedThreads(l) # {} THEN First(DisplayedThreads(l)) ELSE Preferred(RowThreads(l))
    IN  IF RowThreads(l) = {} THEN {} ELSE {t \in RowThreads(l) : t.surface = one.surface}
ContainingThreads(l) == {t \in lineThreads : Holds(t, l)}

-----------------------------------------------------------------------------
(* What a gesture does *)

\* startRangeComment: the comment of the lines is typed on, or begun; all else is closed.
\* (The fault of beginning it again.)
EnterAgain(inputs, range) == Append(inputs, [start |-> range.start, end |-> range.end, collapsed |-> FALSE])
EnterRange(inputs, range) ==
    IF \E i \in DOMAIN inputs : SameRange(inputs[i], range)
    THEN [i \in DOMAIN inputs |-> IF SameRange(inputs[i], range)
                                  THEN [inputs[i] EXCEPT !.collapsed = FALSE] ELSE inputs[i]]
    ELSE Append(inputs, [start |-> range.start, end |-> range.end, collapsed |-> FALSE])
StartRangeComment(range) ==
    LET at == NormalizeLineRange(range.start, range.end)
    IN  /\ Len(EnterRange(typing, at)) <= MaxTyped
        /\ typing' = EnterRange(typing, at) /\ promised' = at
        /\ expanded' = {} /\ anchorLine' = at.start /\ chosen' = at /\ activeKey' = 0

\* (The click that ends a gesture takes back nothing that the gesture promised.)
StillPromised == IF clickDue # NoPress THEN promised ELSE NoLines

\* startLineComment: on the selected lines, if they end here.
StartLineComment(l) ==
    LET selected == IF chosen = NoLines THEN NoLines ELSE NormalizeLineRange(chosen.start, chosen.end)
    IN  StartRangeComment(IF selected # NoLines /\ selected.end = l THEN selected ELSE [start |-> l, end |-> l])

\* What is remembered of a thread that was opened.
ItemOf(t) == [key |-> t.key, start |-> t.start, end |-> t.end]

\* (The fault of opening one thread instead of the other.)
ReplaceExpanded(items, ts) == {ItemOf(LastOf(ts))}

\* openCommentThread, of several one after the other.
AddExpanded(items, ts) == items \cup {ItemOf(t) : t \in {u \in ts : \A item \in items : item.key # u.key}}
OpenCommentThreads(ts) ==
    LET last == LastOf(ts)
    IN  /\ expanded' = AddExpanded(expanded, ts) /\ activeKey' = last.key /\ chosen' = RangeOf(last)
        /\ UNCHANGED <<typing, anchorLine>> /\ promised' = StillPromised

\* (The fault of not telling that the active comment is closed.)
ActiveStays == activeKey
ActiveAfterClose == 0

\* closeCommentThread, of several: typed comments of the same lines are collapsed.
CloseCommentThreads(cards) ==
    LET Closes(x) == \E card \in cards : SameRange(card, x)
        IsOf(input) == \E card \in cards : card.own = RangeOf(input)
    IN  /\ typing' = [i \in DOMAIN typing |->
                         [typing[i] EXCEPT !.collapsed = @ \/ Closes(typing[i]) \/ IsOf(typing[i])]]
        /\ expanded' = {item \in expanded : ~Closes(item) /\ \A card \in cards : item.key # card.key}
        /\ chosen' = NoLines /\ activeKey' = ActiveAfterClose /\ promised' = StillPromised
        /\ UNCHANGED anchorLine

\* The cards below a line; the composer of a typed comment is known by the comment's own lines.
LineCard(key, place, own) == [key |-> key, start |-> place.start, end |-> place.end, own |-> own]
LineCards(l) ==
    {LineCard(t.key, t, NoLines) : t \in DisplayedThreads(l)} \cup
    (IF Composer(l) = 0 THEN {}
     ELSE LET input == typing[Composer(l)] IN {LineCard(0, PlaceOf(input), RangeOf(input))})

ClickOnMarker(l) ==
    IF ThreadOpen(l) THEN CloseCommentThreads(LineCards(l))
    ELSE IF ActionThreads(l) = {} THEN StartLineComment(l)
    ELSE OpenCommentThreads(ActionThreads(l))

\* selectLine.
SelectLine(l, shift) ==
    /\ chosen' = IF shift /\ anchorLine # 0 THEN NormalizeLineRange(anchorLine, l) ELSE NormalizeLineRange(l, l)
    /\ anchorLine' = IF shift /\ anchorLine # 0 THEN anchorLine ELSE l
    /\ UNCHANGED <<typing, expanded, activeKey>>

-----------------------------------------------------------------------------
(* The reader *)

Counted == gestures < MaxGestures /\ gestures' = gestures + 1
HandsFree == press = NoPress /\ clickDue = NoPress /\ ~quiet
Free == UNCHANGED <<length, lineThreads>>

\* A button is pressed.  The marker of a thread only waits for its click.
Press(l, on, shift) ==
    /\ Counted /\ HandsFree /\ l <= length /\ (shift => on = "number") /\ promised' = NoLines /\ meant' = NoLines
    /\ LET button == [line |-> l, on |-> on, shift |-> shift,
                      means |-> IF shift /\ anchorLine # 0 THEN NormalizeLineRange(anchorLine, l) ELSE NoLines]
       IN  IF on = "marker" /\ ActionThreads(l) # {}
           THEN clickDue' = button /\ UNCHANGED <<press, chosen, anchorLine>>
           ELSE /\ press' = [button |-> button, start |-> l, current |-> l, moved |-> FALSE]
                /\ anchorLine' = l /\ chosen' = [start |-> l, end |-> l]
                /\ UNCHANGED clickDue
    /\ UNCHANGED <<typing, expanded, activeKey, quiet>> /\ Free

\* extendLineDrag.
Drag(l) ==
    /\ press # NoPress /\ press.current # l /\ l <= length /\ Counted
    /\ press' = [press EXCEPT !.current = l, !.moved = TRUE]
    /\ chosen' = NormalizeLineRange(press.start, l)
    /\ UNCHANGED <<typing, expanded, anchorLine, activeKey, clickDue, quiet, promised, meant>> /\ Free

\* finishLineDrag.  Over the button where it was pressed, a click follows.
Release ==
    /\ press # NoPress /\ press' = NoPress
    /\ clickDue' \in IF press.moved THEN {NoPress, press.button} ELSE {press.button}
    /\ press.moved => press.current = press.start \/ clickDue' = NoPress
    /\ IF press.moved
       THEN StartRangeComment(NormalizeLineRange(press.start, press.current)) /\ quiet' = TRUE
       ELSE IF press.button.on = "marker" THEN StartLineComment(press.start) /\ quiet' = TRUE
       ELSE UNCHANGED <<typing, expanded, chosen, anchorLine, activeKey, quiet, promised>>
    /\ UNCHANGED <<meant, gestures>> /\ Free

\* (The fault of a click that always counts.)
AlwaysHears == TRUE
Hears == ~quiet

Click ==
    /\ clickDue # NoPress /\ clickDue' = NoPress
    /\ IF ~Hears THEN UNCHANGED <<typing, expanded, chosen, anchorLine, activeKey, promised, meant>>
       ELSE IF clickDue.on = "marker" THEN ClickOnMarker(clickDue.line) /\ UNCHANGED meant
       ELSE SelectLine(clickDue.line, clickDue.shift) /\ meant' = clickDue.means /\ UNCHANGED promised
    /\ UNCHANGED <<press, quiet, gestures>> /\ Free

\* The timer that ends the silence comes after the click.
Timeout ==
    /\ quiet /\ clickDue = NoPress /\ quiet' = FALSE
    /\ UNCHANGED <<typing, expanded, chosen, anchorLine, activeKey, press, clickDue, promised, meant, gestures>> /\ Free

\* The marker by the keyboard, the text of a line, and text that was selected with the mouse.
KeyOnMarker(l) ==
    /\ Counted /\ HandsFree /\ l <= length /\ ClickOnMarker(l) /\ meant' = NoLines
    /\ UNCHANGED <<press, clickDue, quiet>> /\ Free

ClickOnRow(l, shift) ==
    /\ Counted /\ HandsFree /\ l <= length /\ meant' = NoLines
    /\ IF ContainingThreads(l) # {} THEN OpenCommentThreads({Preferred(ContainingThreads(l))})
       ELSE SelectLine(l, shift) /\ promised' = NoLines
    /\ UNCHANGED <<press, clickDue, quiet>> /\ Free

SelectText(a, b) ==
    /\ Counted /\ HandsFree /\ a <= b /\ b <= length /\ StartRangeComment([start |-> a, end |-> b]) /\ meant' = NoLines
    /\ UNCHANGED <<press, clickDue, quiet>> /\ Free

\* The composer of an open comment: its text is saved as a draft, or discarded; the card is closed.
Leave(l, saved) ==
    /\ Counted /\ HandsFree /\ l <= length /\ Composer(l) # 0
    /\ LET input == typing[Composer(l)]
           key == Len(Saved) + MaxLine * input.start + input.end
       IN  /\ typing' = RemoveAt(typing, Composer(l))
           /\ lineThreads' = IF ~saved THEN lineThreads
                         ELSE lineThreads \cup {[key |-> key, start |-> input.start, end |-> input.end,
                                             surface |-> "source", draft |-> TRUE]}
    /\ promised' = NoLines /\ meant' = NoLines
    /\ UNCHANGED <<length, expanded, chosen, anchorLine, activeKey, press, clickDue, quiet>>

CloseLineCard(l) ==
    /\ Counted /\ HandsFree /\ l <= length /\ \E card \in LineCards(l) : CloseCommentThreads({card})
    /\ meant' = NoLines /\ UNCHANGED <<press, clickDue, quiet>> /\ Free

\* The Inspector resumes a typed comment, or opens a saved one.
ResumeTyped(i) ==
    /\ Counted /\ HandsFree /\ i \in DOMAIN typing
    /\ typing' = [typing EXCEPT ![i].collapsed = FALSE]
    /\ expanded' = {} /\ chosen' = PlaceOf(typing[i]) /\ anchorLine' = PlaceOf(typing[i]).start
    /\ activeKey' = 0 /\ promised' = RangeOf(typing[i]) /\ meant' = NoLines
    /\ UNCHANGED <<press, clickDue, quiet>> /\ Free

OpenFromOutside(t) ==
    /\ Counted /\ HandsFree /\ activeKey # t.key /\ activeKey' = t.key /\ chosen' = RangeOf(t) /\ promised' = NoLines
    /\ meant' = NoLines /\ UNCHANGED <<typing, expanded, anchorLine, press, clickDue, quiet>> /\ Free

\* The file gets other lines; threads are deleted, or come from elsewhere.
LengthChanges(n) ==
    /\ Counted /\ n # length /\ length' = n /\ meant' = NoLines
    /\ UNCHANGED <<lineThreads, typing, expanded, chosen, anchorLine, activeKey, press, clickDue, quiet, promised>>

SavedThread(i) == [key |-> i, start |-> Saved[i].start, end |-> Saved[i].end,
                   surface |-> Saved[i].surface, draft |-> FALSE]
ThreadsChange(ts) ==
    /\ Counted /\ ts # lineThreads /\ lineThreads' = ts
    /\ UNCHANGED <<length, typing, expanded, chosen, anchorLine, activeKey, press, clickDue, quiet, promised, meant>>

SourceInit ==
    /\ length \in Line /\ lineThreads \in SUBSET {SavedThread(i) : i \in DOMAIN Saved}
    /\ typing = <<>> /\ expanded = {} /\ chosen = NoLines /\ anchorLine = 0 /\ activeKey = 0
    /\ press = NoPress /\ clickDue = NoPress /\ quiet = FALSE /\ promised = NoLines /\ meant = NoLines
    /\ gestures = 0

SourceNext ==
    \/ Release \/ Click \/ Timeout
    \/ \E l \in Line :
          \/ \E on \in Buttons, shift \in BOOLEAN : Press(l, on, shift)
          \/ Drag(l) \/ KeyOnMarker(l) \/ CloseLineCard(l) \/ LengthChanges(l)
          \/ \E shift \in BOOLEAN : ClickOnRow(l, shift) \/ Leave(l, shift)
          \/ \E m \in Line : SelectText(l, m)
    \/ \E i \in 1 .. MaxTyped : ResumeTyped(i)
    \/ \E t \in lineThreads : OpenFromOutside(t) \/ ThreadsChange(lineThreads \ {t})
    \/ \E i \in DOMAIN Saved : ThreadsChange(lineThreads \cup {SavedThread(i)})

-----------------------------------------------------------------------------
(* Properties *)

SourceTypeOK ==
    /\ length \in Line /\ Len(typing) <= MaxTyped /\ activeKey \in Nat /\ quiet \in BOOLEAN
    /\ \A i, j \in DOMAIN typing : SameRange(typing[i], typing[j]) => i = j
    /\ \A item, other \in expanded : item.key = other.key => item = other
    /\ press # NoPress => clickDue = NoPress

\* An open typed comment has a card below the last of its lines, or adds to the draft that has one.
IsShown(input) ==
    LET last == PlaceOf(input).end
    IN  /\ last <= length
        /\ \/ Composer(last) # 0 /\ SameRange(typing[Composer(last)], input)
           \/ \E t \in DisplayedThreads(last) : SameRange(t, PlaceOf(input))
InputIsShown == \A input \in OpenTyping : IsShown(input)

\* As long as no line belongs to two of them: then only the older one is shown.
Touches(a, b) == \E l \in Line : Holds(PlaceOf(a), l) /\ Holds(PlaceOf(b), l)
LoneInputIsShown ==
    \A input \in OpenTyping : (\A other \in OpenTyping \ {input} : ~Touches(input, other)) => IsShown(input)

\* One gesture is one comment: what a press, a drag or a selection has started is not
\* closed again by the click that ends it.
PromisedIsOpen == promised # NoLines => \E input \in OpenTyping : SameRange(input, promised)

\* A marker that shows cards hides them all, unless a comment is being typed: threads that
\* were opened meanwhile come up when it is closed.
ClickHides ==
    [][\A l \in Line : KeyOnMarker(l) /\ ThreadOpen(l) /\ OpenTyping = {} => ~ThreadOpen(l)']_sourceVars

\* A marker that shows none opens all threads that end at its line, if they are of one surface
\* and nothing is being typed.
ClickShowsAll ==
    [][\A l \in Line :
          /\ KeyOnMarker(l) /\ ~ThreadOpen(l) /\ OpenTyping = {}
          /\ RowThreads(l) # {} /\ \A t, u \in RowThreads(l) : t.surface = u.surface
          => RowThreads(l) \subseteq DisplayedThreads(l)']_sourceVars

\* Clicking a line number with Shift selects from the line chosen before to this one.
ShiftSelects == meant # NoLines => chosen = meant

-----------------------------------------------------------------------------
(* The coloured lines of a source file: CodeViewer.tsx has them made for the text and the theme
   that are shown, and SourceCommentSurface.tsx holds them back while text is selected
   (state/comments.ts), so that the selection is not lost.  Coloured lines contain the text,
   they are what is seen. *)

CONSTANTS Contents, Themes,
          Plain,            \* model value: no coloured lines
          MaxChanges        \* bound: changes of text and theme

ASSUME HighlightsAssumption == MaxChanges \in Nat

VARIABLES
    content, theme,     \* of the viewer
    jobs,               \* highlightCode in flight: what it colours, and whether its effect still is
    highlightedHtml,    \* the last that was made, or Plain
    incoming,           \* highlightedLines as the surface's effect last saw it
    visible, pending,   \* highlightState
    selecting,          \* text of the lines is selected
    failed,             \* the last try failed
    elsewhere,          \* history: a selection was ended elsewhere since the lines were last set
    changes

highlightVars == <<content, theme, jobs, highlightedHtml, incoming, visible, pending, selecting, failed, elsewhere, changes>>

Wanted == [content |-> content, theme |-> theme]

\* (The fault of showing what was made, whatever for.)
WhateverWasMade == highlightedHtml
HighlightedLines == IF highlightedHtml = Wanted THEN highlightedHtml ELSE Plain

\* The effects of a render: jobs of earlier ones are cancelled.
CancelNone(js) == js
CancelAll(js) == {[job EXCEPT !.live = FALSE] : job \in js}
Shows(c, t) ==
    /\ content' = c /\ theme' = t /\ failed' = FALSE
    /\ jobs' = CancelAll(jobs) \cup {[makes |-> [content |-> c, theme |-> t], live |-> TRUE]}
    /\ changes < MaxChanges /\ changes' = changes + 1
    /\ UNCHANGED <<highlightedHtml, incoming, visible, pending, selecting, elsewhere>>
ContentChanged(c) == c # content /\ Shows(c, theme)
ThemeChanged(t) == t # theme /\ Shows(content, t)

Finishes(job, result) ==
    /\ jobs' = jobs \ {job}
    /\ IF job.live THEN highlightedHtml' = result /\ failed' = (result = Plain)
       ELSE UNCHANGED <<highlightedHtml, failed>>
    /\ UNCHANGED <<content, theme, incoming, visible, pending, selecting, elsewhere, changes>>
Highlighted(job) == Finishes(job, job.makes)
HighlightFails(job) == Finishes(job, Plain)

\* nextDeferredSourceHighlightState, when there are other coloured lines.
AlwaysNext(selected) == HighlightedLines
NextVisible(selected) == IF selected THEN visible ELSE HighlightedLines
Surface ==
    /\ incoming # HighlightedLines /\ incoming' = HighlightedLines
    /\ visible' = NextVisible(selecting) /\ pending' = HighlightedLines
    /\ elsewhere' = (elsewhere /\ selecting)
    /\ UNCHANGED <<content, theme, jobs, highlightedHtml, selecting, failed, changes>>

BeginSelection ==
    /\ ~selecting /\ selecting' = TRUE
    /\ UNCHANGED <<content, theme, jobs, highlightedHtml, incoming, visible, pending, failed, elsewhere, changes>>

\* updateSelectionComment, with flushDeferredSourceHighlightState: the selection becomes a comment.
KeepDeferred == visible
FlushDeferred == pending
EndSelection ==
    /\ selecting /\ selecting' = FALSE /\ visible' = FlushDeferred /\ elsewhere' = FALSE
    /\ UNCHANGED <<content, theme, jobs, highlightedHtml, incoming, pending, failed, changes>>

\* The mouse is released, and the selection undone, elsewhere.
EndSelectionElsewhere ==
    /\ selecting /\ selecting' = FALSE /\ elsewhere' = TRUE
    /\ UNCHANGED <<content, theme, jobs, highlightedHtml, incoming, visible, pending, failed, changes>>

HighlightsInit ==
    /\ content \in Contents /\ theme \in Themes
    /\ jobs = {[makes |-> Wanted, live |-> TRUE]} /\ highlightedHtml = Plain /\ incoming = Plain
    /\ visible = Plain /\ pending = Plain /\ selecting = FALSE /\ failed = FALSE
    /\ elsewhere = FALSE /\ changes = 0

HighlightsNext ==
    \/ \E c \in Contents : ContentChanged(c)
    \/ \E t \in Themes : ThemeChanged(t)
    \/ \E job \in jobs : Highlighted(job) \/ HighlightFails(job)
    \/ Surface \/ BeginSelection \/ EndSelection \/ EndSelectionElsewhere

-----------------------------------------------------------------------------
(* Properties *)

\* Once the page has settled and no text is selected, the lines show the file as it is ...
LinesStayTheFile == incoming = HighlightedLines /\ ~selecting => visible \in {Plain, Wanted}

\* ... if every selection ends over the lines: the mouse that is released elsewhere leaves
\* the lines as they were, until it comes back.
LinesAreTheFile == ~elsewhere => LinesStayTheFile

\* When no work is left, the lines are coloured, unless the highlighter failed: an answer for
\* an earlier text does not take the place of a later one.
LinesAreColoured == {job \in jobs : job.live} = {} /\ ~failed => highlightedHtml = Wanted

\* Selected text does not change under the mouse.
SelectionIsSteady == [][selecting /\ selecting' => visible' = visible]_highlightVars

=============================================================================
