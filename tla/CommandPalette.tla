---------------------------- MODULE CommandPalette ----------------------------
(***************************************************************************)
(* The two dialogs of the page, the palette (ui/src/features/                 *)
(* command-palette/CommandPalette.tsx, ui/src/state/command-palette.ts) and   *)
(* the list of shortcuts (ui/src/shared/components/ShortcutHelp.tsx), for a    *)
(* reader with a keyboard: which result is marked, and where the focus goes    *)
(* (ui/src/shared/components/modal-focus.ts), which is asked for now and moves  *)
(* with the next frame.                                                     *)
(***************************************************************************)
EXTENDS Integers, Sequences, FiniteSets, SequencesExt

CONSTANTS Controls,     \* what can have the focus on the page
          Finds, Deeds, \* what can be found, in its order; what can be done
          MaxStrokes    \* bound: what the reader does

ASSUME PaletteAssumption ==
    /\ MaxStrokes \in Nat
    /\ Finds \in Seq(ToSet(Finds)) /\ Deeds \in Seq(ToSet(Deeds))

VARIABLES
    screen,     \* the open dialog, the palette's mode, its results, those that cannot be chosen
    marked,     \* the index of the marked result, from 0, as it was last set
    focusOn,    \* document.activeElement
    frames,     \* what the next frame does to the focus
    returnsTo,  \* per dialog: what had the focus when it opened
    onPage,     \* the controls that are still there
    strokes,
    before,     \* history: what had the focus before the dialog, ...
    replaced    \* history: ... unless it replaced another one, or the focus was on its way

paletteVars == <<screen, marked, focusOn, frames, returnsTo, onPage, strokes, before, replaced>>

Modes == <<"file", "text", "action">>
Dialogs == {"palette", "help"}

Element(kind, name) == [kind |-> kind, name |-> name]
Body == Element("body", "body")
Control(name) == Element("page", name)
ModeButton(mode) == Element("mode", mode)
QueryInput == Element("input", "query")
CloseButton == Element("help", "close")

\* Those of items that are in kept, in their order.
Among(items, kept) ==
    LET upTo[n \in 0 .. Len(items)] ==
            IF n = 0 THEN <<>> ELSE IF items[n] \in kept THEN Append(upTo[n - 1], items[n]) ELSE upTo[n - 1]
    IN  upTo[Len(items)]

Enabled(s) == Among(s.offered, ToSet(s.offered) \ s.refused)

\* focusableModalElements: what is in a dialog and can be given the focus, in order.
Inside(s) ==
    CASE s.dialog = "help" -> <<CloseButton>>
      [] s.dialog = "palette" ->
            [i \in DOMAIN Modes |-> ModeButton(Modes[i])] \o <<QueryInput>>
                \o [i \in DOMAIN Enabled(s) |-> Element("result", Enabled(s)[i])]
      [] OTHER -> <<>>

\* What the browser itself stops at: of the modes only the selected one (tabIndex).
Tabbable(s) == {e \in ToSet(Inside(s)) : e.kind # "mode" \/ e.name = s.mode}

IsThere(s, page, e) == e = Body \/ e \in {Control(c) : c \in page} \cup ToSet(Inside(s))

PaletteTypeOK ==
    /\ screen.dialog \in Dialogs \cup {"none"} /\ screen.mode \in ToSet(Modes)
    /\ ToSet(screen.offered) \subseteq ToSet(IF screen.mode = "action" THEN Deeds ELSE Finds)
    /\ marked \in -1 .. Len(Finds) + Len(Deeds)
    /\ IsThere(screen, onPage, focusOn)
    /\ \A d \in Dialogs : returnsTo[d].kind \in {"page", "body"}

PaletteInit ==
    /\ screen = [dialog |-> "none", mode |-> "file", offered |-> <<>>, refused |-> {}]
    /\ marked = 0 /\ frames = <<>> /\ returnsTo = [d \in Dialogs |-> Body]
    /\ onPage = Controls /\ focusOn \in {Body} \cup {Control(c) : c \in Controls}
    /\ strokes = 0 /\ before = focusOn /\ replaced = FALSE

-----------------------------------------------------------------------------
(* Rendering: elements go, effects run, frames are asked for *)

Frame(what, e) == [what |-> what, on |-> e]

\* What has the focus once s is shown: nothing, if that was taken away.
Remaining(s, e) == IF IsThere(s, onPage, e) THEN e ELSE Body

\* (The fault of a dialog that remembers what it puts the focus on.)
RememberEntry(s) == returnsTo' = [returnsTo EXCEPT ![s.dialog] = Body]

\* The effect of a dialog that opens: what has the focus now will have it again.
RememberFocus(s) == returnsTo' = [returnsTo EXCEPT ![s.dialog] = Remaining(s, focusOn)]

\* The effects of [open]: the dialog that closes gives the focus back, if that is still there;
\* the one that opens takes it.
Rendered(s, e) ==
    LET opens == s.dialog \notin {"none", screen.dialog}
        closes == screen.dialog \notin {"none", s.dialog}
    IN  /\ screen' = s
        /\ focusOn' = Remaining(s, e)
        /\ frames' = frames
                \o (IF closes /\ IsThere(s, onPage, returnsTo[screen.dialog])
                    THEN <<Frame("focus", returnsTo[screen.dialog])>> ELSE <<>>)
                \o (IF opens THEN <<Frame("enter", Element("dialog", s.dialog))>> ELSE <<>>)
        /\ IF opens THEN RememberFocus(s) ELSE UNCHANGED returnsTo
        /\ before' = IF opens /\ screen.dialog = "none" THEN focusOn ELSE before
        /\ replaced' = IF opens THEN screen.dialog # "none" \/ frames # <<>> ELSE replaced
        /\ UNCHANGED onPage

\* The effect of [mode, open]: the first result is marked.
MarkFirst(s) == s.dialog = "palette" /\ (screen.dialog # "palette" \/ s.mode # screen.mode)

Shows(s, e, mark) == Rendered(s, e) /\ marked' = IF MarkFirst(s) THEN 0 ELSE mark

\* focusModalEntry and what else waits for the frame: whether it moves the focus, and where to.
Focuses(frame) ==
    IF frame.what = "enter" THEN frame.on.name = screen.dialog
    ELSE frame.on # Body /\ IsThere(screen, onPage, frame.on)
Focused(frame) ==
    IF frame.what # "enter" THEN frame.on
    ELSE IF screen.dialog = "help" THEN CloseButton ELSE QueryInput

\* The last one that moves it decides.
AnimationFrame ==
    LET moving == {i \in DOMAIN frames : Focuses(frames[i])}
    IN  /\ frames # <<>> /\ frames' = <<>>
        /\ focusOn' = IF moving = {} THEN focusOn ELSE Focused(frames[Max(moving)])
        /\ UNCHANGED <<screen, marked, returnsTo, onPage, strokes, before, replaced>>

-----------------------------------------------------------------------------
(* Opening and closing: shortcuts reach the page from everywhere *)

Stroke == strokes < MaxStrokes /\ strokes' = strokes + 1

\* Without a query, files that were open are offered, and every action.
Offers(mode) == CASE mode = "file" -> Finds [] mode = "text" -> <<>> [] OTHER -> Deeds

\* (The fault of results that stay.)
InModeAsItWas(mode) == [screen EXCEPT !.dialog = "palette", !.mode = mode]

InMode(mode) == [screen EXCEPT !.dialog = "palette", !.mode = mode, !.offered = Offers(mode)]
WithoutDialog(s) == [s EXCEPT !.dialog = "none"]

QuickOpen(mode) ==
    /\ Stroke
    /\ Shows(IF screen.dialog = "palette" /\ screen.mode = mode THEN WithoutDialog(screen) ELSE InMode(mode),
             focusOn, marked)

ToggleShortcuts ==
    /\ Stroke
    /\ Shows([screen EXCEPT !.dialog = IF @ = "help" THEN "none" ELSE "help"], focusOn, marked)

\* Escape, the shortcut that closes a tab, a click beside the dialog, or on "Close".
CloseDialog == Stroke /\ screen.dialog # "none" /\ Shows(WithoutDialog(screen), focusOn, marked)

-----------------------------------------------------------------------------
(* Modes and results *)

SwitchMode(mode, e) == Shows(InMode(mode), e, marked)

ClickMode(mode) ==
    Stroke /\ screen.dialog = "palette" /\ SwitchMode(mode, ModeButton(mode))

IndexIn(seq, e) == CHOOSE i \in DOMAIN seq : seq[i] = e

\* paletteModeKeyboardAction.
ModeForKey(mode, key) ==
    LET at == IndexIn(Modes, mode)
    IN  CASE key = "ArrowRight" -> Modes[(at % Len(Modes)) + 1]
          [] key = "ArrowLeft" -> Modes[((at + Len(Modes) - 2) % Len(Modes)) + 1]
          [] key = "Home" -> Modes[1]
          [] OTHER -> Last(Modes)

\* handleModeKeyDown: the button of the new mode gets the focus with the next frame.
ModeKey(key) ==
    LET mode == ModeForKey(screen.mode, key)
    IN  /\ Stroke /\ focusOn.kind = "mode" /\ mode # screen.mode
        /\ screen' = InMode(mode) /\ marked' = 0
        /\ frames' = Append(frames, Frame("focus", ModeButton(mode)))
        /\ UNCHANGED <<focusOn, returnsTo, onPage, before, replaced>>

\* A changed query: searches start over, actions are filtered by it.
EditQuery ==
    /\ Stroke /\ focusOn = QueryInput
    /\ \E left \in SUBSET ToSet(Deeds) :
          Shows([screen EXCEPT !.offered = IF screen.mode # "action" THEN <<>>
                                           ELSE Among(Deeds, left)], focusOn, 0)

\* Answers of a search, and recent files; actions that become possible, or no longer are.
ResultsChange ==
    /\ screen.dialog = "palette" /\ UNCHANGED strokes
    /\ \/ \E found \in SUBSET ToSet(Finds) :
              /\ screen.mode # "action"
              /\ Shows([screen EXCEPT !.offered = Among(Finds, found)], focusOn, marked)
       \/ \E refused \in SUBSET ToSet(Deeds) :
              /\ screen.mode = "action"
              /\ Shows([screen EXCEPT !.refused = refused], focusOn, marked)

\* (The fault of a mark that stops at both ends.)
MovePaletteStopping(index, count, delta) ==
    IF count = 0 THEN -1 ELSE IF index + delta \in 0 .. count - 1 THEN index + delta ELSE index

ClampPaletteSelection(index, count) ==
    IF count = 0 THEN -1 ELSE IF index < 0 THEN 0 ELSE IF index >= count THEN count - 1 ELSE index

MovePaletteSelection(index, count, delta) ==
    IF count = 0 THEN -1 ELSE ((ClampPaletteSelection(index, count) + delta + count) % count)

Arrow(delta) ==
    /\ Stroke /\ focusOn = QueryInput
    /\ marked' = MovePaletteSelection(marked, Len(screen.offered), delta)
    /\ UNCHANGED <<screen, focusOn, frames, returnsTo, onPage, before, replaced>>

Hover(i) ==
    /\ screen.dialog = "palette" /\ screen.offered[i] \notin screen.refused /\ marked # i - 1
    /\ Stroke /\ marked' = i - 1
    /\ UNCHANGED <<screen, focusOn, frames, returnsTo, onPage, before, replaced>>

\* Enter in the input, or on a result, or a click: the dialog closes, and a file is opened
\* or something is done, unless it cannot be.
Choose ==
    LET at == ClampPaletteSelection(marked, Len(screen.offered))
    IN  /\ Stroke /\ screen.dialog = "palette"
        /\ \/ focusOn = QueryInput /\ at >= 0 /\ screen.offered[at + 1] \notin screen.refused
           \/ focusOn.kind = "result"
        /\ Shows(WithoutDialog(screen), focusOn, marked)

-----------------------------------------------------------------------------
(* The tabulator, and the page *)

\* Where the browser goes from an element of the dialog: to the next one it stops at, or out
\* of the dialog.
BrowserTab(s, e, backwards) ==
    LET order == Inside(s)
        at == IndexIn(order, e)
        stops == {i \in DOMAIN order : order[i] \in Tabbable(s)}
        ahead == {i \in stops : IF backwards THEN i < at ELSE i > at}
    IN  IF ahead = {} THEN {Body} \cup {Control(c) : c \in onPage}
        ELSE {order[IF backwards THEN Max(ahead) ELSE Min(ahead)]}

\* (The fault of a trap with one side.)
TrapForwards(s, e, backwards) ==
    IF ~backwards /\ e = Last(Inside(s)) THEN {Inside(s)[1]} ELSE BrowserTab(s, e, backwards)

\* trapModalTab, which hears of keys pressed within the dialog.
TrapModalTab(s, e, backwards) ==
    CASE backwards /\ e = Inside(s)[1] -> {Last(Inside(s))}
      [] ~backwards /\ e = Last(Inside(s)) -> {Inside(s)[1]}
      [] OTHER -> BrowserTab(s, e, backwards)

PressTab(backwards) ==
    /\ Stroke
    /\ focusOn' \in IF focusOn \in ToSet(Inside(screen)) THEN TrapModalTab(screen, focusOn, backwards)
                    ELSE {Control(c) : c \in onPage} \cup Tabbable(screen)
    /\ before' = IF screen.dialog = "none" /\ frames = <<>> THEN focusOn' ELSE before
    /\ UNCHANGED <<screen, marked, frames, returnsTo, onPage, replaced>>

\* A control goes, with what the page shows.
ControlGoes(c) ==
    /\ c \in onPage /\ onPage' = onPage \ {c}
    /\ focusOn' = IF focusOn = Control(c) THEN Body ELSE focusOn
    /\ before' = IF screen.dialog = "none" /\ frames = <<>> THEN focusOn' ELSE before
    /\ UNCHANGED <<screen, marked, frames, returnsTo, strokes, replaced>>

PaletteNext ==
    \/ AnimationFrame
    \/ (\E mode \in {"file", "text"} : QuickOpen(mode)) \/ ToggleShortcuts \/ CloseDialog
    \/ \E mode \in ToSet(Modes) : ClickMode(mode)
    \/ \E key \in {"ArrowLeft", "ArrowRight", "Home", "End"} : ModeKey(key)
    \/ EditQuery \/ ResultsChange \/ Choose
    \/ \E delta \in {-1, 1} : Arrow(delta)
    \/ \E i \in DOMAIN screen.offered : Hover(i)
    \/ \E backwards \in BOOLEAN : PressTab(backwards)
    \/ \E c \in Controls : ControlGoes(c)

-----------------------------------------------------------------------------
(* Properties *)

\* What is marked after each of that many arrow keys.
After(mark, count, delta) ==
    LET after[n \in 0 .. count] == IF n = 0 THEN mark ELSE MovePaletteSelection(after[n - 1], count, delta)
    IN  after

\* Whatever became of the results since one was marked: as many arrow keys as there are
\* results mark each of them, in either direction.
ArrowsReachEveryResult ==
    screen.dialog = "palette" =>
        LET count == Len(screen.offered)
        IN  \A delta \in {-1, 1} : {After(marked, count, delta)[n] : n \in 1..count} = 0 .. count - 1

\* Keys do not lead out of an open dialog, with two exceptions: backwards from the bar of
\* modes, where the first button is not the one the browser stops at; and with a result
\* that had the focus and is no longer found.
FocusIsKept ==
    [][screen'.dialog = screen.dialog /\ focusOn \in ToSet(Inside(screen)) /\ focusOn' \notin ToSet(Inside(screen'))
           => \/ focusOn.kind = "mode" /\ screen.mode # "file"
              \/ focusOn.kind = "result" /\ focusOn \notin ToSet(Inside(screen'))]_paletteVars

\* A dialog that closes gives the focus back to where it was before, unless it had replaced
\* the other dialog.
FocusReturns ==
    screen.dialog = "none" /\ frames = <<>> /\ ~replaced =>
        focusOn = before \/ ~IsThere(screen, onPage, before) \/ before = Body

=============================================================================
