--------------------------- MODULE RenderedThreads ---------------------------
(***************************************************************************)
(* The card that shows a comment thread, or the composer of a new one, beside *)
(* a block of a rendered document: HtmlViewer.tsx and MarkdownViewer.tsx.      *)
(*                                                                         *)
(* Markdown is rendered by the page itself.  HTML is rendered in a sandboxed   *)
(* frame, with a script of the server (http-server.ts, injectHtmlPreviewRun-   *)
(* time); page and frame only exchange messages, and what is sent to a frame   *)
(* whose script does not run yet is lost.  A handler of the page changes its   *)
(* state, but sees the state of the last time the page was rendered; effects    *)
(* run after the page was rendered, when one of their inputs changed.          *)
(*                                                                         *)
(* The text of an input, and how it is saved, are those of CommentInputs.      *)
(***************************************************************************)
EXTENDS Integers, Sequences, FiniteSets, SequencesExt

CONSTANTS Blocks,       \* blocks of the document
          Comments,     \* numbers; each comment is a thread, in the order of the page's list
          BlockOf,      \* where they are
          Published,    \* those of them that are not drafts
          Viewers,      \* which of html, markdown are looked at
          None,
          New,          \* the thread of a composer that has none yet
          MaxActions,   \* bound: what the reader and others do
          MaxEtag    \* bound: versions of the file

ASSUME RenderedAssumption ==
    /\ Comments \subseteq Nat /\ IsFiniteSet(Comments) /\ BlockOf \in [Comments -> Blocks]
    /\ Published \subseteq Comments /\ Viewers \subseteq {"html", "markdown"}
    /\ None \notin Blocks /\ New \notin Comments /\ None \notin Comments
    /\ None \notin [block : Blocks, thread : Comments \cup {New}]
    /\ None \notin [active : Comments \cup {None}, comments : SUBSET Comments, open : SUBSET Blocks]

VARIABLES
    viewer,
    page,       \* the state of the page: mode, version, comments, active, card, inputs, resume
    seen,       \* that state when the page was last rendered
    frame,      \* the frame: phase, state (the last message it took) and pending
    toFrame, toPage,
    used,       \* history: comments there ever were
    wish,       \* history: the card the reader last asked for, of a page at rest
    settling,   \* effects have changed the page: it is rendered again before it takes a message
    actions

renderedVars == <<viewer, page, seen, frame, toFrame, toPage, used, wish, settling, actions>>

Card == [block : Blocks, thread : Comments \cup {New}]
FirstOf(numbers) == CHOOSE n \in numbers : \A m \in numbers : n <= m
AtBlock(comments, b) == {c \in comments : BlockOf[c] = b}

-----------------------------------------------------------------------------
(* Sessions of the inputs: one for each place, open or collapsed *)

BlocksOf(inputs) == {inputs[i].block : i \in DOMAIN inputs}
SessionAt(inputs, b) == CHOOSE s \in ToSet(inputs) : s.block = b
Collapsed(inputs, Of(_)) == [i \in DOMAIN inputs |-> IF Of(inputs[i]) THEN [inputs[i] EXCEPT !.open = FALSE] ELSE inputs[i]]
CollapseId(inputs, card) == Collapsed(inputs, LAMBDA s : s.block = card.block /\ s.thread = card.thread)
CollapseOthers(inputs, b) == Collapsed(inputs, LAMBDA s : s.block # b)

\* Those of the inputs that are wanted, in their order (Array.filter).
Among(inputs, wanted) ==
    LET upTo[n \in 0..Len(inputs)] ==
            IF n = 0 THEN <<>> ELSE IF inputs[n] \in wanted THEN Append(upTo[n - 1], inputs[n]) ELSE upTo[n - 1]
    IN  upTo[Len(inputs)]
OpenInputs(inputs) == Among(inputs, {s \in ToSet(inputs) : s.open})

\* (The fault of a session for every start.)
StartAnother(inputs, card) == Append(inputs, [block |-> card.block, thread |-> card.thread, open |-> TRUE])

\* "start" and "change": the session of that thread, or the one of that place.
StartInput(inputs, card) ==
    IF card.block \in BlocksOf(inputs)
    THEN [i \in DOMAIN inputs |-> IF inputs[i].block = card.block
                                  THEN [inputs[i] EXCEPT !.thread = card.thread, !.open = TRUE] ELSE inputs[i]]
    ELSE Append(inputs, [block |-> card.block, thread |-> card.thread, open |-> TRUE])

WithoutInput(inputs, b) == Among(inputs, {s \in ToSet(inputs) : s.block # b})

\* The thread that a card shows: its own, or a draft at its place.
ThreadOf(card, comments) ==
    LET drafts == AtBlock(comments, card.block) \ Published
    IN  IF card.thread # New \/ drafts = {} THEN card.thread ELSE FirstOf(drafts)

\* A composer is there without messages, for drafts, and for an input that was kept.
HasComposer(p) ==
    p.card # None /\ \/ ThreadOf(p.card, p.comments) \notin Published \cap p.comments
                     \/ p.card.block \in BlocksOf(p.inputs)

-----------------------------------------------------------------------------
(* openRenderedDraft *)

OpenCard(p, card) == [p EXCEPT !.card = card]

\* (The fault of leaving the input that was there before expanded.)
StartOver(p, s, b) ==
    LET card == [block |-> b, thread |-> New]
    IN  [p EXCEPT !.card = card, !.inputs = StartInput(p.inputs, card)]

\* A new composer takes the place of the card that is shown.
StartCard(p, s, b) ==
    LET card == [block |-> b, thread |-> New]
        left == IF s.card = None \/ s.card = card THEN p.inputs ELSE CollapseId(p.inputs, s.card)
    IN  [p EXCEPT !.card = card, !.inputs = StartInput(left, card)]

\* (The fault of not telling that the comment is closed.)
CloseQuietly(p) == [p EXCEPT !.card = None]

CloseCard(p) == [p EXCEPT !.card = None, !.active = None]

-----------------------------------------------------------------------------
(* Messages of the frame *)

HasUnsentInput(s) ==
    s.card # None /\ \E i \in DOMAIN s.inputs :
        s.inputs[i].open /\ s.inputs[i].block = s.card.block /\ s.inputs[i].thread = s.card.thread

TakeClear(p, s) == IF HasUnsentInput(s) THEN p ELSE CloseCard(p)

TakeOpen(p, s, message) ==
    IF message.id \notin s.comments THEN p
    ELSE [OpenCard(p, [block |-> message.block, thread |-> message.id]) EXCEPT !.active = message.id]

PageTakes ==
    /\ toPage # <<>> /\ ~settling /\ toPage' = Tail(toPage)
    /\ LET message == Head(toPage)
       IN  page' = CASE message.type = "open" -> TakeOpen(page, seen, message)
                     [] message.type = "clear" -> TakeClear(page, seen)
                     [] message.type = "target" -> StartCard(page, seen, message.block)
    /\ UNCHANGED <<viewer, seen, frame, toFrame, used, wish, settling, actions>>

-----------------------------------------------------------------------------
(* The page is rendered, and its effects run *)

\* What postRenderedCommentState tells the frame.
Posted(p) == [active |-> p.active, comments |-> p.comments,
              open |-> IF p.card = None THEN {} ELSE {p.card.block}]

LoadingFrame == [phase |-> "loading", state |-> None, pending |-> FALSE]
NoFrame == [phase |-> "none", state |-> None, pending |-> FALSE]
FreshFrame == page.mode = "rendered" /\ (seen.mode # "rendered" \/ seen.version # page.version)

\* (The fault of an effect that does not depend on what is open.)
PostsIgnoring == page.mode = "rendered" /\ (page.active # seen.active \/ page.comments # seen.comments)

PostsState == page.mode = "rendered" /\ (Posted(page) # Posted(seen) \/ seen.mode # page.mode)

Requested(p) ==
    IF p.resume = None \/ p.resume \notin BlocksOf(p.inputs) THEN {} ELSE {SessionAt(p.inputs, p.resume)}
CardOf(session) == [block |-> session.block, thread |-> session.thread]

\* An input that is asked for gets its card, and the others of the file are collapsed.
Resumed(p, session) ==
    [p EXCEPT !.card = CardOf(session), !.inputs = CollapseOthers(@, session.block), !.resume = None]

HtmlInputs ==
    /\ page.mode = "rendered"
    /\ \/ page.inputs # seen.inputs \/ page.resume # seen.resume \/ page.mode # seen.mode
       \/ (page.card = None) # (seen.card = None)

\* (The fault of not looking for inputs that wait.)
NoReopening(p) == p

\* Without a card, the last of the open inputs gets one.
ReopenInput(p) ==
    IF page.card # None \/ OpenInputs(page.inputs) = <<>> THEN p ELSE OpenCard(p, CardOf(Last(OpenInputs(page.inputs))))

RenderHtml ==
    LET cleared == IF page.version = seen.version THEN page ELSE OpenCard(page, None)
    IN  /\ page' = IF ~HtmlInputs THEN cleared
                   ELSE IF Requested(page) # {} THEN Resumed(cleared, SessionAt(page.inputs, page.resume))
                   ELSE ReopenInput(cleared)
        /\ frame' = IF FreshFrame THEN LoadingFrame ELSE IF page.mode = "rendered" THEN frame ELSE NoFrame
        /\ toFrame' = IF frame' \in {LoadingFrame, NoFrame} THEN <<>>
                      ELSE IF PostsState THEN Append(toFrame, Posted(page)) ELSE toFrame

\* (The fault of going on to the next open input when one is shown.)
EachInput(p) ==
    LET others == SelectSeq(OpenInputs(page.inputs), LAMBDA s : page.card = None \/ s.block # page.card.block)
    IN  IF others = <<>> THEN p ELSE OpenCard(p, CardOf(Head(others)))

\* The first open input has the card; else the comment that is active, when there is none.
MarkdownInput(p) ==
    LET open == OpenInputs(page.inputs)
        session == IF Requested(page) # {} THEN SessionAt(page.inputs, page.resume) ELSE Head(open)
        shown == page.card # None /\ page.card.block = session.block
    IN  IF Requested(page) # {} THEN [Resumed(p, session) EXCEPT !.card = IF shown THEN page.card ELSE @]
        ELSE IF open = <<>> \/ shown THEN p ELSE OpenCard(p, CardOf(session))

OpenActive(p) ==
    IF page.card # None \/ page.active = None \/ page.active \notin page.comments THEN p
    ELSE OpenCard(p, [block |-> BlockOf[page.active], thread |-> page.active])

RenderMarkdown ==
    /\ page' = IF page.mode = "rendered" THEN OpenActive(MarkdownInput(page)) ELSE page
    /\ UNCHANGED <<frame, toFrame>>

Render ==
    /\ page # seen /\ seen' = page
    /\ IF viewer = "html" THEN RenderHtml ELSE RenderMarkdown
    /\ settling' = (page' # page)
    /\ UNCHANGED <<viewer, toPage, used, wish, actions>>

-----------------------------------------------------------------------------
(* The frame *)

ShownIn(f) == IF f.state = None THEN {} ELSE f.state.comments
ThreadIsOpen(f) == f.pending \/ (f.state # None /\ f.state.open # {})
ActiveIn(f) == IF f.state = None THEN None ELSE f.state.active
OpenMessage(c) == [type |-> "open", id |-> c, block |-> BlockOf[c]]

\* The script runs and hears messages; later the frame is loaded, and the page tells it the state.
\* A frame takes longer to load than the page to be rendered.
FrameListens ==
    /\ frame.phase = "loading" /\ page = seen /\ frame' = [frame EXCEPT !.phase = "listening"]
    /\ UNCHANGED <<viewer, page, seen, toFrame, toPage, used, wish, settling, actions>>

\* (The fault of a page that does not wait for the frame.)
OnLoadNothing == UNCHANGED toFrame

OnLoad == toFrame' = Append(toFrame, Posted(seen))

FrameLoads ==
    /\ frame.phase = "listening" /\ frame' = [frame EXCEPT !.phase = "ready"] /\ OnLoad
    /\ UNCHANGED <<viewer, page, seen, toPage, used, wish, settling, actions>>

\* (The fault of a thread that stays awaited.)
TakenKeeping(f, state) == [f EXCEPT !.state = state]

Taken(f, state) == [f EXCEPT !.state = state, !.pending = FALSE]

\* What the frame knows already changes nothing.  A comment that has become active is opened,
\* unless a thread is open.
FrameTakes ==
    /\ toFrame # <<>> /\ toFrame' = Tail(toFrame)
    /\ LET state == Head(toFrame)
           after == Taken(frame, state)
           opens == /\ state.active # None /\ state.active # ActiveIn(frame) /\ ~ThreadIsOpen(after)
                    /\ state.active \in state.comments
       IN  IF state = frame.state THEN UNCHANGED <<frame, toPage>>
           ELSE /\ frame' = IF opens THEN [after EXCEPT !.pending = TRUE] ELSE after
                /\ toPage' = IF opens THEN Append(toPage, OpenMessage(state.active)) ELSE toPage
    /\ UNCHANGED <<viewer, page, seen, used, wish, settling, actions>>

-----------------------------------------------------------------------------
(* The reader *)

Idle ==
    page = seen /\ \/ viewer = "markdown" \/ page.mode # "rendered"
                   \/ frame.phase = "ready" /\ toFrame = <<>> /\ toPage = <<>>

Acts == actions < MaxActions /\ actions' = actions + 1

\* A card was asked for; "alone" when no other input of a Markdown document is open, but the
\* one whose card a new composer takes.
Wishes(card) ==
    wish' = IF ~Idle THEN None
            ELSE [card |-> card,
                  alone |-> \A i \in DOMAIN page.inputs :
                                \/ viewer = "html" \/ ~page.inputs[i].open \/ page.inputs[i].block = card.block
                                \/ card.thread = New /\ CardOf(page.inputs[i]) = page.card]

InFrame ==
    /\ viewer = "html" /\ frame.phase \in {"listening", "ready"} /\ Acts
    /\ UNCHANGED <<viewer, page, seen, toFrame, used, settling>>
FrameSends(message) == frame' = [frame EXCEPT !.pending = TRUE] /\ toPage' = Append(toPage, message)

\* A click on a block with comments, or on its marker, opens the first of them.
ClickInFrame(b) ==
    /\ AtBlock(ShownIn(frame), b) # {} /\ InFrame
    /\ LET c == FirstOf(AtBlock(ShownIn(frame), b))
       IN  FrameSends(OpenMessage(c)) /\ Wishes([block |-> b, thread |-> c])

DoubleClickInFrame(b) ==
    /\ AtBlock(ShownIn(frame), b) = {} /\ InFrame
    /\ FrameSends([type |-> "target", block |-> b]) /\ Wishes([block |-> b, thread |-> New])

ClickOutside ==
    /\ InFrame /\ frame' = [frame EXCEPT !.pending = FALSE]
    /\ toPage' = Append(toPage, [type |-> "clear"]) /\ wish' = None

\* What the reader does on the page, once it is rendered.
OnPage == page = seen /\ Acts /\ UNCHANGED <<viewer, seen, frame, toFrame, toPage, settling>>
Forgets == wish' = None

ClickInPage(b) ==
    /\ viewer = "markdown" /\ page.mode = "rendered" /\ AtBlock(page.comments, b) # {} /\ OnPage
    /\ LET c == FirstOf(AtBlock(page.comments, b))
           card == [block |-> b, thread |-> c]
       IN  page' = [OpenCard(page, card) EXCEPT !.active = c] /\ Wishes(card)
    /\ UNCHANGED used

DoubleClickInPage(b) ==
    /\ viewer = "markdown" /\ page.mode = "rendered" /\ OnPage
    /\ page' = [StartCard(page, page, b) EXCEPT !.active = None] /\ Wishes([block |-> b, thread |-> New])
    /\ UNCHANGED used

\* openCommentFromPanel: a comment is chosen in the list beside the document.
Select(c) ==
    /\ c \in page.comments /\ page.active # c /\ OnPage
    /\ page' = [page EXCEPT !.active = c] /\ Forgets /\ UNCHANGED used

SetMode ==
    /\ OnPage /\ page' = [OpenCard(page, None) EXCEPT !.mode = IF @ = "source" THEN "rendered" ELSE "source"]
    /\ Forgets /\ UNCHANGED used

TypeNote ==
    /\ page.mode = "rendered" /\ HasComposer(page) /\ OnPage
    /\ page' = [page EXCEPT !.inputs = StartInput(@, [page.card EXCEPT !.thread = ThreadOf(page.card, page.comments)])]
    /\ page' # page /\ Forgets /\ UNCHANGED used

\* Escape and the close button collapse the input, a discard removes it.
CloseThread ==
    /\ page.card # None /\ OnPage
    /\ page' = CloseCard([page EXCEPT !.inputs = Collapsed(@, LAMBDA s : s.block = page.card.block)])
    /\ Forgets /\ UNCHANGED used

DiscardNote ==
    /\ page.card # None /\ page.card.block \in BlocksOf(page.inputs) /\ OnPage
    /\ page' = CloseCard([page EXCEPT !.inputs = WithoutInput(@, page.card.block)])
    /\ Forgets /\ UNCHANGED used

StartNewFeedback ==
    /\ page.card # None /\ ThreadOf(page.card, page.comments) \in Published \cap page.comments
    /\ page.card.block \notin BlocksOf(page.inputs) /\ OnPage
    /\ LET card == [page.card EXCEPT !.thread = New]
       IN  page' = [page EXCEPT !.inputs = StartInput(@, card), !.card = card, !.active = None]
    /\ Forgets /\ UNCHANGED used

\* A draft is saved.  The composer stays for the next note of its thread; a note beside a
\* published thread is a thread of its own, and closes the card.
SaveDraft(c) ==
    /\ page.card # None /\ page.card.block \in BlocksOf(page.inputs) /\ BlockOf[c] = page.card.block
    /\ c \notin used \cup Published /\ used' = used \cup {c} /\ OnPage
    /\ ThreadOf(page.card, page.comments) \notin page.comments \ Published
    /\ LET saved == [page EXCEPT !.comments = @ \cup {c}, !.inputs = WithoutInput(@, page.card.block)]
           thread == ThreadOf(page.card, page.comments)
       IN  page' = IF thread \in page.comments THEN CloseCard(saved) ELSE saved
    /\ Forgets

\* An input of the list of unsaved ones is taken up again.
ResumeInput(b) ==
    /\ b \in BlocksOf(page.inputs) /\ OnPage
    /\ page' = [page EXCEPT !.resume = b,
                            !.inputs = [i \in DOMAIN @ |-> IF @[i].block = b THEN [@[i] EXCEPT !.open = TRUE] ELSE @[i]]]
    /\ Forgets /\ UNCHANGED used

\* Others add and delete comments, and change the file.
CommentAdded(c) ==
    /\ c \notin used /\ used' = used \cup {c} /\ Acts /\ page' = [page EXCEPT !.comments = @ \cup {c}]
    /\ UNCHANGED <<viewer, seen, frame, toFrame, toPage, wish, settling>>

CommentDeleted(c) ==
    /\ c \in page.comments /\ Acts /\ page' = [page EXCEPT !.comments = @ \ {c}]
    /\ Forgets /\ UNCHANGED <<viewer, seen, frame, toFrame, toPage, used, settling>>

FileChanged ==
    /\ page.version < MaxEtag /\ Acts /\ page' = [page EXCEPT !.version = @ + 1]
    /\ Forgets /\ UNCHANGED <<viewer, seen, frame, toFrame, toPage, used, settling>>

-----------------------------------------------------------------------------

RenderedInit ==
    /\ viewer \in Viewers /\ \E comments \in SUBSET Comments : used = comments
    /\ page = [mode |-> "rendered", version |-> 1, comments |-> used, active |-> None, card |-> None,
               inputs |-> <<>>, resume |-> None]
    /\ seen = [page EXCEPT !.mode = "none"]
    /\ frame = NoFrame /\ toFrame = <<>> /\ toPage = <<>> /\ wish = None /\ settling = FALSE /\ actions = 0

RenderedSystem == PageTakes \/ Render \/ FrameListens \/ FrameLoads \/ FrameTakes

RenderedNext ==
    \/ RenderedSystem
    \/ \E b \in Blocks : ClickInFrame(b) \/ DoubleClickInFrame(b) \/ ClickInPage(b) \/ DoubleClickInPage(b) \/ ResumeInput(b)
    \/ \E c \in Comments : Select(c) \/ SaveDraft(c) \/ CommentAdded(c) \/ CommentDeleted(c)
    \/ ClickOutside \/ SetMode \/ TypeNote \/ CloseThread \/ DiscardNote \/ StartNewFeedback \/ FileChanged

-----------------------------------------------------------------------------
(* Properties *)

RenderedTypeOK ==
    /\ page.card \in Card \cup {None} /\ page.comments \subseteq used
    /\ frame.phase \in {"none", "loading", "listening", "ready"}
    /\ \A i, j \in DOMAIN page.inputs : page.inputs[i].block = page.inputs[j].block => i = j

\* Page and frame agree once the messages between them are taken, also after the frame was
\* loaded anew: the same comments, the same active one, the same open block.  The frame does not
\* go on waiting for a thread that will not open, which would keep it from marking blocks.
FrameShowsThePage ==
    Idle /\ viewer = "html" /\ page.mode = "rendered" =>
        frame.state = Posted(page) /\ (frame.pending => frame.state.open # {})

\* The active comment is not without its card, or that of another place: whatever closes the
\* card ends that the comment is active, and what the page could not open yet it opens later.
ActiveHasACard ==
    Idle /\ page.mode = "rendered" /\ page.active \in page.comments => page.card # None

\* An input that is expanded is not out of sight without a card in its place.
OpenInputHasACard ==
    Idle /\ page.mode = "rendered" /\ OpenInputs(page.inputs) # <<>> => page.card # None

\* A page at rest shows the card that was asked for last.
WishIsShown == Idle /\ wish # None /\ wish.alone => page.card = wish.card

\* Page and frame come to rest: no message calls for another one for ever.
ExchangeEnds == seen.mode # "none" ~> Idle

\* docs/adr/17-ui-product-decisions.md:170: a double click on another block replaces the one
\* expanded composer, and the session before collapses.
DoubleClickMovesComposer ==
    Idle /\ wish # None /\ wish.card.thread = New => page.card = wish.card
=============================================================================
