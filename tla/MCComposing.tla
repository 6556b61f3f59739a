---------------------------- MODULE MCComposing ----------------------------
(***************************************************************************)
(* What a reader writes, and the cards and lines that show it.  They share no *)
(* variable, so each is checked from its own initial states while the others   *)
(* stand still.                                                              *)
(***************************************************************************)
EXTENDS CommentInputs, RenderedThreads, SourceLines, DiffComments
CONSTANTS x, y, Concerns
MCBlockOf == <<x, x, y>>
Place(first, last, on) == [start |-> first, end |-> last, surface |-> on]
MCSaved == <<Place(1, 2, "source"), Place(2, 2, "source"), Place(2, 3, "rendered")>>

MCDiffSaved == <<[start |-> 1, end |-> 2], [start |-> 2, end |-> 2]>>
MCRowSets == {{1, 2, 3}, {1, 2}}

VARIABLE concern    \* which of them a behaviour is about

MCInit ==
    /\ concern \in Concerns /\ InputsInit /\ RenderedInit
    /\ faults = IF concern \in {"inputs", "selection"} THEN 2 ELSE 0
    /\ concern # "inputs" => surface = "source"
    /\ concern # "rendered" => viewer = "markdown" /\ used = {}
    /\ SourceInit /\ HighlightsInit
    /\ concern # "source" => length = 1 /\ lineThreads = {}
    /\ concern # "highlights" => \A c \in Contents, t \in Themes : content <= c /\ theme <= t
    /\ SelectionInit /\ DiffInit
    /\ concern # "diff" => rows = {1, 2} /\ diffThreads = {}

MCNext ==
    /\ UNCHANGED concern
    /\ \/ concern = "inputs" /\ InputsNext /\ UNCHANGED <<held, renderedVars, sourceVars, highlightVars, diffVars>>
       \/ concern = "selection" /\ SelectionNext /\ UNCHANGED <<renderedVars, sourceVars, highlightVars, diffVars>>
       \/ concern = "rendered" /\ RenderedNext /\ UNCHANGED <<selectionVars, sourceVars, highlightVars, diffVars>>
       \/ concern = "source" /\ SourceNext /\ UNCHANGED <<selectionVars, renderedVars, highlightVars, diffVars>>
       \/ concern = "highlights" /\ HighlightsNext /\ UNCHANGED <<selectionVars, renderedVars, sourceVars, diffVars>>
       \/ concern = "diff" /\ DiffNext /\ UNCHANGED <<selectionVars, renderedVars, sourceVars, highlightVars>>

\* The browser renders what changed, loads frames and delivers messages; the reader need not act.
MCSpec ==
    /\ MCInit /\ [][MCNext]_<<selectionVars, renderedVars, sourceVars, highlightVars, diffVars, concern>>
    /\ WF_renderedVars(concern = "rendered" /\ Render) /\ WF_renderedVars(concern = "rendered" /\ PageTakes)
    /\ WF_renderedVars(concern = "rendered" /\ (FrameListens \/ FrameLoads))
    /\ WF_renderedVars(concern = "rendered" /\ FrameTakes)

-----------------------------------------------------------------------------
(* What is checked, by what it is about *)

\* What is typed is kept until it is saved, once, or discarded, for good; what says that it is
\* about the version that is shown is; and a selection that is held has an input.
WritingIsKept ==
    /\ InputsTypeOK /\ SelectionTypeOK
    /\ TypedTextIsKept /\ SavedOnce /\ FreshIsCurrent /\ DiscardedStaysGone

\* The card of a rendered page and its frame follow the comment that is active, the input that is
\* open and the card that was asked for last, and the two agree once their messages are taken.
CardsFollow ==
    RenderedTypeOK /\ FrameShowsThePage /\ ActiveHasACard /\ OpenInputHasACard /\ WishIsShown

\* An input that is alone on its lines is shown at them, in the source and in its diff, what a
\* gesture began stays open, and the lines are those of the file, coloured when work is done.
LinesShowTheInputs ==
    /\ SourceTypeOK /\ LoneInputIsShown /\ PromisedIsOpen
    /\ DiffTypeOK /\ LoneDraftIsShown
    /\ LinesAreTheFile /\ LinesAreColoured

\* One click on a marker opens or closes all that it stands for and nothing else, and neither a
\* new comment, nor new text, nor a new diff changes what the reader is about.
MarkersDoAsTheySay ==
    ClickHides /\ ClickShowsAll /\ MarkerCloses /\ OthersStay /\ NewDiffIsClean /\ SelectionIsSteady

\* The composer of selected text is that of the input which was resumed, and sends the version
\* that is shown.
SelectionIsCurrent == SentIsCurrent /\ ResumedIsShown

=============================================================================
