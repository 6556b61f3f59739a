----------------------------- MODULE DiffComments -----------------------------
(***************************************************************************)
(* Comments on the lines of a source diff (SourceDiff of DiffViewer.tsx): its  *)
(* own list of inputs that were begun, the threads that were opened, and the   *)
(* active one.  What is typed is kept by the page beyond this list.            *)
(***************************************************************************)
EXTENDS Integers, Sequences, FiniteSets, SequencesExt

CONSTANTS MaxRow,       \* bound: current lines in the diff
          DiffSaved,    \* the saved threads that may appear, a sequence of their places
          RowSets,      \* bound: what may be shown of them
          MaxDrafts,    \* bound: inputs begun at a time
          MaxWritten,   \* bound: inputs with text
          MaxDiffs      \* bound: contents of the diff

Spans == {span \in [start : 1..MaxRow, end : 1..MaxRow] : span.start <= span.end}

ASSUME DiffAssumption ==
    /\ MaxRow \in Nat \ {0} /\ RowSets \subseteq SUBSET (1..MaxRow)
    /\ DiffSaved \in Seq(Spans)

VARIABLES
    diffContent,    \* the content of the diff, as a version
    rows,           \* its current lines that are shown
    diffThreads,    \* the threads of the server on the diff
    draftThreads,   \* the inputs that were begun, oldest first
    openThreadKeys, \* the threads that were opened
    activeThread,   \* the thread of the active comment; 0 if there is none
    written,        \* the places where text is typed, beyond this view
    resumed         \* history: the place the reader has just asked to go back to, if any

diffVars == <<diffContent, rows, diffThreads, draftThreads, openThreadKeys, activeThread, written, resumed>>

Spanning(span, l) == l \in span.start .. span.end

DiffTypeOK ==
    /\ rows \subseteq 1..MaxRow /\ diffThreads \subseteq DOMAIN DiffSaved
    /\ \A i, j \in DOMAIN draftThreads : draftThreads[i] = draftThreads[j] => i = j
    /\ ToSet(draftThreads) \cup written \subseteq Spans

-----------------------------------------------------------------------------
(* What a row shows *)

VisibleThreads == (openThreadKeys \cup {activeThread}) \cap diffThreads
ShownAt(l) == {t \in VisibleThreads : DiffSaved[t].end = l}
\* preferredCodeCommentThread, of those that end here.
EndingAt(l) == {t \in diffThreads : DiffSaved[t].end = l}
RowThread(l) ==
    IF activeThread \in EndingAt(l) THEN activeThread
    ELSE CHOOSE t \in EndingAt(l) : \A u \in EndingAt(l) :
             \/ DiffSaved[t].start < DiffSaved[u].start
             \/ DiffSaved[t].start = DiffSaved[u].start /\ t <= u

\* The first input that holds a line has it, and its composer is below its last line.
DraftAt(l) == SelectInSeq(draftThreads, LAMBDA span : Spanning(span, l))
\* (The fault of looking at its first line.)
ComposerAbove(l) == IF DraftAt(l) # 0 /\ draftThreads[DraftAt(l)].start = l THEN {draftThreads[DraftAt(l)]} ELSE {}
ComposerBelow(l) == IF DraftAt(l) # 0 /\ draftThreads[DraftAt(l)].end = l THEN {draftThreads[DraftAt(l)]} ELSE {}
RowOpen(l) == ShownAt(l) # {} \/ ComposerBelow(l) # {}
HasDiffComposer(span) == span.end \in rows /\ span \in ComposerBelow(span.end)

-----------------------------------------------------------------------------
(* What the reader does *)

DiffInit ==
    /\ diffContent = 1 /\ rows \in RowSets /\ diffThreads \in SUBSET DOMAIN DiffSaved
    /\ draftThreads = <<>> /\ openThreadKeys = {} /\ activeThread = 0 /\ written = {} /\ resumed = {}

\* (The faults of putting the new one first, and of beginning one twice.)
BeganFirst(drafts, span) == <<span>> \o RemoveFirst(drafts, span)
BeganTwice(drafts, span) == Append(drafts, span)
Began(drafts, span) == Append(RemoveFirst(drafts, span), span)
StartDiffComment(span) == draftThreads' = Began(draftThreads, span) /\ Len(draftThreads') <= MaxDrafts

WithoutComposer(l) == IF ComposerBelow(l) = {} THEN draftThreads ELSE RemoveAt(draftThreads, DraftAt(l))
\* (The fault of closing what the marker stands for only.)
CloseRowThread(l) ==
    /\ openThreadKeys' = openThreadKeys \ (IF EndingAt(l) = {} THEN {} ELSE {RowThread(l)})
    /\ draftThreads' = IF EndingAt(l) # {} THEN draftThreads ELSE WithoutComposer(l)
CloseAllAt(l) ==
    /\ openThreadKeys' = openThreadKeys \ ShownAt(l)
    /\ draftThreads' = WithoutComposer(l)

\* The marker of a row closes what is shown there, else opens its thread, else begins a comment.
ClickDiffMarker(l) ==
    /\ l \in rows
    /\ IF RowOpen(l) THEN CloseAllAt(l)
       ELSE IF EndingAt(l) # {}
       THEN openThreadKeys' = openThreadKeys \cup {RowThread(l)} /\ UNCHANGED draftThreads
       ELSE StartDiffComment([start |-> l, end |-> l]) /\ UNCHANGED openThreadKeys
    /\ UNCHANGED <<diffContent, rows, diffThreads, activeThread, written>>

\* The row itself does so if it has a thread.
ClickDiffRow(l) == EndingAt(l) # {} /\ ClickDiffMarker(l)

\* updateSelectionComment: from the first to the last selected row.
SelectRows(a, b) ==
    /\ {a, b} \subseteq rows /\ a <= b /\ StartDiffComment([start |-> a, end |-> b])
    /\ UNCHANGED <<diffContent, rows, diffThreads, openThreadKeys, activeThread, written>>

\* New feedback beside a thread, or again in an input of its own.
StartNewDiffFeedback(t) ==
    /\ t \in ShownAt(DiffSaved[t].end) /\ DiffSaved[t].end \in rows
    /\ openThreadKeys' = openThreadKeys \ {t} /\ StartDiffComment(DiffSaved[t])
    /\ UNCHANGED <<diffContent, rows, diffThreads, activeThread, written>>

TypeInDiff(span) ==
    /\ HasDiffComposer(span) /\ Cardinality(written) < MaxWritten /\ written' = written \cup {span}
    /\ UNCHANGED <<diffContent, rows, diffThreads, draftThreads, openThreadKeys, activeThread>>

\* closeCommentThread, after the input was collapsed, or discarded because it was saved.
CloseDiffInput(span, kept) ==
    /\ HasDiffComposer(span) /\ draftThreads' = RemoveFirst(draftThreads, span)
    /\ written' = IF kept THEN written ELSE written \ {span}
    /\ UNCHANGED <<diffContent, rows, diffThreads, openThreadKeys, activeThread>>
CloseDiffThread(t) ==
    /\ t \in ShownAt(DiffSaved[t].end) /\ openThreadKeys' = openThreadKeys \ {t}
    /\ UNCHANGED <<diffContent, rows, diffThreads, draftThreads, activeThread, written>>

\* From outside: the threads, the active comment, and a list that leads back to what was typed.
DiffThreadsChange(ts) ==
    /\ diffThreads' = ts
    /\ UNCHANGED <<diffContent, rows, draftThreads, openThreadKeys, activeThread, written>>
ActivateThread(t) ==
    /\ activeThread' = t /\ UNCHANGED <<diffContent, rows, diffThreads, draftThreads, openThreadKeys, written>>
ResumeInDiff(span) ==
    /\ span \in written /\ resumed' = {span}
    /\ UNCHANGED <<diffContent, rows, diffThreads, draftThreads, openThreadKeys, activeThread, written>>

\* (The fault of keeping what belongs to the diff before.)
KeepLocal == UNCHANGED <<draftThreads, openThreadKeys>>
ResetLocal == draftThreads' = <<>> /\ openThreadKeys' = {}
DiffChanges(lines) ==
    /\ diffContent < MaxDiffs /\ diffContent' = diffContent + 1 /\ rows' = lines
    /\ ResetLocal /\ UNCHANGED <<diffThreads, activeThread, written>>

DiffDeed ==
    \/ \E l \in 1..MaxRow : ClickDiffMarker(l) \/ ClickDiffRow(l)
    \/ \E a, b \in 1..MaxRow : SelectRows(a, b)
    \/ \E t \in DOMAIN DiffSaved : StartNewDiffFeedback(t) \/ CloseDiffThread(t)
    \/ \E t \in diffThreads \cup {0} : ActivateThread(t)
    \/ \E span \in Spans : TypeInDiff(span) \/ CloseDiffInput(span, TRUE) \/ CloseDiffInput(span, FALSE)
    \/ \E ts \in SUBSET DOMAIN DiffSaved : DiffThreadsChange(ts)
    \/ \E lines \in RowSets : DiffChanges(lines)
DiffNext ==
    \/ DiffDeed /\ resumed' = {}
    \/ \E span \in Spans : ResumeInDiff(span)

-----------------------------------------------------------------------------
(* Properties *)

\* An input that shares its lines with no other has its composer, as long as its last line is shown.
LoneDraftIsShown ==
    \A i \in DOMAIN draftThreads :
        LET span == draftThreads[i]
        IN  /\ span.end \in rows
            /\ \A j \in DOMAIN draftThreads \ {i} : \A l \in 1..MaxRow :
                   ~(Spanning(span, l) /\ Spanning(draftThreads[j], l))
            => HasDiffComposer(span)

\* Beginning a comment takes the composer of no other away, though they share lines.
OthersStay ==
    [][\A span \in Spans :
          /\ HasDiffComposer(span) /\ ~HasDiffComposer(span)' /\ diffContent' = diffContent
          => \/ span \notin ToSet(draftThreads')
             \/ Last(draftThreads') = span /\ Last(draftThreads) # span]_diffVars

\* The marker of a row closes all that is shown there, but the active thread, and then shows the
\* input below it, if there is one.
MarkerCloses ==
    [][\A l \in rows : ClickDiffMarker(l) /\ RowOpen(l) =>
          /\ ShownAt(l)' \subseteq {activeThread}
          /\ (ComposerBelow(l) # {} => ComposerBelow(l)' # ComposerBelow(l))]_diffVars

\* A new diff shows none of the threads and inputs that were opened on the old one.
NewDiffIsClean ==
    [][diffContent' # diffContent =>
          \A l \in 1..MaxRow : ComposerBelow(l)' = {} /\ ShownAt(l)' \subseteq {activeThread}]_diffVars

\* What was typed can be got at from the list of unsaved inputs.
ResumedIsInView == \A span \in resumed : span.end \in rows => HasDiffComposer(span)
=============================================================================
