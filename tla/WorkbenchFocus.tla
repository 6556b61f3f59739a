---------------------------- MODULE WorkbenchFocus ----------------------------
(***************************************************************************)
(* Where a browser page has its user (ui/src/features/workbench/             *)
(* WorkbenchContainer.tsx, ui/src/state/search-palette.ts and                *)
(* search-navigation.ts): the palette and its searches, the comment that is  *)
(* open, the inputs that are taken up again, and the files that are loaded   *)
(* on the way there, which are answered in any order.                        *)
(***************************************************************************)
EXTENDS Integers, Sequences, FiniteSets, SequencesExt

CONSTANTS Queries,      \* what may be searched for
          NoQuery,
          Hits,         \* how many lines a text search finds, at most
          Notes,        \* comments, and inputs with text that is not saved yet
          NoNote,
          OnDiff,       \* those of them that are shown on a difference
          MaxSteps      \* bound: loads in flight

ASSUME FocusAssumption == Hits \in Nat \ {0}

VARIABLES
    palette, help,              \* the palette: open, mode, query; the list of shortcuts
    narrow, compactInspector,   \* a small window shows the inspector over the page
    waiting, searches, results, loading,    \* per kind of search
    textSearch,                 \* the search whose hits are visited, and the visited one
    focusedHit,                 \* the hit that the source is scrolled to
    activeComment, resumed, resumeVersion,
    steps,                      \* loads in flight, and what follows them
    acts,                       \* how often users act and requests fail, from here on
    wish                        \* history: the resumption that nothing followed

overlays == <<palette, help, narrow, compactInspector>>
search == <<waiting, searches, results, loading>>
place == <<textSearch, focusedHit, activeComment, resumed, resumeVersion>>
focusVars == <<overlays, search, place, steps, acts, wish>>

Kinds == {"file", "text"}
NoHit == [query |-> NoQuery, index |-> 0]
Closed == [open |-> FALSE, mode |-> "file", query |-> NoQuery]
Act(what) == acts[what] > 0 /\ acts' = [acts EXCEPT ![what] = @ - 1]

FocusTypeOK ==
    /\ palette.open \in BOOLEAN /\ palette.mode \in Kinds \cup {"action"}
    /\ ~(palette.open /\ help)          \* one overlay at a time
    /\ compactInspector => narrow
    /\ textSearch \in [query : Queries \cup {NoQuery}, index : 0..(Hits - 1)]
    /\ activeComment \in Notes \cup {NoNote} /\ resumed \in Notes \cup {NoNote}
    /\ \A i \in DOMAIN steps : steps[i].version <= resumeVersion

FocusInit ==
    /\ palette = Closed /\ help = FALSE /\ narrow \in BOOLEAN /\ compactInspector = FALSE
    /\ waiting = [k \in Kinds |-> NoQuery] /\ searches = {}
    /\ results = [k \in Kinds |-> NoQuery] /\ loading = [k \in Kinds |-> FALSE]
    /\ textSearch = NoHit /\ focusedHit = NoHit
    /\ activeComment = NoNote /\ resumed = NoNote /\ resumeVersion = 0
    /\ steps = <<>> /\ wish = NoNote

-----------------------------------------------------------------------------
(* Searching *)

\* What is to be searched for, of each kind.
Wanted(p, k) == IF p.open /\ p.mode = k THEN p.query ELSE NoQuery

\* (The fault of letting the answers come.)
KeepSearches == searches

\* Nobody waits for a search that was aborted.
AbortSearches == {}

\* The effect of every change of the palette: a new search, after a while.
Turn(p) ==
    /\ palette' = p
    /\ IF p = palette THEN UNCHANGED search
       ELSE /\ searches' = AbortSearches
            /\ waiting' = [k \in Kinds |-> Wanted(p, k)]
            /\ loading' = [k \in Kinds |-> Wanted(p, k) # NoQuery]
            /\ results' = [k \in Kinds |-> NoQuery]

OpenPalette(mode) ==
    /\ Act("users") /\ Turn([open |-> TRUE, mode |-> mode, query |-> NoQuery]) /\ help' = FALSE
    /\ UNCHANGED <<narrow, compactInspector, place, steps, wish>>

TypeQuery(q) ==
    /\ palette.open /\ Act("users") /\ Turn([palette EXCEPT !.query = q])
    /\ UNCHANGED <<help, narrow, compactInspector, place, steps, wish>>

SearchTimer(k) ==
    /\ waiting[k] # NoQuery /\ waiting' = [waiting EXCEPT ![k] = NoQuery]
    /\ searches' = searches \cup {[kind |-> k, query |-> waiting[k]]}
    /\ UNCHANGED <<overlays, results, loading, place, steps, acts, wish>>

SearchAnswered(s) ==
    /\ searches' = searches \ {s} /\ loading' = [loading EXCEPT ![s.kind] = FALSE]
    /\ \/ results' = [results EXCEPT ![s.kind] = s.query] /\ UNCHANGED acts
       \/ Act("faults") /\ UNCHANGED results
    /\ UNCHANGED <<overlays, waiting, place, steps, wish>>

-----------------------------------------------------------------------------
(* Overlays *)

ToggleHelp ==
    /\ Act("users") /\ Turn([palette EXCEPT !.open = FALSE]) /\ help' = ~help
    /\ UNCHANGED <<narrow, compactInspector, place, steps, wish>>

ToggleInspector ==
    /\ Act("users") /\ narrow /\ compactInspector' = ~compactInspector
    /\ UNCHANGED <<palette, help, narrow, search, place, steps, wish>>

ResizeWindow ==
    /\ Act("users") /\ narrow' = ~narrow /\ compactInspector' = FALSE
    /\ UNCHANGED <<palette, help, search, place, steps, wish>>

\* Escape closes what lies on top.
DismissOverlays ==
    /\ Act("users")
    /\ IF compactInspector /\ ~palette.open /\ ~help
       THEN compactInspector' = FALSE /\ UNCHANGED <<palette, help, search, activeComment>>
       ELSE /\ Turn([palette EXCEPT !.open = FALSE]) /\ help' = FALSE /\ activeComment' = NoNote
            /\ UNCHANGED compactInspector
    /\ UNCHANGED <<narrow, textSearch, focusedHit, resumed, resumeVersion, steps, wish>>

\* The shortcut that closes a tab closes an overlay first.
CloseOverlay ==
    /\ help \/ palette.open
    /\ Act("users") /\ help' = FALSE
    /\ IF help THEN UNCHANGED <<palette, search>> ELSE Turn([palette EXCEPT !.open = FALSE])
    /\ UNCHANGED <<narrow, compactInspector, place, steps, wish>>

-----------------------------------------------------------------------------
(* Going to a hit, a comment or an input: a file is loaded first *)

Step(why, what, hit) == [why |-> why, what |-> what, hit |-> hit, version |-> resumeVersion, stage |-> "file"]

\* loadFile closes the comment that is open.
LoadThen(step) ==
    /\ Len(steps) < MaxSteps /\ steps' = Append(steps, step)
    /\ activeComment' = NoNote

OpenFromPalette(index) ==
    /\ palette.open /\ results["text"] # NoQuery /\ Act("users")
    /\ Turn([palette EXCEPT !.open = FALSE, !.query = NoQuery])
    /\ LoadThen(Step("hit", NoNote, [query |-> results["text"], index |-> index]))
    /\ UNCHANGED <<help, narrow, compactInspector, textSearch, focusedHit, resumed, resumeVersion, wish>>

\* (The fault of going on past the last hit.)
MoveOn(hit, delta) == [hit EXCEPT !.index = @ + delta]

MoveTextSearchSession(hit, delta) == [hit EXCEPT !.index = (@ + delta + Hits) % Hits]

MoveTextSearchResult(delta) ==
    LET next == MoveTextSearchSession(textSearch, delta)
    IN  /\ textSearch.query # NoQuery /\ Act("users") /\ textSearch' = next
        /\ LoadThen(Step("hit", NoNote, next))
        /\ UNCHANGED <<overlays, search, focusedHit, resumed, resumeVersion, wish>>

\* A comment of the queue, of a panel, of the shortcuts.
OpenReviewTarget(note) ==
    /\ Act("users") /\ Turn([palette EXCEPT !.open = FALSE]) /\ help' = FALSE
    /\ LoadThen(Step("target", note, NoHit))
    /\ UNCHANGED <<narrow, compactInspector, textSearch, focusedHit, resumed, resumeVersion, wish>>

ResumeCommentInput(note) ==
    /\ Act("users") /\ resumeVersion' = resumeVersion + 1
    /\ LoadThen([Step("resume", note, NoHit) EXCEPT !.version = resumeVersion + 1]) /\ wish' = note
    /\ UNCHANGED <<overlays, search, textSearch, focusedHit, resumed>>

OpenInlineComment(note) ==
    /\ Act("users") /\ activeComment' = note
    /\ UNCHANGED <<overlays, search, textSearch, focusedHit, resumed, resumeVersion, steps, wish>>

CloseInlineComment ==
    /\ Act("users") /\ resumeVersion' = resumeVersion + 1 /\ activeComment' = NoNote
    /\ wish' = NoNote
    /\ UNCHANGED <<overlays, search, textSearch, focusedHit, resumed, steps>>

\* Saving an input makes an older resumption void.
CreateComment ==
    /\ Act("users") /\ resumeVersion' = resumeVersion + 1 /\ resumed' = NoNote
    /\ wish' = NoNote
    /\ Len(steps) < MaxSteps /\ steps' = Append(steps, Step("save", NoNote, NoHit))
    /\ UNCHANGED <<overlays, search, textSearch, focusedHit, activeComment>>

-----------------------------------------------------------------------------
(* The file is there *)

\* (The fault of resuming in any case.)
AlwaysNewest(step) == step.why = "resume"

IsNewest(step) == step.version = resumeVersion

\* Differences are loaded too where the place is on one; then the place is shown.
Arrive(i) ==
    LET step == steps[i]
        more == step.why \in {"target", "resume"} /\ step.stage = "file" /\ step.what \in OnDiff
                /\ (step.why = "resume" => IsNewest(step))
        there == ~more
    IN  /\ steps' = IF more THEN [steps EXCEPT ![i].stage = "diff"] ELSE RemoveAt(steps, i)
        /\ IF there /\ step.why = "hit" THEN focusedHit' = step.hit /\ textSearch' = step.hit
           ELSE UNCHANGED <<focusedHit, textSearch>>
        /\ activeComment' = IF there /\ step.why = "target" THEN step.what
                            ELSE IF step.why = "save" THEN NoNote ELSE activeComment
        /\ resumed' = IF there /\ step.why = "resume" /\ IsNewest(step) THEN step.what ELSE resumed
        /\ UNCHANGED <<overlays, search, resumeVersion, acts, wish>>

Fail(i) ==
    /\ Act("faults") /\ steps' = RemoveAt(steps, i)
    /\ UNCHANGED <<overlays, search, place, wish>>

FocusNext ==
    \/ \E mode \in Kinds \cup {"action"} : OpenPalette(mode)
    \/ \E q \in Queries : TypeQuery(q)
    \/ \E k \in Kinds : SearchTimer(k)
    \/ \E s \in searches : SearchAnswered(s)
    \/ ToggleHelp \/ ToggleInspector \/ ResizeWindow \/ DismissOverlays \/ CloseOverlay
    \/ \E index \in 0..(Hits - 1) : OpenFromPalette(index)
    \/ \E delta \in {-1, 1} : MoveTextSearchResult(delta)
    \/ \E note \in Notes : OpenReviewTarget(note) \/ ResumeCommentInput(note) \/ OpenInlineComment(note)
    \/ CloseInlineComment \/ CreateComment
    \/ \E i \in DOMAIN steps : Arrive(i) \/ Fail(i)

-----------------------------------------------------------------------------
(* Properties *)

\* What a search shows was found for the query that is there, and it shows that it
\* searches exactly while an answer to that query is to come.
SearchIsForTheQuery ==
    \A k \in Kinds :
        /\ results[k] \in {NoQuery, Wanted(palette, k)}
        /\ loading[k] <=> waiting[k] # NoQuery \/ \E s \in searches : s = [kind |-> k, query |-> Wanted(palette, k)]

\* An input is taken up again only if that was the last thing asked for: a file that
\* arrives late does not reopen an input after another was resumed, one was saved or the
\* comment was closed.
ResumeYields == [][resumed' \notin {resumed, NoNote} => wish = resumed']_focusVars

=============================================================================
