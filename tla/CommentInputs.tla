---------------------------- MODULE CommentInputs ----------------------------
(***************************************************************************)
(* What a reader types into the comment composers of a page before it is      *)
(* saved as a draft: ui/src/state/comment-input-session.ts, its provider, and  *)
(* the composers of ui/src/features/comments/components.                      *)
(*                                                                         *)
(* A session is the text typed at one place of one file; it is kept in the     *)
(* page and, with every change, in the browser's storage.  All panes that show *)
(* the file have a composer for an open session.  A composer of the rendered   *)
(* document is emptied as soon as its text is sent, and is there for the next   *)
(* thought; one of the source keeps the text until the answer comes, and closes.*)
(* Text is a set of thoughts, which are typed one by one.                      *)
(***************************************************************************)
EXTENDS Integers, Sequences, FiniteSets, SequencesExt

CONSTANTS Anchors,      \* places of the file
          Panes,        \* panes that show it
          Cautions,     \* of the reader: uses one_pane, waits for the workspace before typing,
                        \* waits for the saves before leaving a composer or the page, and
                        \* deletes the draft of a thread only while no other note is typed in it
          MaxThoughts,  \* bound: thoughts typed
          MaxVersion    \* bound: versions of the file

ASSUME CautionsAssumption ==
    /\ MaxThoughts \in Nat
    /\ Cautions \subseteq {"one_pane", "workspace", "saves", "deletes", "reanchors", "selections"}

VARIABLES
    fileHash,       \* the version of the file that is shown
    threads,        \* the thread at each place: none, pending (drafts) or published
    kept,           \* for each thought, how often it was saved
    stored,         \* the sessions in the browser's storage
    surface,        \* rendered or source
    hydrated,       \* the workspace is known and the sessions are those of the storage
    sessions, shown, saves,     \* the page: sessions, composers of each pane, saves in flight
    typed, dropped, \* history: thoughts typed, thoughts the reader discarded
    faults          \* how often a save may fail, from here on

inputVars == <<fileHash, threads, kept, stored, surface, hydrated, sessions, shown, saves,
               typed, dropped, faults>>

Thoughts == 1..MaxThoughts
Texts(records) == UNION {record.text : record \in records}
AnchorsOf(ss) == {ss[i].anchor : i \in DOMAIN ss}
At(ss, a) == CHOOSE session \in ToSet(ss) : session.anchor = a
BodyAt(ss, a) == IF a \in AnchorsOf(ss) THEN At(ss, a).text ELSE {}
IsStale(a) == a \in AnchorsOf(sessions) /\ At(sessions, a).stale

\* Those of the sessions that are wanted, in their order (Array.filter).
Keeping(ss, wanted) ==
    LET upTo[n \in 0..Len(ss)] ==
            IF n = 0 THEN <<>> ELSE IF ss[n] \in wanted THEN Append(upTo[n - 1], ss[n]) ELSE upTo[n - 1]
    IN  upTo[Len(ss)]

OpenSessions(ss) == Keeping(ss, {session \in ToSet(ss) : ~session.collapsed})

InputsTypeOK ==
    /\ DOMAIN kept = Thoughts /\ typed \in 0..MaxThoughts /\ dropped \subseteq 1..typed
    /\ \A save \in saves : save.text # {}
    /\ \A i, j \in DOMAIN sessions : sessions[i].anchor = sessions[j].anchor => i = j
    /\ surface = "rendered" => \A p \in Panes : Cardinality(shown[p]) <= 1

-----------------------------------------------------------------------------
(* reduceCommentInputSessions *)

Update(ss, as, Change(_)) ==
    [i \in DOMAIN ss |-> IF ss[i].anchor \in as THEN Change(ss[i]) ELSE ss[i]]

\* "start" and "change": the session of the place, or a new one.  A stale one stays so.
Enter(ss, a, text) ==
    LET Change(session) == [session EXCEPT !.text = text, !.collapsed = FALSE,
                                           !.hash = IF session.stale THEN @ ELSE fileHash]
    IN  IF a \in AnchorsOf(ss) THEN Update(ss, {a}, Change)
        ELSE Append(ss, [anchor |-> a, text |-> text, hash |-> fileHash, stale |-> FALSE, collapsed |-> FALSE])

Collapse(ss, as) == Update(ss, as, LAMBDA session : [session EXCEPT !.collapsed = TRUE])
Expand(ss, a) == Update(ss, {a}, LAMBDA session : [session EXCEPT !.collapsed = FALSE])
\* (The fault of discarding what is shown and not what was typed.)
DiscardView(ss, a) == Update(ss, {a}, LAMBDA session : [session EXCEPT !.collapsed = TRUE])

Discard(ss, a) == Keeping(ss, {session \in ToSet(ss) : session.anchor # a})
Reanchor(ss, a) ==
    Update(ss, {a}, LAMBDA session : [session EXCEPT !.hash = fileHash, !.stale = FALSE, !.collapsed = FALSE])

\* (The fault of the older "discard-anchors", which asks for no empty text.)
DiscardAnchors(ss, as) == Keeping(ss, {session \in ToSet(ss) : session.anchor \notin as})

DiscardEmptyAnchors(ss, as) == Keeping(ss, {session \in ToSet(ss) : session.anchor \notin as \/ session.text # {}})

\* (The fault of marking what is open only.)
MarkOpen(ss, hash) ==
    [i \in DOMAIN ss |-> [ss[i] EXCEPT !.stale = @ \/ (~ss[i].collapsed /\ ss[i].hash # hash)]]

MarkPathVersion(ss, hash) == [i \in DOMAIN ss |-> [ss[i] EXCEPT !.stale = @ \/ ss[i].hash # hash]]

\* Of what was stored, a stale session without text is left out.
Restored(ss) == Keeping(ss, {session \in ToSet(ss) : ~session.stale \/ session.text # {}})

-----------------------------------------------------------------------------
(* The composers *)

\* (The fault of a composer for every open session everywhere.)
ComposersForAll(ss, show) == IF ss = <<>> THEN show ELSE [p \in Panes |-> AnchorsOf(OpenSessions(ss))]

\* The rendered document has one composer, for the first open session; the source has one for
\* each of them; without any, the composers are those that were there for saved threads.
Composers(ss, show) ==
    LET open == OpenSessions(ss)
    IN  IF open = <<>> THEN show
        ELSE IF surface = "rendered" THEN [p \in Panes |-> {Head(open).anchor}]
        ELSE [p \in Panes |-> AnchorsOf(open)]

\* Every change of the sessions is stored, and shown by every pane.  A composer that is gone
\* does not see what is typed from then on.
Settle(ss, show, sent) ==
    /\ sessions' = ss /\ shown' = Composers(ss, show)
    /\ stored' = IF hydrated THEN ss ELSE stored
    /\ saves' = {LET mounted == save.mounted /\ save.anchor \in shown'[save.pane]
                 IN  [save EXCEPT !.mounted = mounted,
                                  !.latest = IF mounted THEN BodyAt(ss, save.anchor) ELSE @] : save \in sent}

Without(show, p, as) == [show EXCEPT ![p] = @ \ as]

SavingIn(p, a) == \E save \in saves : save.mounted /\ save.pane = p /\ save.anchor = a
NoSaving == "saves" \in Cautions => saves = {}
MayWork(p) ==
    /\ "workspace" \in Cautions => hydrated
    /\ "one_pane" \in Cautions => p = CHOOSE q \in Panes : TRUE
Steady == UNCHANGED <<fileHash, threads, kept, surface, hydrated>>

InputsInit ==
    /\ fileHash = 1 /\ threads = [a \in Anchors |-> "none"] /\ kept = [t \in Thoughts |-> 0]
    /\ stored = <<>> /\ surface \in {"rendered", "source"} /\ hydrated = FALSE
    /\ sessions = <<>> /\ shown = [p \in Panes |-> {}] /\ saves = {}
    /\ typed = 0 /\ dropped = {}

\* A composer is opened at a place; that of the rendered document leaves the one before.  New
\* feedback on a published thread is a thread of its own.
Start(p, a) ==
    /\ MayWork(p) /\ NoSaving /\ a \notin shown[p]
    /\ LET left == IF surface = "rendered" THEN Collapse(sessions, shown[p]) ELSE sessions
       IN  Settle(Enter(left, a, BodyAt(left, a)), [shown EXCEPT ![p] = {a}], saves)
    /\ threads' = [threads EXCEPT ![a] = IF @ = "published" THEN "none" ELSE @]
    /\ UNCHANGED <<fileHash, kept, surface, hydrated, typed, dropped, faults>>

\* The marker of a thread opens it, without a session.
OpenThread(p, a) ==
    /\ MayWork(p) /\ NoSaving /\ threads[a] # "none" /\ a \notin shown[p] /\ OpenSessions(sessions) = <<>>
    /\ Settle(sessions, [shown EXCEPT ![p] = {a}], saves)
    /\ Steady /\ UNCHANGED <<typed, dropped, faults>>

ComposerAt(p, a) == a \in shown[p] /\ (threads[a] = "published" => BodyAt(sessions, a) # {})

\* The text area is disabled while the composer saves, unless it is there for the next note.
Type(p, a) ==
    /\ MayWork(p) /\ ComposerAt(p, a) /\ ~IsStale(a) /\ (SavingIn(p, a) => threads[a] = "pending")
    /\ typed < MaxThoughts /\ typed' = typed + 1
    /\ Settle(Enter(sessions, a, BodyAt(sessions, a) \cup {typed'}), shown, saves)
    /\ Steady /\ UNCHANGED <<dropped, faults>>

\* Escape and the close button.
RequestClose(p, a) ==
    /\ MayWork(p) /\ a \in shown[p] /\ NoSaving
    /\ Settle(Collapse(sessions, {a}), Without(shown, p, {a}), saves)
    /\ Steady /\ UNCHANGED <<typed, dropped, faults>>

DiscardInput(p, a) ==
    /\ MayWork(p) /\ ComposerAt(p, a) /\ BodyAt(sessions, a) # {} /\ NoSaving
    /\ dropped' = dropped \cup BodyAt(sessions, a)
    /\ Settle(Discard(sessions, a), Without(shown, p, {a}), saves)
    /\ Steady /\ UNCHANGED <<typed, faults>>

\* The list of unsaved inputs leads back to one of them.
Resume(p, a) ==
    /\ MayWork(p) /\ NoSaving /\ BodyAt(sessions, a) # {} /\ At(sessions, a).collapsed
    /\ LET others == IF surface = "rendered" THEN Anchors \ {a} ELSE {}
       IN  Settle(Expand(Collapse(sessions, others), a), shown, saves)
    /\ Steady /\ UNCHANGED <<typed, dropped, faults>>

ReanchorHere(p, a) ==
    /\ MayWork(p) /\ a \in shown[p] /\ IsStale(a) /\ Settle(Reanchor(sessions, a), shown, saves)
    /\ Steady /\ UNCHANGED <<typed, dropped, faults>>

\* (The fault of a composer that may be submitted while it is saving.)
AnyTime(p, a) == a \in shown[p]

NotSaving(p, a) == ~SavingIn(p, a)

Submit(p, a) ==
    LET text == BodyAt(sessions, a)
        continues == threads[a] = "pending"
        keeps == continues \/ (threads[a] = "none" /\ surface = "rendered")
        save == [pane |-> p, anchor |-> a, text |-> text, continues |-> continues, keeps |-> keeps,
                 latest |-> text, mounted |-> TRUE, served |-> FALSE]
    IN  /\ MayWork(p) /\ ComposerAt(p, a) /\ text # {} /\ ~IsStale(a) /\ NotSaving(p, a)
        /\ Settle(IF keeps THEN Enter(sessions, a, {}) ELSE sessions, shown, saves \cup {save})
        /\ Steady /\ UNCHANGED <<typed, dropped, faults>>

Keep(texts) == kept' = [t \in Thoughts |-> IF t \in texts THEN kept[t] + 1 ELSE kept[t]]

Serve(save) ==
    /\ ~save.served /\ Keep(save.text)
    /\ saves' = (saves \ {save}) \cup {[save EXCEPT !.served = TRUE]}
    /\ UNCHANGED <<fileHash, threads, stored, surface, hydrated, sessions, shown, typed, dropped, faults>>

\* The draft is in the thread now.  The session of the place is discarded, unless the composer
\* went on in its thread.
DraftCreated(save) ==
    /\ save.served /\ threads' = [threads EXCEPT ![save.anchor] = "pending"]
    /\ Settle(IF save.continues THEN sessions ELSE Discard(sessions, save.anchor),
              IF save.keeps THEN shown ELSE Without(shown, save.pane, {save.anchor}), saves \ {save})
    /\ UNCHANGED <<fileHash, kept, surface, hydrated, typed, dropped, faults>>

\* (The fault of putting back what was sent, and only that.)
SentText(save) == save.text

\* What was typed since is after what was sent.
RestoredBody(save) == save.text \cup save.latest

SaveFails(save) ==
    /\ ~save.served /\ faults > 0 /\ faults' = faults - 1
    /\ Settle(IF save.keeps THEN Enter(sessions, save.anchor, RestoredBody(save)) ELSE sessions,
              shown, saves \ {save})
    /\ Steady /\ UNCHANGED <<typed, dropped>>

\* The last draft of a thread is deleted: its composer goes, with what was typed in it.
DeletePendingDraft(p, a) ==
    /\ MayWork(p) /\ NoSaving /\ a \in shown[p] /\ threads[a] = "pending" /\ ~SavingIn(p, a)
    /\ "deletes" \in Cautions => BodyAt(sessions, a) = {}
    /\ threads' = [threads EXCEPT ![a] = "none"]
    /\ Settle(Discard(sessions, a), Without(shown, p, {a}), saves)
    /\ UNCHANGED <<fileHash, kept, surface, hydrated, typed, dropped, faults>>

\* Drafts are published when none is being saved; empty inputs at their places go with them.
Publish ==
    LET pending == {a \in Anchors : threads[a] = "pending"}
    IN  /\ pending # {} /\ saves = {} /\ hydrated
        /\ threads' = [a \in Anchors |-> IF a \in pending THEN "published" ELSE threads[a]]
        /\ Settle(DiscardEmptyAnchors(sessions, pending), shown, saves)
        /\ UNCHANGED <<fileHash, kept, surface, hydrated, typed, dropped, faults>>

FileChanges ==
    /\ fileHash < MaxVersion /\ fileHash' = fileHash + 1
    /\ Settle(MarkPathVersion(sessions, fileHash'), shown, saves)
    /\ UNCHANGED <<threads, kept, surface, hydrated, typed, dropped, faults>>

\* A save on its way reaches the server or does not.
Reload ==
    /\ hydrated /\ NoSaving
    /\ \E reached \in SUBSET {save \in saves : ~save.served} :
          /\ Cardinality(reached) <= 1 /\ Keep(Texts(reached))
    /\ sessions' = <<>> /\ shown' = [p \in Panes |-> {}] /\ saves' = {} /\ hydrated' = FALSE
    /\ UNCHANGED <<fileHash, threads, stored, surface, typed, dropped, faults>>

\* The reader goes to the other view of the file.
SwitchSurface ==
    /\ saves = {} /\ surface' = IF surface = "source" THEN "rendered" ELSE "source"
    /\ sessions = <<>> /\ shown' = [p \in Panes |-> {}]
    /\ UNCHANGED <<fileHash, threads, kept, stored, hydrated, sessions, saves, typed, dropped, faults>>

\* setWorkspaceRoot: what was typed before is replaced.
Hydrate ==
    /\ ~hydrated /\ hydrated' = TRUE
    /\ LET ss == MarkPathVersion(Restored(stored), fileHash)
       IN  sessions' = ss /\ stored' = ss /\ shown' = Composers(ss, shown)
    /\ UNCHANGED <<fileHash, threads, kept, surface, saves, typed, dropped, faults>>

InputsNext ==
    \/ \E p \in Panes, a \in Anchors :
          \/ Start(p, a) \/ OpenThread(p, a) \/ Type(p, a) \/ RequestClose(p, a) \/ DiscardInput(p, a)
          \/ Resume(p, a) \/ ReanchorHere(p, a) \/ Submit(p, a) \/ DeletePendingDraft(p, a)
    \/ \E save \in saves : Serve(save) \/ DraftCreated(save) \/ SaveFails(save)
    \/ Publish \/ FileChanges \/ Reload \/ SwitchSurface \/ Hydrate

-----------------------------------------------------------------------------
(* Properties *)

\* Nothing that was typed is lost: until the reader discards it, it is in a session, on its way
\* to the server or saved; after a reload it is in the storage.
TypedTextIsKept ==
    \A t \in 1..typed :
        \/ t \in dropped \/ kept[t] > 0
        \/ t \in Texts(saves) \/ t \in Texts(ToSet(sessions) \cup (IF hydrated THEN {} ELSE ToSet(stored)))

\* A thought becomes one draft, however its save fails and is tried again.
SavedOnce == \A t \in Thoughts : kept[t] <= 1

\* A session that does not say that the file changed was begun, or put in its place again, on
\* the version that is shown.
FreshIsCurrent == \A i \in DOMAIN sessions : ~sessions[i].stale => sessions[i].hash = fileHash

\* What the reader decided on does not come back: a discarded thought is in no session and is
\* not stored.
DiscardedStaysGone == dropped \cap Texts(ToSet(sessions) \cup ToSet(stored)) = {}

-----------------------------------------------------------------------------
(* The composer beside selected text: SelectionCommentComposer.tsx in the viewers of plain
   text, tables, diagrams and rendered changes.  What is typed is in the sessions of
   CommentInputs; the viewer holds the selection until the next click or key without one, which
   may be the very key that is typed in the composer where the composer is inside the watched
   element. *)

\* The reader's Cautions may also be: to re-anchor only while no older selection is held, and to
\* resume only while none is.
VARIABLE held   \* the selection the viewer holds, if any: a place and the version it was made on

selectionVars == <<held, inputVars>>

\* The selection goes before the newest open input.
Candidates == OpenSessions(sessions) \o held
ComposerIsShown == Candidates # <<>>
Effective == Last(Candidates)
Body == BodyAt(sessions, Effective.anchor)
Busy == \E save \in saves : save.mounted
Texting == ComposerIsShown /\ ~IsStale(Effective.anchor) /\ ~Busy

SelectionTypeOK ==
    /\ Len(held) <= 1 /\ AnchorsOf(held) \subseteq AnchorsOf(sessions)
    /\ \A save \in saves : save.text # {} /\ save.text \subseteq 1..typed

SelectionRest == UNCHANGED <<threads, stored, surface, hydrated, shown>>

SelectionInit == held = <<>>

\* A selection starts an input at its place, or goes on with the one that is there.
HoldSelection(a) ==
    /\ held' = <<[anchor |-> a, hash |-> fileHash]>>
    /\ sessions' = Enter(sessions, a, BodyAt(sessions, a))
    /\ SelectionRest /\ UNCHANGED <<fileHash, kept, saves, typed, dropped, faults>>

\* updateSelectionComment, without a selection in the watched element.
LetGo == held # <<>> /\ held' = <<>> /\ UNCHANGED inputVars

\* "change" puts the shown draft into the session, unless that is stale.
Write(ss, draft, text) ==
    Update(Enter(ss, draft.anchor, text), {draft.anchor},
           LAMBDA session : [session EXCEPT !.hash = IF session.stale THEN @ ELSE draft.hash])
TypeHere ==
    /\ Texting /\ typed < MaxThoughts /\ typed' = typed + 1
    /\ sessions' = Write(sessions, Effective, Body \cup {typed'})
    /\ SelectionRest /\ UNCHANGED <<fileHash, held, kept, saves, dropped, faults>>

\* (The fault of a viewer that is not told.)
NotTold == UNCHANGED held
Dismiss == held' = <<>>
\* The buttons of the composer are there unless it saves; those of a stale input always.
MayClose == ComposerIsShown /\ (~Busy \/ IsStale(Effective.anchor))
CloseComposer ==
    /\ MayClose /\ sessions' = Collapse(sessions, {Effective.anchor}) /\ Dismiss
    /\ SelectionRest /\ UNCHANGED <<fileHash, kept, saves, typed, dropped, faults>>
DiscardHere ==
    /\ MayClose /\ sessions' = Discard(sessions, Effective.anchor) /\ Dismiss
    /\ dropped' = dropped \cup Body
    /\ SelectionRest /\ UNCHANGED <<fileHash, kept, saves, typed, faults>>

OldSelection == held # <<>> /\ Head(held).hash # fileHash
ReanchorComposer ==
    /\ ComposerIsShown /\ IsStale(Effective.anchor) /\ ("reanchors" \in Cautions => ~OldSelection)
    /\ sessions' = Reanchor(sessions, Effective.anchor)
    /\ SelectionRest /\ UNCHANGED <<held, fileHash, kept, saves, typed, dropped, faults>>

\* The guards are those of savingRef and of the button.
SaveSelection ==
    /\ Texting /\ Body # {}
    /\ saves' = saves \cup {[anchor |-> Effective.anchor, text |-> Body, hash |-> Effective.hash, mounted |-> TRUE]}
    /\ SelectionRest /\ UNCHANGED <<fileHash, held, kept, sessions, typed, dropped, faults>>

SelectionSaved(save) ==
    /\ Keep(save.text) /\ saves' = saves \ {save}
    /\ sessions' = Discard(sessions, save.anchor)
    /\ held' = IF save.mounted THEN <<>> ELSE held
    /\ SelectionRest /\ UNCHANGED <<fileHash, typed, dropped, faults>>

SelectionFails(save) ==
    /\ faults > 0 /\ faults' = faults - 1 /\ saves' = saves \ {save}
    /\ SelectionRest /\ UNCHANGED <<held, fileHash, kept, sessions, typed, dropped>>

VersionChanges ==
    /\ fileHash < MaxVersion /\ fileHash' = fileHash + 1
    /\ sessions' = MarkPathVersion(sessions, fileHash')
    /\ SelectionRest /\ UNCHANGED <<held, kept, saves, typed, dropped, faults>>

\* (The fault of opening the one and leaving the others.)
LeaveOpen(ss, a) == ss
CloseOthers(ss, a) == Collapse(ss, Anchors \ {a})

\* The list of unsaved inputs leads back to one: it is opened, and the others are closed.
ResumeSelection(a) ==
    /\ BodyAt(sessions, a) # {} /\ ("selections" \in Cautions => held = <<>>)
    /\ sessions' = Expand(CloseOthers(sessions, a), a)
    /\ SelectionRest /\ UNCHANGED <<held, fileHash, kept, saves, typed, dropped, faults>>

\* The viewer goes and comes back: what it held is gone, and its answers come to nobody.
LeaveFile ==
    /\ NoSaving /\ held' = <<>> /\ saves' = {[save EXCEPT !.mounted = FALSE] : save \in saves}
    /\ SelectionRest /\ UNCHANGED <<fileHash, kept, sessions, typed, dropped, faults>>

SelectionNext ==
    \/ \E a \in Anchors : HoldSelection(a) \/ ResumeSelection(a)
    \/ LetGo \/ TypeHere \/ CloseComposer \/ DiscardHere \/ ReanchorComposer \/ SaveSelection
    \/ \E save \in saves : SelectionSaved(save) \/ SelectionFails(save)
    \/ VersionChanges \/ LeaveFile

-----------------------------------------------------------------------------
(* Properties.  Those of CommentInputs hold of this composer too: what is       *)
(* typed is kept, saved once, and gone when it was discarded.                   *)

\* A comment that is sent says the version of the file that is shown: a file that changes makes
\* its inputs stale, and they are saved only after they were put in their place again.
SentIsCurrent == [][SaveSelection => Effective.hash = fileHash]_selectionVars

\* The input that is resumed is the one that is shown.
ResumedIsShown == [][\A a \in Anchors : ResumeSelection(a) => Effective'.anchor = a]_selectionVars

=============================================================================
