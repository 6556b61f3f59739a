--------------------------- MODULE WorkbenchReview ---------------------------
(***************************************************************************)
(* What a browser page shows of the working tree's changes                   *)
(* (ui/src/features/workbench/WorkbenchContainer.tsx with                    *)
(* ui/src/state/git-review-refresh.ts): the list of changed files, asked for *)
(* when events say that something changed and again every few seconds, and  *)
(* the differences of single files from HEAD.                                *)
(*                                                                         *)
(* The work is a number for each file: how often it was changed.  A call is  *)
(* served at one moment and answered at a later one, in any order.  Delays   *)
(* are abstracted to the order of what they delay.                           *)
(***************************************************************************)
EXTENDS Integers, Sequences, FiniteSets, SequencesExt

CONSTANTS Documents,    \* the files
          NoDocument,
          Shown,        \* how many changes of the list have their difference loaded
          MaxCalls      \* bound: calls in flight

ASSUME ReviewAssumption == IsFiniteSet(Documents) /\ NoDocument \notin Documents

VARIABLES
    work,               \* the working tree: changes of each file
    news,               \* file events on their way
    streaming, hidden,  \* the event stream is up; the page is in the background
    left,               \* how often users, edits and faults happen, from here on
    gitReview,          \* the last list: what it saw, and why it may be incomplete
    queued, gitTimer, inFlight,
    diffs, loadingDiffs, diffRequestVersions,
    pendingDiffs, diffTimer, diffEnabled, selected,
    calls,              \* calls in flight
    passed              \* history: files whose change was not heard, or heard and not followed

tree == <<work, news, streaming>>
refresh == <<gitReview, queued, gitTimer, inFlight>>
differences == <<diffs, loadingDiffs, diffRequestVersions, pendingDiffs, diffTimer, diffEnabled, selected>>
reviewVars == <<tree, hidden, left, refresh, differences, calls, passed>>

NoReview == [seen |-> [d \in Documents |-> 0], reason |-> "not asked"]
Reasons == {"ok", "partial", "timeout", "unavailable"}
NoDiff == -1
Waiting == -1
Take(what) == left[what] > 0 /\ left' = [left EXCEPT ![what] = @ - 1]

ReviewTypeOK ==
    /\ gitReview.seen \in [Documents -> Nat] /\ gitReview.reason \in Reasons \cup {"not asked"}
    /\ diffs \in [Documents -> Nat \cup {NoDiff}]
    /\ pendingDiffs \subseteq Documents /\ selected \in Documents \cup {NoDocument}
    /\ \A i, j \in DOMAIN calls :
          (i # j /\ calls[i].document = calls[j].document /\ calls[i].document # NoDocument)
          => calls[i].version # calls[j].version
    \* at most the first call and one that was queued are in flight
    /\ Cardinality({i \in DOMAIN calls : calls[i].document = NoDocument}) <= 2

ListCall(first) == [document |-> NoDocument, version |-> 0, first |-> first, read |-> Waiting, reason |-> "ok",
                    seen |-> NoReview.seen]
DiffCall(d) == [ListCall(FALSE) EXCEPT !.document = d, !.version = diffRequestVersions[d] + 1]

ReviewInit ==
    /\ work = [d \in Documents |-> 0] /\ news = <<>> /\ streaming = TRUE /\ hidden = FALSE
    /\ gitReview = NoReview /\ queued = FALSE /\ gitTimer = FALSE /\ inFlight = FALSE
    /\ diffs = [d \in Documents |-> NoDiff] /\ loadingDiffs = {}
    /\ diffRequestVersions = [d \in Documents |-> 0]
    /\ pendingDiffs = {} /\ diffTimer = FALSE /\ diffEnabled \in BOOLEAN /\ selected = NoDocument
    /\ calls = <<ListCall(TRUE)>>       \* as soon as the tree is loaded
    /\ passed = {}

-----------------------------------------------------------------------------
(* The working tree *)

Edit(d) ==
    /\ Take("edits") /\ work' = [work EXCEPT ![d] = @ + 1]
    /\ IF streaming THEN news' = Append(news, d) /\ UNCHANGED passed
       ELSE passed' = passed \cup {d} /\ UNCHANGED news
    /\ UNCHANGED <<streaming, hidden, refresh, differences, calls>>

StreamBreaks ==
    /\ streaming /\ Take("faults") /\ streaming' = FALSE
    /\ passed' = passed \cup ToSet(news) /\ news' = <<>>
    /\ UNCHANGED <<work, hidden, refresh, differences, calls>>

-----------------------------------------------------------------------------
(* The list *)

ScheduleGitReviewRefresh == queued' = TRUE /\ gitTimer' = TRUE

\* (The fault of not waiting for the refresh in flight.)
RunAtOnce ==
    /\ gitTimer /\ gitTimer' = FALSE /\ queued' = FALSE /\ inFlight' = TRUE
    /\ Len(calls) < MaxCalls /\ calls' = Append(calls, ListCall(FALSE))
    /\ UNCHANGED <<tree, hidden, left, gitReview, differences, passed>>

RunQueuedGitReviewRefresh ==
    /\ gitTimer /\ gitTimer' = FALSE
    /\ IF inFlight \/ ~queued THEN UNCHANGED <<queued, inFlight, calls>>
       ELSE /\ queued' = FALSE /\ inFlight' = TRUE
            /\ Len(calls) < MaxCalls /\ calls' = Append(calls, ListCall(FALSE))
    /\ UNCHANGED <<tree, hidden, left, gitReview, differences, passed>>

\* (The fault of giving up after a timeout.)
PollWhatIsThere == gitReview.reason = "ok"

\* Every three seconds; a list that could not be had at all, or only in part, is not asked
\* for again, and one that took too long is after half a minute.
ShouldPollGitReview == gitReview.reason \notin {"partial", "unavailable"}

Poll ==
    /\ gitReview.reason # "not asked" /\ ~hidden /\ ShouldPollGitReview
    /\ ScheduleGitReviewRefresh
    /\ UNCHANGED <<tree, hidden, left, gitReview, inFlight, differences, calls, passed>>

Hide ==
    /\ Take("users") /\ hidden' = ~hidden
    /\ UNCHANGED <<tree, refresh, differences, calls, passed>>

-----------------------------------------------------------------------------
(* The differences *)

LoadHeadDiff(d, others) ==
    /\ Len(others) < MaxCalls
    /\ diffRequestVersions' = [diffRequestVersions EXCEPT ![d] = @ + 1]
    /\ loadingDiffs' = loadingDiffs \cup {d}
    /\ calls' = Append(others, DiffCall(d))

ScheduleDiffRefresh(ds) == pendingDiffs' = pendingDiffs \cup ds /\ diffTimer' = TRUE

\* Calls for several files at once.
LoadHeadDiffs(ds, others) ==
    /\ Len(others) + Cardinality(ds) <= MaxCalls
    /\ diffRequestVersions' = [d \in Documents |-> diffRequestVersions[d] + (IF d \in ds THEN 1 ELSE 0)]
    /\ loadingDiffs' = loadingDiffs \cup ds
    /\ calls' = others \o SetToSeq({DiffCall(d) : d \in ds})

RunDiffRefresh ==
    /\ diffTimer /\ diffTimer' = FALSE /\ pendingDiffs' = {}
    /\ LoadHeadDiffs(pendingDiffs, calls)
    /\ UNCHANGED <<tree, hidden, left, refresh, diffs, diffEnabled, selected, passed>>

\* loadFile of a file whose differences can be shown.
ShowDocument(d) ==
    /\ Take("users") /\ selected' = d
    /\ IF diffEnabled THEN LoadHeadDiff(d, calls) ELSE UNCHANGED <<diffRequestVersions, loadingDiffs, calls>>
    /\ UNCHANGED <<tree, hidden, refresh, diffs, pendingDiffs, diffTimer, diffEnabled, passed>>

ToggleHeadDiff ==
    /\ Take("users") /\ diffEnabled' = ~diffEnabled
    /\ IF diffEnabled' /\ selected # NoDocument THEN LoadHeadDiff(selected, calls)
       ELSE UNCHANGED <<diffRequestVersions, loadingDiffs, calls>>
    /\ UNCHANGED <<tree, hidden, refresh, diffs, pendingDiffs, diffTimer, selected, passed>>

-----------------------------------------------------------------------------
(* Events *)

ReceiveNews ==
    LET d == Head(news)
    IN  /\ streaming /\ news # <<>> /\ news' = Tail(news)
        /\ ScheduleGitReviewRefresh
        /\ IF diffEnabled THEN ScheduleDiffRefresh({d}) /\ UNCHANGED passed
           ELSE passed' = passed \cup {d} /\ UNCHANGED <<pendingDiffs, diffTimer>>
        /\ UNCHANGED <<work, streaming, hidden, left, gitReview, inFlight, diffs, loadingDiffs,
                       diffRequestVersions, diffEnabled, selected, calls>>

StreamReturns ==
    /\ ~streaming /\ streaming' = TRUE /\ ScheduleGitReviewRefresh
    /\ IF diffEnabled /\ selected # NoDocument THEN ScheduleDiffRefresh({selected})
       ELSE UNCHANGED <<pendingDiffs, diffTimer>>
    /\ UNCHANGED <<work, news, hidden, left, gitReview, inFlight, diffs, loadingDiffs,
                   diffRequestVersions, diffEnabled, selected, calls, passed>>

-----------------------------------------------------------------------------
(* Answers *)

Serve(i) ==
    LET Answer(read, reason) == calls' = [calls EXCEPT ![i].read = read, ![i].reason = reason,
                                                       ![i].seen = work]
    IN  /\ calls[i].read = Waiting
        /\ \/ calls[i].document # NoDocument /\ Answer(work[calls[i].document], "ok") /\ UNCHANGED left
           \/ calls[i].document = NoDocument /\ Answer(0, "ok") /\ UNCHANGED left
           \/ /\ calls[i].document = NoDocument /\ Take("faults")
              /\ \E reason \in Reasons \ {"ok"} : Answer(0, reason)
        /\ UNCHANGED <<tree, hidden, refresh, differences, passed>>

\* (The fault of leaving a refresh that was queued meanwhile to the next event.)
LeaveQueued(call) ==
    /\ inFlight' = (inFlight /\ call.first) /\ UNCHANGED <<queued, gitTimer>>

\* What was queued meanwhile is scheduled when the refresh ends.
EndRefresh(call) ==
    IF call.first THEN UNCHANGED <<queued, gitTimer, inFlight>>
    ELSE /\ inFlight' = FALSE /\ UNCHANGED queued
         /\ gitTimer' = (gitTimer \/ queued)

\* The first changes of a new list get their difference, unless they have one.
ListAnswered(i) ==
    LET call == calls[i]
        changed == {d \in Documents : call.seen[d] > 0}
        few == IF Cardinality(changed) < Shown THEN Cardinality(changed) ELSE Shown
    IN  /\ call.document = NoDocument /\ call.read # Waiting
        /\ gitReview' = [seen |-> call.seen, reason |-> call.reason]
        /\ EndRefresh(call)
        /\ IF call.reason \in {"timeout", "unavailable"}
           THEN calls' = RemoveAt(calls, i) /\ UNCHANGED <<loadingDiffs, diffRequestVersions>>
           ELSE \E first \in SUBSET changed :
                   /\ Cardinality(first) = few
                   /\ LoadHeadDiffs({d \in first : diffs[d] = NoDiff /\ d \notin loadingDiffs},
                                    RemoveAt(calls, i))
        /\ UNCHANGED <<tree, hidden, left, diffs, pendingDiffs, diffTimer, diffEnabled, selected, passed>>

\* The fault of showing every answer.
IsAny(call) == call.document \in Documents

IsLatest(call) == diffRequestVersions[call.document] = call.version

\* History: a file is followed again by an answer that nothing has overtaken.
DiffAnswered(i) ==
    LET call == calls[i]
        d == call.document
    IN  /\ d # NoDocument /\ call.read # Waiting
        /\ calls' = RemoveAt(calls, i)
        /\ IF IsLatest(call)
           THEN /\ diffs' = [diffs EXCEPT ![d] = call.read] /\ loadingDiffs' = loadingDiffs \ {d}
                /\ passed' = IF call.read = work[d] THEN passed \ {d} ELSE passed
           ELSE UNCHANGED <<diffs, loadingDiffs, passed>>
        /\ UNCHANGED <<tree, hidden, left, refresh, diffRequestVersions, pendingDiffs, diffTimer,
                       diffEnabled, selected>>

\* An answer does not come: what is shown stays.
CallLost(i) ==
    LET call == calls[i]
        d == call.document
    IN  /\ Take("faults") /\ calls' = RemoveAt(calls, i)
        /\ IF d = NoDocument THEN EndRefresh(call) /\ UNCHANGED <<loadingDiffs, passed>>
           ELSE /\ passed' = passed \cup {d}
                /\ loadingDiffs' = IF IsLatest(call) THEN loadingDiffs \ {d} ELSE loadingDiffs
                /\ UNCHANGED <<queued, gitTimer, inFlight>>
        /\ UNCHANGED <<tree, hidden, gitReview, diffs, diffRequestVersions, pendingDiffs, diffTimer,
                       diffEnabled, selected>>

Answered == \E i \in DOMAIN calls : ListAnswered(i) \/ DiffAnswered(i)
Served == \E i \in DOMAIN calls : Serve(i)

ReviewNext ==
    \/ \E d \in Documents : Edit(d) \/ ShowDocument(d)
    \/ StreamBreaks \/ StreamReturns \/ ReceiveNews
    \/ RunQueuedGitReviewRefresh \/ Poll \/ Hide \/ RunDiffRefresh \/ ToggleHeadDiff
    \/ Served \/ Answered \/ \E i \in DOMAIN calls : CallLost(i)

\* The timers of the browser fire, and calls are answered.
ReviewFairness ==
    /\ WF_reviewVars(RunQueuedGitReviewRefresh) /\ WF_reviewVars(RunDiffRefresh)
    /\ WF_reviewVars(Poll) /\ WF_reviewVars(Served) /\ WF_reviewVars(Answered)
    /\ WF_reviewVars(ReceiveNews)

-----------------------------------------------------------------------------
(* Properties *)

\* A refresh that was asked for while another one was in flight is not forgotten,
\* whether that one is answered or fails.
QueuedIsScheduled == queued => gitTimer \/ inFlight

\* When nothing is on its way, a difference that is shown is that of the file as it is,
\* whatever overtook what; except of files whose change was missed, or heard while
\* differences were off (which are then not loaded again until the file is shown).
DiffsAreCurrent ==
    (news = <<>> /\ ~diffTimer /\ \A i \in DOMAIN calls : calls[i].document = NoDocument) =>
        /\ \A d \in Documents \ passed : diffs[d] \in {NoDiff, work[d]}
        /\ loadingDiffs = {}

\* The list becomes, and stays, that of the working tree once nothing changes any more:
\* polling makes up for events that were lost and for answers that came late or failed.
\* It stops where polling stops.
NotPolled == hidden \/ gitReview.reason \in {"partial", "unavailable", "not asked"}
ListBecomesCurrent ==
    <>[](NotPolled \/ (gitReview.reason = "ok" /\ gitReview.seen = work))

=============================================================================
