--------------------------- MODULE CommentDomain ---------------------------
(***************************************************************************)
(* What the Node server and the browser make of the comments and anchors   *)
(* they are given (domain/comments.ts of both).  Of an anchor only the      *)
(* lines matter here; of a comment, its thread, status and times.           *)
(***************************************************************************)
EXTENDS Integers, Sequences, FiniteSets, SequencesExt

CONSTANT Invalid   \* what is not accepted

Absent == 0        \* an optional line, id or time that is not given

-----------------------------------------------------------------------------
(* Anchors *)

\* optionalPositiveInt.
Lines(range) == range.start >= Absent /\ range.end >= Absent
Ordered(range) ==
    range.start # Absent /\ range.end # Absent => range.start <= range.end

NormalizeSourceAnchor(range) ==
    IF Lines(range) /\ Ordered(range) THEN range ELSE Invalid

NormalizeRenderedAnchor(range) ==
    IF Lines(range) /\ Ordered(range) THEN range ELSE Invalid

\* The older form has one range, of the side "current".
NormalizeDiffAnchor(diff) ==
    LET side == IF diff.side = "current" THEN "new" ELSE diff.side
        shown == IF side = "old" THEN diff.old ELSE diff.new
    IN  IF /\ side \in {"old", "new"}
           /\ Lines(diff.old) /\ Lines(diff.new)
           /\ shown.start # Absent /\ shown.end # Absent /\ Ordered(shown)
        THEN [diff EXCEPT !.side = side] ELSE Invalid

\* A canonical range that is not given is taken from what was selected.
FromRendered(canonical, rendered) ==
    IF canonical.start = Absent /\ rendered.start # Absent THEN rendered ELSE canonical

\* The fault of filling in one end at a time.
FromRenderedPiecemeal(canonical, rendered) ==
    [start |-> IF canonical.start = Absent THEN rendered.start ELSE canonical.start,
     end |-> IF canonical.end = Absent THEN rendered.end ELSE canonical.end]

TakeRendered(canonical, rendered) == FromRendered(canonical, rendered)

TakeDiff(canonical, new) ==
    [start |-> IF canonical.start = Absent THEN new.start ELSE canonical.start,
     end |-> IF canonical.end = Absent THEN new.end ELSE canonical.end]

NormalizeAnchor(input) ==
    LET canonical == NormalizeSourceAnchor(input.canonical)
        rendered == NormalizeRenderedAnchor(input.rendered)
        diff == NormalizeDiffAnchor(input.diff)
    IN  CASE canonical = Invalid -> Invalid
          [] input.surface = "source" -> [input EXCEPT !.canonical = canonical]
          [] input.surface = "rendered" ->
                 IF rendered = Invalid THEN Invalid
                 ELSE [input EXCEPT !.canonical = TakeRendered(canonical, rendered)]
          [] input.surface = "diff" ->
                 IF diff = Invalid THEN Invalid
                 ELSE [input EXCEPT !.diff = diff,
                                    !.canonical = TakeDiff(canonical, diff.new)]
          [] OTHER -> Invalid

Given(range) == range.start # Absent /\ range.end # Absent

\* An input whose canonical range is given or left out as a whole, and whose new
\* lines are in order also when the old ones are selected.
Plain(input) ==
    input.surface = "diff" =>
        /\ Given(input.canonical)
           \/ (input.canonical.start = Absent /\ input.canonical.end = Absent)
        /\ Ordered(input.diff.new)

-----------------------------------------------------------------------------
(* Comments *)

\* normalizeCommentCreateInput and normalizeCommentUpdateInput of the server: a
\* comment is made open, and only its body is ever changed.
AcceptsCreate(input) ==
    /\ ~input.blank
    /\ NormalizeAnchor(input.anchor) # Invalid
    /\ input.status \in {"none", "open"}

AcceptsUpdate(input) ==
    input.hasBody /\ ~input.blank /\ input.status = "none"

CommentStatusRank(status) ==
    CASE status = "open" -> 3 [] status = "resolved" -> 2 [] OTHER -> 1

LaterOf(a, b) == IF a > b THEN a ELSE b
EarlierOf(a, b) == IF a < b THEN a ELSE b
ThreadOf(comment) == IF comment.thread = Absent THEN comment.id ELSE comment.thread

\* The thread a comment starts, before it is counted in.
Started(comment) ==
    [id |-> ThreadOf(comment), status |-> comment.status, batch |-> comment.batch,
     created |-> comment.created, updated |-> comment.updated,
     resolved |-> Absent, archived |-> Absent, comments |-> <<>>]

\* What both programs do with a thread when they add a comment.
Joined(thread, comment) ==
    [thread EXCEPT !.batch = IF @ = Absent THEN comment.batch ELSE @,
                   !.created = EarlierOf(@, comment.created),
                   !.updated = LaterOf(@, comment.updated),
                   !.resolved = LaterOf(@, comment.resolved),
                   !.archived = LaterOf(@, comment.archived),
                   !.comments = Append(@, comment)]

\* The server keeps the status that ranks highest ...
ServerJoin(thread, comment) ==
    [Joined(thread, comment) EXCEPT
        !.status = IF CommentStatusRank(comment.status) > CommentStatusRank(thread.status)
                   THEN comment.status ELSE thread.status]

\* The fault of comparing with the time that was just stored.
BrowserJoinLate(thread, comment) ==
    LET joined == Joined(thread, comment)
    IN  [joined EXCEPT !.status = IF comment.updated > joined.updated
                                  THEN comment.status ELSE @]

\* ... and the browser the one that was set last.
BrowserJoin(thread, comment) ==
    [Joined(thread, comment) EXCEPT
        !.status = IF comment.updated > thread.updated THEN comment.status
                   ELSE thread.status]

InThreads(Join(_, _), comments) ==
    LET Add(threads, comment) ==
            LET i == SelectInSeq(threads, LAMBDA t : t.id = ThreadOf(comment))
            IN  IF i = 0 THEN Append(threads, Join(Started(comment), comment))
                ELSE [threads EXCEPT ![i] = Join(@, comment)]
    IN  FoldLeft(Add, <<>>, comments)

BuildCommentThreads(comments) == InThreads(ServerJoin, comments)

\* The fault of a new thread for every comment that has none of its own.
BuildThreadPerComment(comments) ==
    InThreads(ServerJoin, [i \in DOMAIN comments |->
                              [comments[i] EXCEPT !.id = i, !.thread = Absent]])

ThreadsOnServer(comments) == BuildCommentThreads(comments)
BrowserThreads(comments) == InThreads(BrowserJoin, comments)

-----------------------------------------------------------------------------
(* What they should be *)

\* The thread of these comments, in whichever order they come.
IsSummaryOf(thread, comments) ==
    LET times(field) == {c[field] : c \in comments}
    IN  /\ ToSet(thread.comments) = comments
        /\ thread.updated = CHOOSE t \in times("updated") : \A u \in times("updated") : u <= t
        /\ thread.created = CHOOSE t \in times("created") : \A u \in times("created") : u >= t
        /\ thread.resolved = CHOOSE t \in times("resolved") : \A u \in times("resolved") : u <= t
        /\ thread.batch = Absent <=> \A c \in comments : c.batch = Absent

=============================================================================
