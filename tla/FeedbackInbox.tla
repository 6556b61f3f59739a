---------------------------- MODULE FeedbackInbox ----------------------------
(***************************************************************************)
(* How published feedback reaches coding agents.  `vivi inbox <url>        *)
(* --read-as <agent> --unseen` asks the server for the threads whose human *)
(* feedback the agent has not read (ListThreads with threadSeenBy); the    *)
(* server lists them, then records a read receipt for each one             *)
(* (ObserveThreadReads, AppendThreadReadActivity), then answers            *)
(* (src/server/comments/read_receipts.go, src/server/comments/comments.go, *)
(* src/server/graphql/schema.resolvers.go, src/cli/inbox_client.go).       *)
(*                                                                         *)
(* One server: each operation of the store is atomic under its mutex, and  *)
(* the listing and every receipt are operations of their own.  Time is the *)
(* number of writes to the feedback; a receipt carries the time of the     *)
(* last one.  A thread is named after its first comment.                   *)
(***************************************************************************)
EXTENDS Naturals, FiniteSets

CONSTANTS
    Agents,     \* codex, claude
    Keys,       \* client event ids some clients send with a fetch
    NoKey,      \* a fetch without one, as the inbox command sends it
    MaxClock,   \* bound: comments written and edited
    MaxFaults   \* bound: answers lost and server crashes

ASSUME InboxAssumption ==
    /\ NoKey \notin Keys
    /\ MaxClock \in Nat
    /\ MaxFaults \in Nat

VARIABLES
    clock,     \* the time
    notes,     \* published comments
    receipts,  \* thread.read events of the journal
    fetch,     \* the fetch each agent has in progress
    faults,    \* lost answers and crashes so far
    given,     \* what each agent has been given
    missed     \* what was marked as read and never given

vars == <<clock, notes, receipts, fetch, faults, given, missed>>

-----------------------------------------------------------------------------
(* Comments, revisions and receipts *)

Times == 0..MaxClock

Note == [id: Times, thread: Times, by: {"human", "agent"}, at: Times]

OpenThreads == {n.thread : n \in notes}

HumanNotes(t) == {n \in notes : n.thread = t /\ n.by = "human"}

\* The fault of a revision that leaves the time of the last edit out.
RevisionOfIds(t) == {<<n.id, 0>> : n \in HumanNotes(t)}

\* The fault of one that tells apart who wrote.
RevisionOfAuthors(t) == {<<n.id, n.at, n.by>> : n \in HumanNotes(t)}

\* The revision hashed into the client event id of a passive receipt: ids and
\* times of the human comments.
Revision(t) == {<<n.id, n.at>> : n \in HumanNotes(t)}

Versions == Times \X Times

\* The receipt is not older than the human feedback of its thread, of which there
\* is some.
Covers(r, t) == HumanNotes(t) # {} /\ \A n \in HumanNotes(t) : n.at <= r.at

\* A receipt is told apart by a client's key or by the revision it is for.
Receipt == [thread: Times, actor: Agents, key: Keys \cup {NoKey},
            revision: SUBSET Versions, at: Times]

\* The fault of a filter that does not look at actors.
SeenByAnyone(t, a) ==
    \E r \in receipts : r.thread = t /\ Covers(r, t)

\* threadSeenBy.
SeenBy(t, a) ==
    \E r \in receipts : r.thread = t /\ r.actor = a /\ Covers(r, t)

Unseen(a) == {t \in OpenThreads : ~SeenBy(t, a)}

\* RecentReadReceipts: times at which agents have read the current feedback ...
ReadTimes(t) ==
    {r.at : r \in {s \in receipts : s.thread = t /\ Covers(s, t)}}

\* The fault of taking the last of them.
LastRead(t) == {k \in ReadTimes(t) : \A j \in ReadTimes(t) : k >= j}

\* ... of which the first one is reported, when there is one.
FirstRead(t) == {k \in ReadTimes(t) : \A j \in ReadTimes(t) : k <= j}

-----------------------------------------------------------------------------
(* Writing feedback *)

Idle == [left |-> {}, shown |-> {}, key |-> NoKey]

\* What is written to a thread between its listing and its receipt counts as
\* read by that receipt.
Overtakes(t, v) ==
    missed' = [a \in Agents |-> IF t \in fetch[a].left THEN missed[a] \cup {v}
                                ELSE missed[a]]

Write(t, n, others) ==
    /\ clock < MaxClock
    /\ clock' = clock + 1
    /\ notes' = others \cup {n}
    /\ Overtakes(t, <<n.id, n.at>>)
    /\ UNCHANGED <<receipts, fetch, faults, given>>

\* A new thread, or a comment on an open one.
Post(by, t) ==
    /\ t \in OpenThreads \cup {clock + 1}
    /\ Write(t, [id |-> clock + 1, thread |-> t, by |-> by, at |-> clock + 1], notes)

\* Store.Update moves updatedAt.
Edit(n) ==
    /\ n \in notes
    /\ Write(n.thread, [n EXCEPT !.at = clock + 1], notes \ {n})

\* Store.DeletePublished.
Delete(n) ==
    /\ n \in notes /\ n.by = "human"
    /\ notes' = notes \ {n}
    /\ UNCHANGED <<clock, receipts, fetch, faults, given, missed>>

-----------------------------------------------------------------------------
(* Fetching it *)

\* The command shows whole threads; here, the human comments of them.
Shown(threads) == UNION {Revision(t) : t \in threads}

\* CommentThreads lists under the store's mutex, with the unseen filter or
\* without.
Fetch(a, unseen, key) ==
    LET threads == IF unseen THEN Unseen(a) ELSE OpenThreads
    IN  /\ fetch[a] = Idle
        /\ threads # {}
        /\ fetch' = [fetch EXCEPT ![a] = [left |-> threads,
                                          shown |-> Shown(threads),
                                          key |-> key]]
        /\ UNCHANGED <<clock, notes, receipts, faults, given, missed>>

\* The fault of taking any earlier receipt of the agent for a repetition.
RecordedBefore(t, a, key) ==
    \E r \in receipts : r.thread = t /\ r.actor = a

\* The receipt is there already: the same client event id, or the same revision.
Recorded(t, a, key) ==
    \E r \in receipts :
        /\ r.thread = t /\ r.actor = a /\ r.key = key
        /\ key = NoKey => r.revision = Revision(t)

\* ObserveThreadReads, one thread at a time (which one is left open: deletions
\* change the order of the list): AppendThreadReadActivity refuses a thread that
\* is gone and repeats a receipt it has.
Observe(a) ==
    \E t \in fetch[a].left :
        /\ fetch' = [fetch EXCEPT ![a].left = fetch[a].left \ {t}]
        /\ receipts' =
              IF t \in OpenThreads /\ ~Recorded(t, a, fetch[a].key)
              THEN receipts \cup {[thread |-> t, actor |-> a, key |-> fetch[a].key,
                                   revision |-> IF fetch[a].key = NoKey
                                                THEN Revision(t) ELSE {},
                                   at |-> clock]}
              ELSE receipts
        /\ UNCHANGED <<clock, notes, faults, given, missed>>

Fetching(a) == fetch[a] # Idle

\* The response reaches the agent.
Answer(a) ==
    /\ Fetching(a) /\ fetch[a].left = {}
    /\ given' = [given EXCEPT ![a] = given[a] \cup fetch[a].shown]
    /\ fetch' = [fetch EXCEPT ![a] = Idle]
    /\ UNCHANGED <<clock, notes, receipts, faults, missed>>

\* It does not: the client gave up after ten seconds, or lost the connection.
LoseAnswer(a) ==
    /\ faults < MaxFaults
    /\ Fetching(a) /\ fetch[a].left = {}
    /\ missed' = [missed EXCEPT ![a] = missed[a] \cup fetch[a].shown]
    /\ fetch' = [fetch EXCEPT ![a] = Idle]
    /\ faults' = faults + 1
    /\ UNCHANGED <<clock, notes, receipts, given>>

\* The server dies; receipts already appended stay.
Crash ==
    /\ faults < MaxFaults
    /\ \E a \in Agents : Fetching(a)
    /\ missed' = [a \in Agents |-> missed[a] \cup fetch[a].shown]
    /\ fetch' = [a \in Agents |-> Idle]
    /\ faults' = faults + 1
    /\ UNCHANGED <<clock, notes, receipts, given>>

-----------------------------------------------------------------------------

Init ==
    /\ clock = 0 /\ faults = 0
    /\ notes = {} /\ receipts = {}
    /\ fetch = [a \in Agents |-> Idle]
    /\ given = [a \in Agents |-> {}]
    /\ missed = [a \in Agents |-> {}]

FetchUnseen(a) == Fetch(a, TRUE, NoKey)

Next ==
    \/ \E by \in {"human", "agent"}, t \in Times : Post(by, t)
    \/ \E n \in notes : Edit(n) \/ Delete(n)
    \/ \E a \in Agents, key \in Keys \cup {NoKey}, unseen \in BOOLEAN :
          Fetch(a, unseen, key)
    \/ \E a \in Agents : Observe(a) \/ Answer(a) \/ LoseAnswer(a)
    \/ Crash

Spec == Init /\ [][Next]_vars

\* Every agent polls its inbox, and the server finishes what it was asked.
Polling ==
    \A a \in Agents : /\ WF_vars(FetchUnseen(a))
                      /\ WF_vars(Observe(a))
                      /\ WF_vars(Answer(a))

PollingSpec == Spec /\ Polling

-----------------------------------------------------------------------------
(* What agents and reviewers rely on *)

\* Every variable holds what its comment says.
TypeOK ==
    /\ clock \in Times /\ faults \in 0..MaxFaults
    /\ notes \in SUBSET Note
    /\ receipts \in SUBSET Receipt
    /\ fetch \in [Agents -> [left: SUBSET Times, shown: SUBSET Versions,
                             key: Keys \cup {NoKey}]]
    /\ given \in [Agents -> SUBSET Versions]
    /\ missed \in [Agents -> SUBSET Versions]

\* Current human feedback: [thread, version].
Feedback == UNION {{<<t, v>> : v \in Revision(t)} : t \in OpenThreads}

\* A version of a human comment is in an agent's inbox, on its way, or was given
\* to the agent; the only ones that slip by were written between the listing and
\* the receipt of their thread, or were in an answer that got lost.
NothingSlipsBy ==
    \A a \in Agents : \A f \in Feedback :
        \/ f[1] \in Unseen(a)
        \/ f[2] \in given[a] \cup fetch[a].shown \cup missed[a]

\* New or updated human feedback makes a thread eligible again: what an agent was
\* not given stays in its inbox.
NothingMissed ==
    \A a \in Agents : \A f \in Feedback :
        \/ f[1] \in Unseen(a)
        \/ f[2] \in given[a] \cup fetch[a].shown

\* A receipt that answers for the current revision of a thread also hides the
\* thread: repeating a read is never skipped while the thread is still listed.
RereadIsSeen ==
    \A t \in OpenThreads, a \in Agents :
        HumanNotes(t) # {} /\ Recorded(t, a, NoKey) => SeenBy(t, a)

\* Repeated reads, by the same or another agent, do not move the time at which
\* the current feedback of a thread was first read.
RepeatedReadsKeepTheReceipt ==
    [][\A t \in OpenThreads :
          FirstRead(t) # {} /\ Revision(t)' = Revision(t)
             => FirstRead(t)' = FirstRead(t)]_vars

\* An agent that keeps polling empties its inbox once people stop writing.
InboxDrains ==
    \A a \in Agents : <>[](\A t \in Unseen(a) : HumanNotes(t) = {})

=============================================================================
