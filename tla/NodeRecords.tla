---------------------------- MODULE NodeRecords -----------------------------
(***************************************************************************)
(* What the Node server keeps about the reading of changes and comments.   *)
(*                                                                         *)
(* The review ledger (node-review-ledger-store.ts, asked for by            *)
(* /api/v1/review-ledger): decisions about changes, and receipts that are  *)
(* shown for a while, in one file.  Saving replaces all of it by what the  *)
(* client sends; reading writes back what it has read, without what is out *)
(* of date.  Both fill the same .tmp file and rename it, and nothing keeps *)
(* two calls apart.  Files are numbered (inodes), because a call goes on   *)
(* writing to the file it has opened, whatever its name has become.        *)
(*                                                                         *)
(* Read receipts: a request of a named actor that lists threads (http-     *)
(* server.ts, executeGraphqlOperation) has each of them noted as read      *)
(* before it is answered (viewer-service.ts, observeCommentThreadRead;     *)
(* node-comment-store.ts, appendThreadReadActivity).  A client that got no *)
(* answer asks again under the same event id, and must not be noted twice. *)
(* Whether a receipt is there is read outside of the promise chain that    *)
(* writes the journal, and the journal is written in place: what is read   *)
(* meanwhile may be empty, or end in half a line, which makes it fail.     *)
(***************************************************************************)
EXTENDS Naturals, Sequences, FiniteSets, SequencesExt

CONSTANTS LedgerCalls,                  \* calls that can be served at the same time
          Subjects,                     \* what a row is about: path and fingerprint, or a receipt's id
          MaxSaves, MaxDays, MaxMishaps \* bounds: saves, days, failed writes and crashes

ASSUME LedgerAssumption == IsFiniteSet(LedgerCalls) /\ {MaxSaves, MaxDays, MaxMishaps} \subseteq Nat

VARIABLES
    ledger, temp,   \* the file of each name, or 0
    contents,       \* the rows of each file
    calls,          \* each call: its step, its rows, the file it has opened
    day,            \* the time, in units of receiptRetentionMs
    saves, mishaps, \* how many there have been
    sent,           \* history: what the last client sent whose save succeeded
    known           \* history: that save, and every call since, was alone

ledgerVars == <<ledger, temp, contents, calls, day, saves, mishaps, sent, known>>

NoFile == 0
Files == 1 .. Cardinality(LedgerCalls) + 2      \* (their numbers are used again)
Resting == [step |-> "idle", rows |-> <<>>, file |-> NoFile, sent |-> <<>>, saving |-> FALSE, alone |-> TRUE]
Calling == {c \in LedgerCalls : calls[c].step # "idle"}

\* A decision is told from an earlier one by its date, a receipt says until when it is shown.
Decision(subject, date) == [kind |-> "decision", subject |-> subject, date |-> date]
ReceiptRow(subject, until) == [kind |-> "receipt", subject |-> subject, date |-> until]
SameRow(r, s) == r.kind = s.kind /\ r.subject = s.subject
Outdated(row) == row.kind = "receipt" /\ row.date + 1 < day

LedgerTypeOK ==
    /\ {ledger, temp} \cup {calls[c].file : c \in LedgerCalls} \subseteq Files \cup {NoFile}
    /\ temp = NoFile \/ temp # ledger
    /\ \A c \in Calling : calls[c].step \in {"write", "rename"} => calls[c].file # NoFile

LedgerInit ==
    /\ ledger = NoFile /\ temp = NoFile /\ contents = [f \in Files |-> <<>>] /\ day = 1 /\ saves = 0 /\ mishaps = 0
    /\ calls = [c \in LedgerCalls |-> Resting] /\ sent = <<>> /\ known = TRUE


\* Map.set: a row takes the place of the one about the same subject.
Put(rows, row) ==
    IF \E i \in DOMAIN rows : SameRow(rows[i], row)
    THEN [i \in DOMAIN rows |-> IF SameRow(rows[i], row) THEN row ELSE rows[i]]
    ELSE Append(rows, row)

\* compactSnapshot: of the rows about one subject the last one is kept.
CompactSnapshot(rows) ==
    LET upTo[n \in 0 .. Len(rows)] ==
            IF n = 0 THEN <<>> ELSE IF Outdated(rows[n]) THEN upTo[n - 1] ELSE Put(upTo[n - 1], rows[n])
    IN  upTo[Len(rows)]

-----------------------------------------------------------------------------
Overlapped(record) == [record EXCEPT !.alone = FALSE, !.sent = <<>>]

\* (Bound: no call when nothing is known of the ledger and nothing can be saved any more.)
Begins(c, record) ==
    /\ calls[c].step = "idle" /\ c = CHOOSE d \in LedgerCalls : calls[d].step = "idle"
    /\ known \/ saves < MaxSaves
    /\ IF Calling = {} THEN calls' = [calls EXCEPT ![c] = record] /\ UNCHANGED <<sent, known>>
       ELSE /\ calls' = [d \in LedgerCalls |-> IF d = c THEN Overlapped(record) ELSE
                                               IF d \in Calling THEN Overlapped(calls[d]) ELSE calls[d]]
            /\ sent' = <<>> /\ known' = FALSE
    /\ UNCHANGED <<ledger, temp, contents, day, mishaps>>

\* readReviewLedger
ReadReviewLedger(c) == Begins(c, [Resting EXCEPT !.step = "read"]) /\ UNCHANGED saves

\* What a client sends: nothing, a decision and a newer one, or one and a receipt that is soon out of date.
Snapshots == UNION {{<<>>, <<Decision(s, saves), Decision(s, saves + 1)>>, <<Decision(s, saves + 1), ReceiptRow(s, day - 1)>>}
                    : s \in Subjects}

\* saveReviewLedger
SaveReviewLedger(c, rows) ==
    /\ saves < MaxSaves /\ saves' = saves + 1
    /\ Begins(c, [Resting EXCEPT !.step = "open", !.rows = CompactSnapshot(rows), !.sent = rows, !.saving = TRUE])

\* readAll, in one piece; no file is an empty ledger.
ReadAll(c) ==
    /\ calls[c].step = "read"
    /\ calls' = [calls EXCEPT ![c].step = "open",
                     ![c].rows = IF ledger = NoFile THEN <<>> ELSE CompactSnapshot(contents[ledger])]
    /\ UNCHANGED <<ledger, temp, contents, day, saves, mishaps, sent, known>>

Unused == CHOOSE f \in Files : f \notin {ledger, temp} \cup {calls[c].file : c \in LedgerCalls}

\* (The fault of opening it as it is.)
OpenTempUncut(c) ==
    /\ calls[c].step = "open"
    /\ temp' = (IF temp = NoFile THEN Unused ELSE temp) /\ UNCHANGED contents
    /\ calls' = [calls EXCEPT ![c].step = "write", ![c].file = temp']
    /\ UNCHANGED <<ledger, day, saves, mishaps, sent, known>>

\* writeAll: the .tmp file is made, or emptied if there is one.
OpenTemp(c) ==
    /\ calls[c].step = "open"
    /\ temp' = IF temp = NoFile THEN Unused ELSE temp
    /\ contents' = [contents EXCEPT ![temp'] = <<>>]
    /\ calls' = [calls EXCEPT ![c].step = "write", ![c].file = temp']
    /\ UNCHANGED <<ledger, day, saves, mishaps, sent, known>>

\* The rows are written over what another call has written meanwhile: what was longer stays, and a row
\* that is cut is ignored by readAll.
WriteTemp(c) ==
    LET old == contents[calls[c].file]
        rows == calls[c].rows
    IN  /\ calls[c].step = "write"
        /\ \E cut \in {0, 1} : contents' = [contents EXCEPT ![calls[c].file] =
               rows \o (IF Len(old) > Len(rows) + cut THEN SubSeq(old, Len(rows) + cut + 1, Len(old)) ELSE <<>>)]
        /\ calls' = [calls EXCEPT ![c].step = "rename"]
        /\ UNCHANGED <<ledger, temp, day, saves, mishaps, sent, known>>

\* Files without a name are gone once nobody writes to them.
Forgotten == contents' = [f \in Files |->
    IF f \in {ledger', temp'} \cup {calls'[c].file : c \in LedgerCalls} THEN contents[f] ELSE <<>>]

CallEnds(c) == calls' = [calls EXCEPT ![c] = Resting]

\* (The fault of a copy.)
CopyTemp(c) ==
    /\ calls[c].step = "rename" /\ CallEnds(c) /\ ledger' = temp /\ UNCHANGED temp
    /\ Forgotten /\ UNCHANGED <<sent, known, day, saves, mishaps>>

\* rename, and the answer.  If another call has renamed the file, this one is answered with an error.
Rename(c) ==
    /\ calls[c].step = "rename" /\ CallEnds(c)
    /\ IF temp = NoFile THEN UNCHANGED <<ledger, temp, sent, known>>
       ELSE /\ ledger' = temp /\ temp' = NoFile
            /\ IF calls[c].saving THEN sent' = calls[c].sent /\ known' = calls[c].alone
               ELSE UNCHANGED <<sent, known>>
    /\ Forgotten /\ UNCHANGED <<day, saves, mishaps>>

Mishap == mishaps < MaxMishaps /\ mishaps' = mishaps + 1

\* The disk is full: some of the rows were written, and the .tmp file is left.
WriteFails(c) ==
    /\ Mishap /\ calls[c].step = "write" /\ CallEnds(c)
    /\ \E n \in 0 .. Len(calls[c].rows) :
          contents' = [contents EXCEPT ![calls[c].file] = SubSeq(calls[c].rows, 1, n)]
    /\ UNCHANGED <<ledger, temp, day, saves, sent, known>>

LedgerCrash ==
    /\ Mishap /\ Calling # {} /\ calls' = [c \in LedgerCalls |-> Resting]
    /\ UNCHANGED <<ledger, temp, contents, day, saves, sent, known>>

DayPasses == day < MaxDays /\ day' = day + 1 /\ UNCHANGED <<ledger, temp, contents, calls, saves, mishaps, sent, known>>

LedgerCall(c) ==
    \/ ReadReviewLedger(c) \/ ReadAll(c) \/ OpenTemp(c) \/ WriteTemp(c) \/ Rename(c) \/ WriteFails(c)
    \/ \E rows \in Snapshots : SaveReviewLedger(c, rows)

LedgerNext == (\E c \in LedgerCalls : LedgerCall(c)) \/ LedgerCrash \/ DayPasses

-----------------------------------------------------------------------------
Published == IF ledger = NoFile THEN <<>> ELSE contents[ledger]
LastSent(row) == \E i \in DOMAIN sent :
    sent[i] = row /\ \A j \in i + 1 .. Len(sent) : ~SameRow(sent[j], row)

\* Calls that do not overlap keep the ledger, through failed writes, crashes and any number of reads: it
\* has nothing that the last saved snapshot has not, and of it the last decision about each change and
\* every receipt that is still shown (compactSnapshot, writeAll).
LoneCallsKeepTheLedger ==
    known => /\ ToSet(Published) \subseteq ToSet(sent)
             /\ \A row \in ToSet(sent) : LastSent(row) /\ ~Outdated(row) => row \in ToSet(Published)
             /\ \A i, j \in DOMAIN Published : SameRow(Published[i], Published[j]) => i = j

-----------------------------------------------------------------------------
(* Read receipts *)

CONSTANTS Deliveries,       \* requests that can be served at the same time
          Opened,           \* the threads they list
          EventIds,         \* the event ids of clients
          FirstEvents,      \* how many events of a thread are looked at (500)
          MaxRequests, MaxReplies   \* bounds: requests, and other events of the journal

VARIABLES
    activity,   \* the journal's events, oldest first
    rewriting,  \* it is being written: by a delivery, a reply or nobody
    chain,      \* who waits to append, oldest first
    deliveries, \* each request
    heard,      \* the receipts subscribers were told of
    replies, requests,  \* how many there have been
    answered,   \* history: threads and ids that were listed, and answered
    unread,     \* history: receipts a failed reading has cost
    apart       \* history: threads and ids whose deliveries never came together, or past a torn journal

receiptVars == <<activity, rewriting, chain, deliveries, heard, replies, requests, answered, unread, apart>>

Nobody == "nobody"
Reply == "reply"
NoEventId == "no id"

ASSUME ReceiptsAssumption ==
    /\ {FirstEvents, MaxRequests, MaxReplies} \subseteq Nat
    /\ {Nobody, Reply} \cap Deliveries = {} /\ {NoEventId, Reply} \cap EventIds = {}
    /\ Opened # {} /\ IsFiniteSet(Opened)

Away == [step |-> "idle", id |-> NoEventId, todo |-> <<>>, listed |-> {}]
Served == {d \in Deliveries : deliveries[d].step # "idle"}

Read(thread, id) == [thread |-> thread, id |-> id]

\* Where the receipts of a thread are, and its first events.
ReceiptsOf(thread, id) == {k \in DOMAIN activity : activity[k] = Read(thread, id)}
FirstOf(thread) ==
    {k \in DOMAIN activity : Cardinality({j \in 1 .. k : activity[j].thread = thread}) <= FirstEvents}

ReceiptsTypeOK ==
    /\ rewriting \in Deliveries \cup {Nobody, Reply} /\ (rewriting # Nobody => rewriting = chain[1])
    /\ \A d \in Deliveries : (d \in ToSet(chain)) = (deliveries[d].step = "append")
    /\ \A d \in Deliveries : deliveries[d].step \in {"look", "append"} => deliveries[d].todo # <<>>

ReceiptsInit ==
    /\ activity = <<>> /\ rewriting = Nobody /\ chain = <<>> /\ deliveries = [d \in Deliveries |-> Away]
    /\ heard = {} /\ replies = 0 /\ requests = 0 /\ answered = {} /\ unread = {}
    /\ apart = Opened \X (EventIds \cup {NoEventId})

-----------------------------------------------------------------------------
\* executeGraphqlOperation lists the threads first; with an event id or without one.
Deliver(d, id, threads) ==
    /\ requests < MaxRequests /\ requests' = requests + 1
    /\ deliveries[d].step = "idle" /\ d = CHOOSE e \in Deliveries : deliveries[e].step = "idle"
    /\ deliveries' = [deliveries EXCEPT ![d] = [Away EXCEPT !.step = "look", !.id = id, !.todo = threads,
                                                            !.listed = ToSet(threads)]]
    /\ apart' = IF \E e \in Served : deliveries[e].id = id THEN apart \ (Opened \X {id}) ELSE apart
    /\ UNCHANGED <<activity, rewriting, chain, heard, replies, answered, unread>>

\* (The fault of staying in line.)
ProceedLate(d) == deliveries' = [deliveries EXCEPT ![d].todo = Tail(@),
                                                   ![d].step = IF Len(deliveries[d].todo) > 1 THEN @ ELSE "answer"]

\* On to the next thread, or to the answer.
Proceed(d) == deliveries' = [deliveries EXCEPT ![d].todo = Tail(@),
                                               ![d].step = IF Len(deliveries[d].todo) > 1 THEN "look" ELSE "answer"]

\* (The fault of not looking.)
NeverExisting(thread, id) == FALSE

\* The first events of the thread are searched for the actor's receipt of this id.
Existing(thread, id) == id # NoEventId /\ ReceiptsOf(thread, id) \cap FirstOf(thread) # {}

\* What is there already is announced again; otherwise the receipt waits for its turn to be written.
LookForReceipt(d) ==
    LET r == deliveries[d]
        thread == r.todo[1]
    IN  /\ r.step = "look"
        /\ \/ /\ Existing(thread, r.id) /\ Proceed(d)
              /\ heard' = heard \cup {Read(thread, r.id)} /\ UNCHANGED <<chain, apart>>
           \/ /\ ~Existing(thread, r.id) \/ rewriting # Nobody
              /\ deliveries' = [deliveries EXCEPT ![d].step = "append"] /\ chain' = Append(chain, d)
              /\ apart' = IF rewriting = Nobody THEN apart ELSE apart \ {<<thread, r.id>>}
              /\ UNCHANGED heard
        /\ UNCHANGED <<activity, rewriting, replies, requests, answered, unread>>

\* Half a line: the observer that wraps the request swallows the error and goes on (threadReadObserverFromRequest).
LookForReceiptFails(d) ==
    /\ deliveries[d].step = "look" /\ rewriting # Nobody /\ Proceed(d)
    /\ unread' = unread \cup {<<deliveries[d].todo[1], deliveries[d].id>>}
    /\ UNCHANGED <<activity, rewriting, chain, heard, replies, requests, answered, apart>>

\* appendThreadEvent in its turn: the journal is read, then written from its start.
StartAppend ==
    /\ rewriting = Nobody /\ chain # <<>> /\ rewriting' = Head(chain)
    /\ UNCHANGED <<activity, chain, deliveries, heard, replies, requests, answered, unread, apart>>

\* (The fault of telling them without a receipt.)
FinishUnwritten(d) ==
    /\ rewriting = d /\ rewriting' = Nobody /\ chain' = Tail(chain) /\ Proceed(d)
    /\ heard' = heard \cup {Read(deliveries[d].todo[1], deliveries[d].id)}
    /\ UNCHANGED <<activity, replies, requests, answered, unread, apart>>

\* It is whole again, and those who follow the thread are told.
FinishAppend(d) ==
    /\ rewriting = d /\ rewriting' = Nobody /\ chain' = Tail(chain) /\ Proceed(d)
    /\ activity' = Append(activity, Read(deliveries[d].todo[1], deliveries[d].id))
    /\ heard' = heard \cup {Read(deliveries[d].todo[1], deliveries[d].id)}
    /\ UNCHANGED <<replies, requests, answered, unread, apart>>

\* Other events of the journal: replies, and statuses.
ReplyComes(thread) ==
    /\ \/ /\ replies < MaxReplies /\ Reply \notin ToSet(chain) /\ chain' = Append(chain, Reply)
          /\ replies' = replies + 1 /\ UNCHANGED <<activity, rewriting>>
       \/ /\ rewriting = Reply /\ rewriting' = Nobody /\ chain' = Tail(chain)
          /\ activity' = Append(activity, [thread |-> thread, id |-> Reply]) /\ UNCHANGED replies
    /\ UNCHANGED <<deliveries, heard, requests, answered, unread, apart>>

\* The answer may get lost: the client asks again, or does not.
AnswerDelivery(d) ==
    /\ deliveries[d].step = "answer" /\ deliveries' = [deliveries EXCEPT ![d] = Away]
    /\ answered' = answered \cup (deliveries[d].listed \X {deliveries[d].id})
    /\ UNCHANGED <<activity, rewriting, chain, heard, replies, requests, unread, apart>>

ReceiptsNext ==
    \/ \E d \in Deliveries :
          \/ LookForReceipt(d) \/ LookForReceiptFails(d) \/ FinishAppend(d) \/ AnswerDelivery(d)
          \/ \E id \in EventIds \cup {NoEventId}, threads \in {SetToSeq(Opened)} \cup {<<t>> : t \in Opened} :
                Deliver(d, id, threads)
    \/ StartAppend
    \/ \E t \in Opened : ReplyComes(t)

-----------------------------------------------------------------------------
\* Who was answered has a receipt on every thread that was listed, unless the journal could not be read
\* just then (observeThreadReads comes before the answer).
AnsweredIsNoted == \A m \in answered \ unread : ReceiptsOf(m[1], m[2]) # {}

\* "retrying a CLI request does not create duplicate read receipts" (docs/contracts/22): true of deliveries
\* that do not come together, as long as the first one is among the events that are looked at.
RetriesAreNotedOnce == \A id \in EventIds, t \in Opened :
    <<t, id>> \in apart /\ ReceiptsOf(t, id) \cap FirstOf(t) # {}
    => \A k, l \in ReceiptsOf(t, id) : k = l

\* Followers of a thread hear of no receipt that the history of the thread does not have.
HeardIsNoted == \A e \in heard : ReceiptsOf(e.thread, e.id) # {}

\* What the contract says without exception.
RetriesAreNeverNotedTwice == \A id \in EventIds, t \in Opened : \A k, l \in ReceiptsOf(t, id) : k = l

=============================================================================
