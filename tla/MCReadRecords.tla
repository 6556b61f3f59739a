---------------------------- MODULE MCReadRecords ----------------------------
(***************************************************************************)
(* What the servers remember of reading and reviewing: the inbox of the Go    *)
(* server, where one agent reads with and without client event ids or two    *)
(* poll and may lose an answer, the review ledger of the Node server, and its *)
(* read receipts.  They share no variable, so each is checked from its own    *)
(* initial states while the others stand still.                              *)
(***************************************************************************)
EXTENDS FeedbackInbox, NodeRecords

CONSTANTS codex, claude, caller1, caller2, Concerns

VARIABLE concern    \* which of them a behaviour is about

recordVars == <<vars, ledgerVars, receiptVars, concern>>

MCInit == Init /\ LedgerInit /\ ReceiptsInit /\ concern \in Concerns

\* Fetches without client event ids are what the command sends.
OneReader == faults' = 0 /\ fetch'[claude] = Idle
Commands == clock' < MaxClock /\ \A a \in Agents : fetch'[a].key = NoKey

MCNext ==
    /\ UNCHANGED concern
    /\ \/ concern = "one reader" /\ Next /\ OneReader /\ UNCHANGED <<ledgerVars, receiptVars>>
       \/ concern = "two pollers" /\ Next /\ Commands /\ UNCHANGED <<ledgerVars, receiptVars>>
       \/ concern = "ledger" /\ LedgerNext /\ UNCHANGED <<vars, receiptVars>>
       \/ concern = "receipts" /\ ReceiptsNext /\ UNCHANGED <<vars, ledgerVars>>

\* The server finishes what it was asked, and agents that poll go on polling.
MCFairness ==
    \A a \in Agents :
        /\ WF_vars(concern = "two pollers" /\ FetchUnseen(a))
        /\ WF_vars(Observe(a)) /\ WF_vars(Answer(a))

MCSpec == MCInit /\ [][MCNext]_recordVars /\ MCFairness

\* Agents that poll empty their inbox once people stop writing, whatever answers got lost.
PollersDrain == concern = "two pollers" => InboxDrains

\* What the Node server notes is there for good: the ledger as it was saved, unless two calls came
\* together, and a receipt of every thread that was listed, one for each retried request.
NodeRecordsHold ==
    /\ LedgerTypeOK /\ LoneCallsKeepTheLedger
    /\ ReceiptsTypeOK /\ AnsweredIsNoted /\ RetriesAreNotedOnce /\ HeardIsNoted

=============================================================================
