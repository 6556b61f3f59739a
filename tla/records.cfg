\* Read receipts of both servers and the review ledger: who reads what, what is written twice or lost.
CONSTANTS
    codex = codex
    claude = claude
    Agents = {codex, claude}
    Keys = {k1}
    NoKey = NoKey
    MaxClock = 3
    MaxFaults = 1
    caller1 = caller1
    caller2 = caller2
    LedgerCalls = {caller1, caller2}
    Subjects = {codex}
    MaxSaves = 2
    MaxDays = 2
    MaxMishaps = 1
    Deliveries = {caller1, caller2}
    Opened = {codex, claude}
    EventIds = {k1}
    FirstEvents = 1
    MaxRequests = 2
    MaxReplies = 1
    Concerns = {"one reader", "two pollers", "ledger", "receipts"}
SPECIFICATION MCSpec
CHECK_DEADLOCK FALSE
INVARIANT NothingSlipsBy
INVARIANT RereadIsSeen
 
PROPERTY RepeatedReadsKeepTheReceipt
PROPERTY PollersDrain
