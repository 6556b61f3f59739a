\* The rules about comments, anchors and differences.
CONSTANTS
    Invalid = Invalid
    MaxLines = 3
    MaxFile = 3
    MaxComments = 3
    MaxCells = 8
    CellSize = 3
    Rejected = Rejected
    NoBlocks = NoBlocks
    NoId = NoId
    MaxElements = 4
    MaxExcerpt = 8
    RenameWindow = 2
    ActivityWindow = 3
    MaxTimerDelay = 2
    MaxThreadEvents = 2
    MaxSeenIds = 3
    Never = Never
    MaxKeys = 14
    MaxTreeRows = 4
    MaxAutoExpanded = 2

SPECIFICATION Spec
CHECK_DEADLOCK FALSE
INVARIANT CommentsAndDiffsAgree
INVARIANT ServerRulesHold
INVARIANT BlocksAreFound
INVARIANT DocumentsReadAlike
INVARIANT QueueTellsWhatWaits
INVARIANT TreeShowsTheWorkspace
