\* The parts of the Node server: comments, watcher, git, files and the process itself.
CONSTANTS
    c1 = c1
    c2 = c2
    p = p
    q = q
    Calls = {c1, c2}
    MaxStamp = 5
    MaxFaults = 1
    Paths = {p, q, c1}
    Excluded = {c1}
    MaxPending = 1
    SlowChecks = FALSE
    MaxMoves = 2
    Entries = {p, q}
    Hidden = {q}
    Requests = {c1}
    Cooldown = 1
    MaxTime = 2
    Names = {1, 2}
    InFolder = {2}
    HiddenFiles = {}
    Unlisted = {}
    Kinds = {"gone", "hit", "large", "dangling"}
    Readers = {c1}
    FileIndexTtl = 1
    Limit = 1
    MaxClock = 2
    MaxChanges = 2
    Clients = {c1, c2}
    Signals = {"SIGINT", "SIGTERM"}
    MaxEvents = 2
    Branches = {b1, b2}
    b1 = b1
    Texts = {t1, t2}
    MaxCommits = 2
    MaxGitMoves = 2
SPECIFICATION MCSpec
CHECK_DEADLOCK FALSE
INVARIANT CommentsAreKept
INVARIANT WatcherKnows
INVARIANT GitAnswersFit
INVARIANT ServerAnswers
PROPERTY WorkEnds
