CONSTANTS
    NoPath = NoPath
    AllPaths = AllPaths
    a = a
    b = b
    Files = {a, b}
    Documents = {a, b}
    MaxPanes = 3
    MaxLoads = 2
    MaxId = 3
    MaxRequests = 3
    MaxEvents = 2
    MaxNotices = 2
SPECIFICATION MCSpec
CHECK_DEADLOCK FALSE
SYMMETRY Symmetry
INVARIANT EditorIsRight
INVARIANT CommentsAreRight
