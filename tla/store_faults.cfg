\* One server that may crash, or see a file operation fail, twice.
CONSTANTS
    c1 = c1
    c2 = c2
    s1 = s1
    s2 = s2
    p1 = p1
    p2 = p2
    Servers = {s1}
    Calls = {c1, c2}
    Home <- AtOne
    Places = {p1}
    Keys = {k1}
    NoKey = NoKey
    MaxStamp = 3
    MaxFaults = 2

SPECIFICATION Spec
SYMMETRY CallSymmetry
CHECK_DEADLOCK FALSE
INVARIANT TypeOK
INVARIANT NothingSavedIsLost
PROPERTY TextsMoveForward
