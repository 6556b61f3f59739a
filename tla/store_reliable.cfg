\* One server, two calls in flight, nothing fails; the bounds on ids end the run.
CONSTANTS
    c1 = c1
    c2 = c2
    s1 = s1
    s2 = s2
    p1 = p1
    p2 = p2
    Servers = {s1}
    Calls = {c1, c2}
    Home <- AtOne
    Places = {p1}
    Keys = {k1}
    NoKey = NoKey
    MaxStamp = 4
    MaxFaults = 0

SPECIFICATION Spec
SYMMETRY CallSymmetry
CHECK_DEADLOCK FALSE
INVARIANT RequestsCountOnce
 
PROPERTY ImplementsBoard
