\* Two servers share the data directory, and one fault may happen.
CONSTANTS
    c1 = c1
    c2 = c2
    s1 = s1
    s2 = s2
    p1 = p1
    p2 = p2
    Servers = {s1, s2}
    Calls = {c1, c2}
    Home <- AtEach
    Places = {p1}
    Keys = {k1}
    NoKey = NoKey
    MaxStamp = 3
    MaxFaults = 1

SPECIFICATION Spec
CHECK_DEADLOCK FALSE

INVARIANT ErasedStaysErased
