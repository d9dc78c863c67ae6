SPECIFICATION FairSpec
CONSTANTS
    p1 = p1
    p2 = p2
    a = a
    b = b
    r = r
    None = None
    Procs = {p1, p2}
    Dirs = 3
    Objects = {a, r}
    Routines = {r}
    Wanted <- MCWanted
    CharSet <- MCCharSet
    Keep = {p2}
    MaxOpenConns = 2
    Events = {}
PROPERTY
    WaitIsBounded
\* The temporal property finds every stop but the intended one.
CHECK_DEADLOCK FALSE
