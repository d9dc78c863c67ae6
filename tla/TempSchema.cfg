SPECIFICATION Spec
CONSTANTS
    p1 = p1
    p2 = p2
    a = a
    b = b
    r = r
    None = None
    Procs = {p1, p2}
    Dirs = 1
    Objects = {a, b, r}
    Routines = {r}
    Wanted <- MCWanted
    CharSet <- MCCharSet
    Keep = {p2}
    MaxOpenConns = 2
    Events = {"lose", "crash", "fail", "lock", "user"}
INVARIANTS
    TypeOK
    Exclusive
    Isolation
PROPERTIES
    RowsSurvive
