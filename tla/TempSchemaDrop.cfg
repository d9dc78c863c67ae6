SPECIFICATION FairSpec
CONSTANTS
    p1 = p1
    p2 = p2
    a = a
    b = b
    r = r
    None = None
    Procs = {p1}
    Dirs = 1
    Objects = {a, b}
    Routines = {}
    Wanted <- MCWanted
    CharSet <- MCCharSet
    Keep = {}
    MaxOpenConns = 2
    Events = {"user"}
PROPERTY
    WitnessedRowsSurvive
