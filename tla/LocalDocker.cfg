SPECIFICATION FairSpec
CONSTANTS
    p1 = p1
    p2 = p2
    u = u
    v = v
    w = w
    c = c
    d = d
    None = None
    Procs = {p1, p2}
    Workers = {u, v, w}
    Names = {c, d}
    ProcOf <- MCProcOf
    Requests <- MCRequests
    Found <- MCFound
    Faults = {"image", "start", "stop", "connect", "query", "kill"}
    MaxFaults = 1
INVARIANTS
    Isolation
    RegisteredOnce
    CreatedIsCleaned
PROPERTIES
    Terminates
CHECK_DEADLOCK FALSE
