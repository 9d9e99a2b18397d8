SPECIFICATION Spec
CONSTANTS
    p1 = p1
    p2 = p2
    c1 = c1
    c2 = c2
    g1 = g1
    m1 = m1
    m2 = m2
    Procs = {p1, p2}
    Consumers = {c1}
    ProcOf <- OnlyProc
    GroupOf <- OnlyGroup
    Groups = {g1}
    Matches <- MatchAll
    Msgs = {m1}
    MaxRetries = 1
    Concurrency = 1
    ScanCount = 1
    AutoClaimKnown = {c1}
    SlowHandlers = TRUE
    MayStop = TRUE
    CloseDeadline = TRUE
    Faults = {"xadd", "zadd", "zrem", "xgroup", "xreadgroup", "xautoclaim", "xack"}
    MaxFaults = 1
    MaxCrashes = 0
    MaxPublish = 1
    MaxStream = 2
INVARIANTS
    TypeOK
    NoLoss
CHECK_DEADLOCK FALSE
