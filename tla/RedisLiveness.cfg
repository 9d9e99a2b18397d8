SPECIFICATION FairSpec
CONSTANTS
    p1 = p1
    p2 = p2
    c1 = c1
    c2 = c2
    g1 = g1
    m1 = m1
    m2 = m2
    Procs = {p1}
    Consumers = {c1}
    ProcOf <- OnlyProc
    GroupOf <- OnlyGroup
    Groups = {g1}
    Matches <- MatchAll
    Msgs = {m1}
    MaxRetries = 1
    Concurrency = 1
    ScanCount = 1
    AutoClaimKnown = {c1}
    SlowHandlers = FALSE
    MayStop = FALSE
    CloseDeadline = FALSE
    Faults = {"zadd", "zrem", "xreadgroup", "xautoclaim", "xack"}
    MaxFaults = 1
    MaxCrashes = 1
    MaxPublish = 1
    MaxStream = 6
PROPERTIES
    ImplementsContract
    EventuallySettled
CHECK_DEADLOCK FALSE
