SPECIFICATION FairSpec
CONSTANTS
    p1 = p1
    p2 = p2
    c1 = c1
    c2 = c2
    g1 = g1
    m1 = m1
    m2 = m2
    Procs = {p1}
    Consumers = {c1, c2}
    ProcOf <- SameProc
    GroupOf <- SameGroup
    Groups = {g1}
    Matches <- MatchAll
    Msgs = {m1}
    MaxRetries = 1
    Concurrency = 1
    ScanCount = 1
    AutoClaimKnown = {c2}
    SlowHandlers = FALSE
    MayStop = TRUE
    CloseDeadline = FALSE
    Faults = {}
    MaxFaults = 0
    MaxCrashes = 0
    MaxPublish = 1
    MaxStream = 3
INVARIANTS
    SingleExecution
    CloseIsQuiet
PROPERTIES
    StopReturns
    CloseReturns
CHECK_DEADLOCK FALSE
