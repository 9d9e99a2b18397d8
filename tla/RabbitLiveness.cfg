SPECIFICATION FairSpec
CONSTANTS
    p1 = p1
    p2 = p2
    c1 = c1
    c2 = c2
    q1 = q1
    q2 = q2
    m1 = m1
    m2 = m2
    Procs = {p1, p2}
    Queues = {q1}
    Consumers = {c1, c2}
    ProcOf <- OwnProc
    QueueOf <- SameQueue
    Matches <- MatchAll
    Msgs = {m1}
    MaxRetries = 1
    Prefetch = 2
    Concurrency = 1
    DelayMode = "aliyun"
    MayStop = {c1}
    MayClose = {}
    MayCancel = {c1}
    Faults = {"channel", "dial"}
    MaxFaults = 1
    MaxPublish = 1
    MaxCopies = 5
INVARIANTS
    NoLoss
    StopIsQuiet
PROPERTIES
    EventuallySettled
    StopReturns
CHECK_DEADLOCK FALSE
