SPECIFICATION Spec
CONSTANTS
    p1 = p1
    p2 = p2
    c1 = c1
    c2 = c2
    q1 = q1
    q2 = q2
    m1 = m1
    m2 = m2
    Procs = {p1}
    Queues = {q1, q2}
    Consumers = {c1, c2}
    ProcOf <- SameProc
    QueueOf <- OwnQueue
    Matches <- MatchAll
    Msgs = {m1}
    MaxRetries = 1
    Prefetch = 1
    Concurrency = 1
    DelayMode = "standard"
    MayStop = {}
    MayClose = {p1}
    MayCancel = {}
    Faults = {"dial", "refuse", "channel", "connection", "restart", "crash"}
    MaxFaults = 1
    MaxPublish = 1
    MaxCopies = 4
INVARIANTS
    TypeOK
    NoLoss
PROPERTIES
    ImplementsContract
SYMMETRY Symmetry
CHECK_DEADLOCK FALSE
