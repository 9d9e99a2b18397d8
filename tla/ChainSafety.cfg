SPECIFICATION Spec
CONSTANTS
    Groups = {"jobs", "events"}
    Workers = {"w1", "sub"}
    GroupOf <- OneWorkerGroup
    Msgs = {"j1", "u", "e", "x"}
    Gets <- GetsByKind
    Accepts <- AcceptsButX
    Names = {"A"}
    Tasks = {}
    NameOf <- NamesByMsg
    NoName = "none"
    Keys = {"k"}
    NoKey = ""
    KeyOf <- KeysByMsg
    BodyOf <- BodiesByMsg
    RegisterFirst = FALSE
    MayFail = TRUE
    SlowHandlers = TRUE
    MaxRetries = 1
    MaxPublished = 4
    MaxFaults = 1
    MaxCrashes = 1
    MaxExpiries = 1
INVARIANTS TypeOK OncePerWindow NoneForgotten RejectedTakesNoKey
CHECK_DEADLOCK FALSE
