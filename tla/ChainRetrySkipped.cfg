SPECIFICATION FairSpec
CONSTANTS
    Groups = {"jobs"}
    Workers = {"w1"}
    GroupOf <- OneWorkerGroup
    Msgs = {"j1"}
    Gets <- GetsByKind
    Accepts <- AcceptsButX
    Names = {"A"}
    Tasks = {}
    NameOf <- NamesByMsg
    NoName = "none"
    Keys = {"k"}
    NoKey = ""
    KeyOf <- KeysByMsg
    BodyOf <- BodiesByMsg
    RegisterFirst = TRUE
    MayFail = TRUE
    SlowHandlers = FALSE
    MaxRetries = 1
    MaxPublished = 4
    MaxFaults = 0
    MaxCrashes = 0
    MaxExpiries = 0
PROPERTIES SkippedWasProcessed
CHECK_DEADLOCK FALSE
