SPECIFICATION FairSpec
CONSTANTS
    Groups = {"w1", "w2"}
    Workers = {"w1", "w2"}
    GroupOf <- WorkersApart
    Msgs = {"c", "j1", "x"}
    Gets <- GetsAll
    Accepts <- AcceptsApart
    Names = {"A"}
    Tasks = {"T"}
    NameOf <- NamesByMsg
    NoName = "none"
    Keys = {"k"}
    NoKey = ""
    KeyOf <- KeysByMsg
    BodyOf <- BodiesByMsg
    RegisterFirst = TRUE
    MayFail = TRUE
    SlowHandlers = TRUE
    MaxRetries = 1
    MaxPublished = 1
    MaxFaults = 1
    MaxCrashes = 1
    MaxExpiries = 0
PROPERTIES EventuallyLeaves ImplementsContract
CHECK_DEADLOCK FALSE
