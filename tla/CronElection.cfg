SPECIFICATION FairSpec
CONSTANTS
    Instances = {i1, i2}
    Providers = {"redis", "rabbitmq"}
    Names = {}
    MaxLate = 1
    MayStop = {i2}
    MayCancel = {i1}
    MayEdit = FALSE
    MayMistype = FALSE
    MaxTerms = 5
    MaxScheds = 5
    MaxFailures = 1
INVARIANTS
    
    LeaderHoldsLock
    LeaderRenews
PROPERTIES
    ImplementsLease
    LeaderElected
    CancelTakesEffect
    StaleLeaderStepsDown
CHECK_DEADLOCK FALSE
