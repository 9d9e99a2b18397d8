SPECIFICATION Spec
CONSTANTS
    Instances = {i1}
    Providers = {"redis", "rabbitmq"}
    Names = {n1, n2}
    MaxLate = 1
    MayStop = {i1}
    MayCancel = {}
    MayEdit = TRUE
    MayMistype = TRUE
    MaxTerms = 2
    MaxScheds = 3
    MaxFailures = 0
SYMMETRY Symmetry
INVARIANTS
    TypeOK
    LeaderSchedules
CHECK_DEADLOCK FALSE
