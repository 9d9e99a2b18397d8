SPECIFICATION FairSpec
CONSTANTS
    EmptyName = ""
    DefaultGroup = "default"
    Names = {"", "default", "mail"}
    Sizes = {0, 1, 2}
    Main = "mq"
    Streams = {"s1", "s2", "s3"}
    RedisAdapters = {"s1", "s2"}
    MayFail = TRUE
    MayCancel = TRUE
    MayExpire = TRUE
INVARIANTS
    OrderFree
    NothingLeftRunning
    StoppedIsQuiet
PROPERTIES
    StopReturns
CHECK_DEADLOCK FALSE
