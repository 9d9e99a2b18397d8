SPECIFICATION Spec
CONSTANTS
    Namespaces = {"app", "event", "My_App"}
    Invalid = {"My_App"}
    Components = {"job", "event", "cron", "global"}
    Words = {"a", "b"}
    MaxWords = 3
INVARIANTS MatchIsMeaning MatchedIsRead Isolated
CHECK_DEADLOCK FALSE
