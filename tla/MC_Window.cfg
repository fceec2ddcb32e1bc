SPECIFICATION FairSpec
CONSTANTS
    None = None
    Slots = 2
    Background = 1
    MaxWaiting = 1
    MaxQueued = 1
    MaxWindows = 2
    MaxCalls = 2
    MaxUses = 2
    MaxTrouble = 1
    Reads = {q}
    SessionLimit = 1
    MaxVersion = 2
INVARIANTS OneWindowProcess SessionsEndWithTheirWindow ViewsAreCurrent
PROPERTIES ReopenHonoured
CHECK_DEADLOCK FALSE
