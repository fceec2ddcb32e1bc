SPECIFICATION Spec
CONSTANTS
    Chunks = 2
    MaxShares = 2
    MaxRequests = 2
    MaxTasks = 2
    MaxUses = 4
    MaxTrouble = 1
INVARIANTS SavedIsWhatWasOffered SenderIsNotMisled
CHECK_DEADLOCK FALSE
