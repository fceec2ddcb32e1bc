SPECIFICATION FairSpec
CONSTANTS
    NFiles = 3
    Added <- MCAdded
    Executable = 1
    MaxAttempts = 2
    MaxTroubles = 4
INVARIANTS OldBytesSurvive
PROPERTIES KeepsItsPromise ActivationEnds CommittedIsCleaned
CHECK_DEADLOCK FALSE
