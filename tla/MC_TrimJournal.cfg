SPECIFICATION FairSpec
CONSTANTS
    NSamples = 4
    BlockLen = 2
    MaxTrims = 2
    MaxFaults = 1
    MaxCrashes = 1
INVARIANTS BrokenIsJournaled KeptSamplesSurvive
PROPERTIES InterruptedFinish
CHECK_DEADLOCK FALSE
