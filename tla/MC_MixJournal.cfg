SPECIFICATION MixFairSpec
CONSTANTS
    NPackets = 4
    MaxMixes = 2
    MaxTrims = 1
    MaxFaults = 1
    MaxCrashes = 1
INVARIANTS ClipPlays OldAudioIsGone
PROPERTIES InterruptedMixFinishes
CHECK_DEADLOCK FALSE
