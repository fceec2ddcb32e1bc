SPECIFICATION MixSpec
CONSTANTS
    NPackets = 4
    MaxMixes = 1
    MaxTrims = 1
    MaxFaults = 2
    MaxCrashes = 1
PROPERTIES RedoYieldsTheMix
CHECK_DEADLOCK FALSE
