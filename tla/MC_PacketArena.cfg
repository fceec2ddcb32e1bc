\* The recording stops growing at 3 cells, so room has to be reused.
SPECIFICATION Spec
CONSTANTS
    NPackets = 3
    NArenas = 2
    Cap = 3
    WrapHole = 2
    MaxCell = 5
    MaxSaves = 2
    MaxFaults = 1
    Size <- MCSize
    Track <- MCTrack
INVARIANTS
    TypeOK
    NoOverlap
    NothingLeaks
    LeaseReadable
    ClipIntact
    PaddingZeroed
PROPERTIES
    DroppedStaysDropped
\* The model stops once NPackets packets are captured and gone.
CHECK_DEADLOCK FALSE
