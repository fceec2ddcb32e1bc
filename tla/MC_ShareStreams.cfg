SPECIFICATION StreamsFairSpec
CONSTANTS
    Total = 4
    Slack = 2
    Ahead = 2
    RequestBlocks = 2
    MaxRunways = 2
    Index = 3
    Order <- MCOrder
    Readers = {v, a}
    MaxReads = 2
    MaxHitches = 1
INVARIANTS NothingFetchedTwice
PROPERTIES ReadersServed
CHECK_DEADLOCK FALSE
