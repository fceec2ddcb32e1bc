CONSTANTS
    alice = alice
    bob = bob
    Peers <- MCPeers
    MaxActs = 3
    MaxTrouble = 1
    MaxFlight = 1
SPECIFICATION FairSpec
INVARIANTS
    Consent
    DeclinedStayOut
PROPERTIES
    RemovalSettles
CHECK_DEADLOCK FALSE
