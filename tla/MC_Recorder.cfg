SPECIFICATION FairSpec
CONSTANTS
    MaxGen = 2
    MaxTrouble = 2
    MaxUses = 1
INVARIANTS OneEngine ShutdownIsComplete NoOrphanedRequest InstallSparesSaves
PROPERTIES RecordingResumes ShutdownEnds
CHECK_DEADLOCK FALSE
