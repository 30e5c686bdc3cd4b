SPECIFICATION FairSpec
CONSTANTS
    INITIAL_TABLE_SIZE = 7
    InitialRegions = 2
    MaxLogged = 4
    Regions = {1, 2, 3, 4, 5, 6}
    NoFile = NoFile
    MaxCrashes = 3
INVARIANTS
    TypeOK
    RestoreAfterReplay
    NoTokenLeft
    RestoredComplete
    RegionsBacked
PROPERTIES
    StartupCompletes
CHECK_DEADLOCK FALSE
