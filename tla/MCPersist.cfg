SPECIFICATION FairSpec
CONSTANTS
    Lines = {l1, l2}
    MaxBatches = 2
    MaxCrashes = 2
    Circumstances = {}
INVARIANTS
    TypeOK
    RecoveredState
    DrainedImage
PROPERTIES
    RecoveryCompletes
CHECK_DEADLOCK FALSE
