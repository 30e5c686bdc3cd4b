SPECIFICATION Spec
CONSTANTS
    NUMBER_OF_THREADS = 3
    MmapContexts = {"app", "ro", "alloc"}
    Modes = {TRUE, FALSE}
    UninitReady = {0, 3}
INVARIANTS
    FCTypeOK
    MutualExclusion
    LockInv
    CollectedOnce
    ReadersSeeDurable
PROPERTIES
    ReturnedIsDurable
    OnlySubmittedExecuted
    ImplementsDurableExecutor
CHECK_DEADLOCK FALSE
