SPECIFICATION Spec
CONSTANTS
    Lines = {l1, l2}
    MaxBatches = 3
    MaxCrashes = 1
    Circumstances = {}
INVARIANTS
    LiveMemory
CHECK_DEADLOCK FALSE
