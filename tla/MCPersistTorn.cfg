SPECIFICATION Spec
CONSTANTS
    Lines = {l1, l2}
    MaxBatches = 2
    MaxCrashes = 1
    Circumstances = {"torn"}
INVARIANTS
    RecoveredState
CHECK_DEADLOCK FALSE
