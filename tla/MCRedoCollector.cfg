SPECIFICATION RefSpec
CONSTANTS
    Slots = 4
    TableBytes = 32
    LineSize = 2
    LowLimit = 1
    StoreRanges <- MCStores
    CopyRanges <- MCCopies
    MaxMemcpy = 2
    BypassSize = 2
    MaxCalls = 2
    Builds = {"dedup", "bypass"}
    Unset = {0}
    Overfull = FALSE
    Coverage = 4
    InitialSize = 2
    ThresholdNum = 1
    ThresholdDen = 2
    MaxCollisions = 4
INVARIANTS CollectorTypeOK TableSound BuffersFit AgreesWithReference ReferenceSound
PROPERTIES ImplementsWriteSet InstrumentationReturns
