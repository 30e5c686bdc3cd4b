SPECIFICATION FairSpec
CONSTANTS
    NUMBER_OF_THREADS = 3
    MmapContexts = {"app"}
    Modes = {TRUE}
    UninitReady = {3}
PROPERTIES
    WriterDrains
    WordComesFree
    UpdatesComplete
