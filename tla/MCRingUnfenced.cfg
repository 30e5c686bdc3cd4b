SPECIFICATION Spec
CONSTANTS
    RING_BUFFER_SIZE = 6
    Payloads = {"a"}
    LoggedTypes = {0}
    MaxGroup = 1
    MaxGroups = 1
    MaxEntries = 4
    MaxCrashes = 2
    PowerLoss = TRUE
    RoomFirst = TRUE
    UnfencedTail = TRUE
PROPERTIES
    AppliesTheLog
