SPECIFICATION Spec
CONSTANTS
    RING_BUFFER_SIZE = 3
    Payloads = {"a"}
    LoggedTypes = {0, 3}
    MaxGroup = 1
    MaxGroups = 1
    MaxEntries = 12
    MaxCrashes = 0
    PowerLoss = FALSE
    RoomFirst = FALSE
    UnfencedTail = FALSE
INVARIANTS
    UnackedIntact
