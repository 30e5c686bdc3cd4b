SPECIFICATION FairSpec
CONSTANTS
    RING_BUFFER_SIZE = 6
    Payloads = {"a"}
    LoggedTypes = {0}
    MaxGroup = 1
    MaxGroups = 2
    MaxEntries = 9
    MaxCrashes = 2
    PowerLoss = TRUE
    RoomFirst = TRUE
    UnfencedTail = FALSE
INVARIANTS
    TypeOK
    UnackedIntact
PROPERTIES
    ImplementsCommittedLog
    CommittedIsConsumed
