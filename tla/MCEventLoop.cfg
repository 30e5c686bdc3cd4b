SPECIFICATION FairSpec
CONSTANTS
    Clients = {c1, c2}
    MAX_REQUEST_SIZE = 4
    RequestSizes = {3}
    ResponseSize = 2
    SendBuffer = 1
    MaxRequests = 2
    AcceptErrors = FALSE
    InnerMarkers = FALSE
INVARIANTS
    TypeOK
    NoLostWakeup
    NoDanglingReport
    OneResponsePerRequest
PROPERTIES
    ClientsServed
    GoneIsClosed
CHECK_DEADLOCK FALSE
