CONSTANTS

    Procs = {p1, p2}
    NonBlocking = {p2}
    Core = Core
    Nobody = Nobody
    WRITES_IN_FLIGHT = 1
    BulkInSize = 2
    Counts = {1, 3}
    MaxCalls = 4
    MaxBytes = 3

SPECIFICATION FairSpec
INVARIANTS
    PermitsConserved
    DeviceOutlivesUse
    NothingAfterDisconnect
    QuietAfterDrawDown
    BytesOnce
PROPERTY DisconnectReleasesAll
CHECK_DEADLOCK FALSE
