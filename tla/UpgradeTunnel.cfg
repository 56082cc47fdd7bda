\* One chunk larger than what the sockets hold, and one more byte after it.
CONSTANTS
    CopyBuf = 2
    Window = 1
    MaxBytes = 3
SPECIFICATION FairSpec
CHECK_DEADLOCK FALSE
INVARIANTS
    TypeOK
    RelayedInOrder
    DeliveredBeforeShutdown
PROPERTY EndsUnlessBlocked
