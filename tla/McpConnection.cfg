SPECIFICATION FairSpec
CONSTANTS
    Requests = {r1, r2, r3}
    Canceller = canceller
    None = none
    MaxPending = 2
    CancelQueue = 1
PROPERTIES
    ImplementsTable
    RequestsSettle
CHECK_DEADLOCK FALSE
