SPECIFICATION FairSpec
CONSTANTS
    Requests = {r1, r2}
    Original = original
    None = none
    MaxCrashes = 1
INVARIANTS
    UpgradeSound
PROPERTIES
    ExeMovesByTransaction
    TransactionEnds
CHECK_DEADLOCK FALSE
