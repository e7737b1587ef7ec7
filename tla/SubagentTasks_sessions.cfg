SPECIFICATION SessionsSpec
CONSTANTS
    Tasks = {t1, t2}
    Keys = {k1, k2}
    None = None
    MaxConcurrent = 2
    MaxFinished = 1
    MaxLives = 1
    Connected = FALSE
    Events = {"drop", "cancel", "unload", "socketLoss", "shutdown"}
INVARIANTS
    OneTaskPerSession
    PermitsExact
PROPERTIES
    ImplementsClaims
    SessionFreed
CHECK_DEADLOCK FALSE
