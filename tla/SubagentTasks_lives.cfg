SPECIFICATION LivesSpec
CONSTANTS
    Tasks = {t1, t2}
    Keys = {k1, k2}
    None = None
    MaxConcurrent = 2
    MaxFinished = 1
    MaxLives = 3
    Connected = TRUE
    Events = {"drop", "cancel", "unload", "socketLoss", "shutdown", "lost",
              "saveFails"}
INVARIANTS
    EvidenceBeforePrompt
    WakeAtMostOnce
    WakeOnlyWhenClosed
PROPERTIES
    RowsMoveForward
    CancelHolds
    OrphansReported
CHECK_DEADLOCK FALSE
