SPECIFICATION FairLife
CONSTANTS
    Launches = {p1, p2}
    Guarded = TRUE
    Relayed = TRUE
    SilenceLimit = 2
    MaxSession = 2
    Nobody = none
INVARIANTS
    ServesAlone
PROPERTIES
    CleanedStaysClean
    LinkRecovers
CHECK_DEADLOCK FALSE
