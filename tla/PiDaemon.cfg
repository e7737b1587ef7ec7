SPECIFICATION MCSpec
CONSTANTS
    Users = {u1}
    Stoppers = {s1}
    Objects <- TwoObjects
    Children <- TwoChildren
    Foreign = old
    None = none
    MaxMessages = 2
    MaxTurns = 2
    MaxTokens = 2
INVARIANTS
    PiIsOwned
    TaskVerdictTrue
PROPERTIES
    CallsReturn
    TaskRunEnds
CHECK_DEADLOCK FALSE
