SPECIFICATION MCSpec
CONSTANTS
    Requests = {1, 2, 3}
    Ids = {i1, i2}
    None = 0
    WorkLimit = 1
    ManagementLimit = 1
    Supervised = TRUE
    MaxChanges = 2
    Kinds = {"work", "reload", "restart"}
INVARIANTS
    HandlersBounded
    RestartAfterAnswer
PROPERTIES
    ImplementsSlots
    ConnectionServes
CHECK_DEADLOCK FALSE
