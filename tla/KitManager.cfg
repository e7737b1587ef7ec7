SPECIFICATION Spec
CONSTANTS
    Calls = {c1, c2, c3}
    None = none
    KitGenerations = 2
    MaxFailures = 2
    MaxChanges = 1
INVARIANTS
    CallsMeetTheirKit
    ProcessesBounded
    FailuresCountProcesses
    ShutdownReachesAll
SYMMETRY Symmetry
CHECK_DEADLOCK FALSE
