SPECIFICATION InstallSpec
CONSTANTS
    Downloads = {d1, d2}
    Restarts = {s1}
    Migrations = {m1}
    MaxCrashes = 1
    Nothing = none
INVARIANTS
    RunsWithItsSettings
PROPERTIES
    InstallationKeeps
SYMMETRY Interchangeable
CHECK_DEADLOCK FALSE
