SPECIFICATION Spec
CONSTANTS
    Requests = {r1, r2}
    None = none
    Policy <- StrictPolicy
PROPERTY NoTimeoutOnDeadConnection
CHECK_DEADLOCK FALSE
