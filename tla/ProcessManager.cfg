SPECIFICATION MCSpec
CONSTANTS
    Sessions = {s1}
    None = none
    MaxSessions = 1
    Connected = TRUE
    Deaf = {}
    Talks = {"stderr"}
    Uses = {"poll", "write", "kill", "shutdown", "cleanup", "drop", "heirs"}
    Pipes = {"stdout", "stderr"}
    Characters <- TwoCharacters
    MaxChars = 2
    MaxBytes = 4
    Limits = {3}
    TailBytes = 4
    FallbackBytes = 3
INVARIANTS
    ExitIsLast
    KillMeansDead
    Silences
    OutputFaithful
PROPERTIES
    CallersLearn
CHECK_DEADLOCK FALSE
