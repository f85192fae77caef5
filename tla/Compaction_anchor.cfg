SPECIFICATION Spec
CONSTANTS
    TailTurns = 2
    MaxMsgs = 9
    Failing = FALSE
INVARIANT NewestIsAnchor
CHECK_DEADLOCK FALSE
