SPECIFICATION Spec
CONSTANTS
    CounterSpan = 4
    IdSpan = 32
    Retention = 2
    FirstClock = 6
    MaxClock = 11
    MaxIds = 3
INVARIANT RecentFilesKept
CHECK_DEADLOCK FALSE
