SPECIFICATION Spec
CONSTANTS
    p1 = p1
    p2 = p2
    p3 = p3
    p4 = p4
    p5 = p5
    None = None
    Procs <- MCProcs
    Timely = TRUE
INVARIANT OneCleaner
CHECK_DEADLOCK FALSE
