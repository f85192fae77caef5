SPECIFICATION FairSpec
CONSTANTS
    p1 = p1
    p2 = p2
    p3 = p3
    p4 = p4
    p5 = p5
    None = None
    Procs <- MCProcs
    Timely = TRUE
INVARIANTS
    MutualExclusion
    NeverCompromised
    OneCleanerUndisturbed
PROPERTIES
    ImplementsOwnedLock
    DeadLockIsBroken
CHECK_DEADLOCK FALSE
