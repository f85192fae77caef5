SPECIFICATION Spec
CONSTANTS
    c1 = c1
    c2 = c2
    c3 = c3
    Clients <- MCClients3
    MaxCalls = 3
    Preemptive = TRUE
SYMMETRY Symmetry3
INVARIANTS
    LiveWorkHasKeeper
    
    OneAtATime
    QuiescentIdle
PROPERTIES
    CancelledPendingNeverStarts
    ImplementsExclusiveWork
