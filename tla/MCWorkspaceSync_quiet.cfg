SPECIFICATION FairSpec
CONSTANTS
    wa = wa
    wb = wb
    Main = Main
    Workspaces <- MCWorkspaces2
    BatchSize = 2
    MaxEvents = 5
    MaxWarps = 3
    MaxDrops = 1
    QuietWarps = TRUE
    Troubles <- MCEither
CHECK_DEADLOCK FALSE
INVARIANTS
    LogsAgree
    MovedAwayIsFollowed
PROPERTIES
    ImplementsOneWriterLog
    CatchesUp
