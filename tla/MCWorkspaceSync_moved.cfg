SPECIFICATION Spec
CONSTANTS
    wa = wa
    wb = wb
    Main = Main
    Workspaces <- MCWorkspaces2
    BatchSize = 2
    MaxEvents = 5
    MaxWarps = 2
    MaxDrops = 0
    QuietWarps = TRUE
    Troubles <- MCUntroubled
CHECK_DEADLOCK FALSE
INVARIANT MovedIsFollowed
