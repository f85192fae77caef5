SPECIFICATION FairSpec
CONSTANTS
    r1 = r1
    r2 = r2
    w = w
    Reviewers = {r1, w}
    ReadOnly = {r1}
    Verifier = verifier
    Council <- MCCouncil
    Escalation = {w}
    Reasons = {1}
    MaxCalls = 2
    MaxTotal = 2
    MinInterval = 2
    MaxPerRound = 2
    MaxRetries = 2
    MaxRecoveries = 1
    MaxPrompts = 2
    MaxStep = 2
    None = None
    Troubles <- MCFine
PROPERTIES
    RetriesBounded
CHECK_DEADLOCK FALSE
