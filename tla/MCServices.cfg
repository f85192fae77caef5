SPECIFICATION MCSpec
CONSTANTS
    a = a
    b = b
    Nil = Nil
    Absent = Absent
    safe = safe
    push = push
    banned = banned
    Dirs = {a, b}
    StoreCallers = {a, b}
    MaxEntries = 3
    ToolCalls = {a, b}
    MaxAttempts = 2
    Files = {a}
    Contents = {a, b}
    MaxLog = 4
    MaxReverts = 3
    Roles = {"user"}
    Overlap = FALSE
    Terms = {a, b}
    Conns = {a, b}
    Socks = {a}
    Limit = 1
    MaxChunk = 2
    MaxOut = 2
    Keys = {a, b}
    LspCallers = {a, b}
    Handlers <- MCHandlers
    MaxStarts = 3
    McpCallers = {a, b, Nil}
    MaxClients = 3
    Procs = {1, 2, 3}
    ProcSessions = {a, b}
    MaxUpdates = 3
    MaxShareCalls = 2
    CounterSpan = 3
    IdSpan = 24
    Retention = 2
    FirstClock = 10
    MaxClock = 13
    MaxIds = 3
    Sessions = {a}
    Patterns = {safe, push, banned}
    Config <- Ruleset
    Inputs <- DeniedInputs
    Modes = {"default", "auto-review"}
    Repliers = {a, b}
    MaxAsks = 2
    MaxGens = 1
    ReplyYields = TRUE
    Clients = {a, b}
    MaxCalls = 3
    Preemptive = TRUE
    TailTurns = 2
    MaxMsgs = 6
    Failing = TRUE
    TokenCallers = {1, 2, 3}
    MaxTokens = 4
    MaxTasks = 2
INVARIANTS
    TypesOK
    OneLiveInstance
    NothingLeftOpen
    FilesMatchConversation
    ReplayIsExact
    OneServerPerRoot
    ToolsBelongToClient
    NoUpdateForgotten
    IdsAscend
    PromptsHold
    NothingFallsBetween
    RefreshUsedOnce
    NoOrphans
PROPERTIES
    OnlyItsOwnDisposal
    ImplementsOneInstance
    LockKeepsOthersOut
    FirstOutcomeStands
    
CHECK_DEADLOCK FALSE
