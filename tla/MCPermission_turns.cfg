SPECIFICATION Spec
CONSTANTS
    s1 = s1
    s2 = s2
    safe = safe
    push = push
    banned = banned
    r1 = r1
    Sessions <- MCSessions
    Patterns <- MCPatterns
    Config <- MCConfig
    Inputs <- MCInputs
    Modes <- MCModes
    Repliers <- MCOneReplier
    MaxAsks = 3
    MaxGens = 2
    Preemptive = FALSE
INVARIANTS
    PromptsMatchWaiters
    NoNeedlessPrompt
    GrantsAreJustified
SYMMETRY SessionSymmetry
