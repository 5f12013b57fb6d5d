SPECIFICATION Spec
CONSTANTS
    s1 = s1
    s2 = s2
    h1 = h1
    Server <- MCServer
    Request = {r1, r2}
    NoServer = NoServer
    Setups <- MCSetups
    prompt_length = 2
    PromptLen = 1
    partial_rollout = TRUE
    test_freq = 1
    MaxVersion = 2
INVARIANTS
    TypeOK
    VersionsBracket
    WholeResponse
    TrueLoad
PROPERTIES
    EveryRequestEnds
CHECK_DEADLOCK FALSE
