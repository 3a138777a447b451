SPECIFICATION Spec
CONSTANTS
    None = None
    Concurrency = 2
    Domains <- MCDomains
    Intents <- MCIntents
    Suites <- MCSuites
    Size <- MCSize
    ExecutorCases <- MCExecutorCases
    T <- MCThresholds
INVARIANTS
    TokensAreTheirOwn
    GreenRunsSawIt
CHECK_DEADLOCK FALSE
