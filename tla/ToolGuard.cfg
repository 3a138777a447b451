SPECIFICATION GuardSpec
CONSTANTS
    Turns = {t1, t2, t3}
    Messages <- Phrases
    Tools <- SelectedTools
    UserRole = "customer"
    Nothing = Nothing
    Limit = 1
    MaxCalls = 2
    MaxFailures = 1
SYMMETRY AnyTurn
INVARIANTS
    OneAnswerPerQuestion
\* Every turn ends.
CHECK_DEADLOCK FALSE
