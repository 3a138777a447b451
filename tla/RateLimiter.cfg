SPECIFICATION Spec
CONSTANTS
    Request = {r1, r2}
    Limit = 2
    Window = 4
    Slack = 1
    MaxDelay = 1
    MaxTime = 6
    MaxEvents = 4
    MaxFailures = 1
SYMMETRY Handlers
INVARIANTS
    AllowedBounded
    OvershootBounded
PROPERTIES
    RefusalsJustified
    LimiterKeepsItsWindow
\* The bounds stop the clock and the arrivals.
CHECK_DEADLOCK FALSE
