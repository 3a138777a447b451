SPECIFICATION Spec
CONSTANTS
    Clients = {c1, c2}
    Logins = {l1, l2}
    Roles = {customer, admin}
    None = None
    AccessLife = 1
    RefreshLife = 2
    MaxDelay = 1
    MaxTime = 3
    MaxRoles = 2
SYMMETRY Interchangeable
INVARIANTS
    AccessTokensAreRecent
PROPERTIES
    RefreshFollowsTheLogin
\* The clock stops.
CHECK_DEADLOCK FALSE
