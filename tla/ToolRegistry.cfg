SPECIFICATION FairSpec
CONSTANTS
    customer = customer
    admin = admin
    Requests = {p1, p2, p3}
    Warmup = warmup
    Roles = {customer, admin}
    ALL_ROLES <- AllRoles
    None = None
    MaxServers = 2
    MaxStarts = 2
PROPERTIES
    FetchesOnce
    CallsEnd
\* The process and the server may stay down.
CHECK_DEADLOCK FALSE
