SPECIFICATION Spec
CONSTANTS
    Users = {"ann", "bob"}
    Clients = {c1, c2}
    Calls <- CustomerCalls
    Contents <- Week
    Ttl <- Lifetimes
    None = None
    MaxDelay = 1
    MaxTime = 4
SYMMETRY AnyClient
INVARIANTS
    AnswersAreTrue
    ReadsGoForward
\* The clock stops.
CHECK_DEADLOCK FALSE
