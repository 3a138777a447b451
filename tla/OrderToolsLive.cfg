SPECIFICATION FairSpec
CONSTANTS
    c1 = c1
    c2 = c2
    c3 = c3
    Calls = {c1, c2}
    InitialStatuses = {"processing", "delivered"}
    PaymentStatuses = {"paid"}
    MaxMoves = 1
PROPERTIES
    CallsReturn
CHECK_DEADLOCK FALSE
