SPECIFICATION Spec
CONSTANTS
    c1 = c1
    c2 = c2
    c3 = c3
    Calls = {c1, c2}
    InitialStatuses = {"delivered"}
    PaymentStatuses = {"paid"}
    MaxMoves = 0
INVARIANT
    ClaimOneActiveRefund
CHECK_DEADLOCK FALSE
