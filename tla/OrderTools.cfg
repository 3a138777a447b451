SPECIFICATION Spec
CONSTANTS
    c1 = c1
    c2 = c2
    c3 = c3
    Calls = {c1, c2, c3}
    InitialStatuses = {"processing", "delivered"}
    PaymentStatuses = {"paid", "success"}
    MaxMoves = 2
SYMMETRY CallSymmetry
INVARIANTS
    OnlyRivalsRefundTwice
    RetriesAreRefused
    AnswersMatchTheTables
    ReadsShowConfirmed
    RefundsFollowDelivery
PROPERTIES
    WritesKeepTheLedger
CHECK_DEADLOCK FALSE
