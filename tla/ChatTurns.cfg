SPECIFICATION FairSpec
CONSTANTS
    Requests = {r1, r2}
    r1 = r1
    r2 = r2
    Sockets = {"ws"}
    MAX_OUTPUT_RETRIES = 2
INVARIANTS
    AnsweredTurnsStay
    RepliesAreOwn
    RepliesAreWhatIsKept
    SocketTurnsAreSerial
PROPERTIES
    SocketsAnswerInOrder
    RequestsAreSettled
CHECK_DEADLOCK FALSE
