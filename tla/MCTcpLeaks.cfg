CONSTANTS
    Client = c
    Server = s
    Plans <- LastAck
    TCP_WND = 2
    TCP_SND_BUF = 3
    TCP_SND_QUEUELEN = 5
    TCP_MAXRTX = 2
    TCP_SYNMAXRTX = 1
    StreamLen = 5
    ReceiveWindow = 8
    MEMP_NUM_TCP_SEG = 4
    Arriving <- Mixed
SPECIFICATION StreamSpec
INVARIANT NothingLeaks
CHECK_DEADLOCK FALSE
