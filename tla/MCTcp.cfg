CONSTANTS
    Client = c
    Server = s
    Plans <- Courses
    TCP_WND = 4
    TCP_SND_BUF = 4
    TCP_SND_QUEUELEN = 5
    TCP_MAXRTX = 2
    TCP_SYNMAXRTX = 1
    StreamLen = 5
    ReceiveWindow = 8
    MEMP_NUM_TCP_SEG = 4
    Arriving <- Mixed
SPECIFICATION StreamSpec
INVARIANTS
    StreamIsWhole
    SenderAccounts
    ReassemblyIsSound
PROPERTY StreamsArrive
CHECK_DEADLOCK FALSE
