CONSTANTS
    Scenarios <- MCScenarios
    PBUF_POOL_BUFSIZE = 12
    PPPOE_DISC_MAXPADI = 4
    PPPOE_DISC_MAXPADR = 2
    FSM_DEFMAXTERMREQS = 2
    OpenTicks = 12
    CloseTicks = 3
SPECIFICATION FairSpec
CHECK_DEADLOCK FALSE
INVARIANTS
    FramesAreSound
    SessionIsSound
PROPERTY
    OpenComesUp
