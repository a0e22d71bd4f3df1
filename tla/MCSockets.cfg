CONSTANTS
    MEMP_NUM_TCP_PCB = 2
    MEMP_NUM_TCP_PCB_LISTEN = 1
    MEMP_NUM_NETCONN = 3
    TCP_LOCAL_PORT_RANGE_START = 2
    TCP_LOCAL_PORT_RANGE_END = 4
    TCP_SYNMAXRTX = 1
    TCP_MAXRTX = 1
    TCP_FIN_WAIT_TIMEOUT = 1
    TCP_SYN_RCVD_TIMEOUT = 1
    TCP_MSL = 0
    TCP_KEEPDEFAULT = 0
    TCP_KEEPINTVL = 1
    TCP_KEEPCNT = 1
    NULL = NULL
    STALE = STALE
    ANY = ANY
    ME = ME
    r1 = r1
    r2 = r2
    Remotes = {r1, r2}
    MaxLost = 1
    Plans <- AllPlans
SPECIFICATION FairSpec
INVARIANTS
    PcbsAreSound
    NothingElseIsLost
    OptionsHold
PROPERTIES
    GivesWay
    EndsAreReached
