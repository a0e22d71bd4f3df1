SPECIFICATION FairSpec
CONSTANTS
    Programs = {1, 2, 3}
    Plans <- MCPlans
    PoolIds <- MCPool
    RamIds <- MCRam
    RefIds <- MCRef
    PBUF_POOL_BUFSIZE = 64
    MTU = 84
    IP_REASS_BUFSIZE = 192
INVARIANTS
    RefsAreHeld
    ReceivedIsWhole
PROPERTIES
    Arrives
    BufferIsFreed
CHECK_DEADLOCK FALSE
