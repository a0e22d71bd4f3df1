CONSTANTS
    Mailboxes = {m1}
    Signals = {s1}
    SYS_MBOX_SIZE = 2
    arp = arp
    lcp = lcp
    Handlers = {arp, lcp}
    Again <- OnlyArp
    Delays = {1, 3}
    MEMP_NUM_SYS_TIMEOUT = 3
    Gap = 2
    MaxLate = 2
    Partners <- MCPartners
    EMAC_RX_BUFFERS = 2
    SemMax = 1
    Addresses = {1, 2}
    Conns = {c1, c2}
    Servers = {l1}
    NULL = NULL
    Free = Free
SPECIFICATION Spec
INVARIANTS
    PoolIsSound
    TimersAreSound
    DriverIsSound
    RoutesAreSound
PROPERTIES
    OthersKeepTheirTime
    AllIsServed
