CONSTANTS
    h1 = h1
    h2 = h2
    h3 = h3
    srv = srv
    noServer = noServer
    Absent = Absent
    ARP_TABLE_SIZE = 2
    ARP_MAXAGE = 3
    ARP_MAXPENDING = 2
    Outside = {200}
    MaxSelects = 2
    MaxChecks = 1
    MaxRebinds = 1
    Scenarios <- MCScenarios
SPECIFICATION FairSpec
CHECK_DEADLOCK FALSE
INVARIANTS FramesReachTheirHost CacheIsSound AddressIsOurs

PROPERTY GetsAnAddress
