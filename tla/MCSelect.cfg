CONSTANTS
    a1 = a1
    a2 = a2
    Apps = {a1, a2}
    NumSockets = 2
    Owner <- OwnerTwo
    Fresh = {1}
    Timeouts = {a2}
    MaxEvents = 3
SPECIFICATION FairSpec
INVARIANTS
    NoLostWakeup
    WakeupsAreTrue
PROPERTIES
    DataWakes
CHECK_DEADLOCK FALSE
