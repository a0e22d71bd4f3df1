CONSTANTS
    a = a
    b = b
    Units = {a, b}
    Scenarios <- MCScenarios
    MaxConfReqs = 2
    MaxTermReqs = 2
    MaxNakLoops = 2
    MaxAuthTries = 2
    EchoFails = 1
    LoopbackFail = 2
SPECIFICATION Spec
CHECK_DEADLOCK FALSE
INVARIANTS
    ConnectionsAreSound
    UndisturbedComesUp
    NoStandstill
    CloseEndsInTime
