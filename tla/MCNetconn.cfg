CONSTANTS
    c1 = c1
    c2 = c2
    Conns = {c1, c2}
    MEMP_NUM_API_MSG = 2
    MaxInput = 1
    Setups <- Passing
SPECIFICATION FairSpec
INVARIANTS MessagesAreSound AnswersMatch
PROPERTY Return
CHECK_DEADLOCK FALSE
