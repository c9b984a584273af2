SPECIFICATION FairSpec
CONSTANTS
    t1 = t1
    t2 = t2
    Thread = {t1, t2}
    Kind <- MCData
    MaxProvider = 1
    Vanishes = FALSE
INVARIANTS
    TypeOK
    OneRequestInRp
    AnsweredInOrder
    MemorySafe
PROPERTIES
    Answered
    Released
CHECK_DEADLOCK FALSE
