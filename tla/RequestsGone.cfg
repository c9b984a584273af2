SPECIFICATION Spec
CONSTANTS
    t1 = t1
    t2 = t2
    Thread = {t1, t2}
    Kind <- MCRefused
    MaxProvider = 2
    Vanishes = TRUE
INVARIANTS
    AnsweredInOrder
    MemorySafe
CHECK_DEADLOCK FALSE
