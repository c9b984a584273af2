SPECIFICATION FairSpec
CONSTANTS
    t1 = t1
    t2 = t2
    t3 = t3
    Thread = {t1, t2}
    Msg = {1, 2}
    Empty = Empty
    RP_REQ_PER_THREADS = 1
    MayStop = FALSE
PROPERTIES
    NeverStranded
CHECK_DEADLOCK FALSE
