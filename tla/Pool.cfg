SPECIFICATION FairSpec
CONSTANTS
    t1 = t1
    t2 = t2
    t3 = t3
    Thread = {t1, t2, t3}
    Msg = {1, 2, 3}
    Empty = Empty
    RP_REQ_PER_THREADS = 1
    MayStop = TRUE
INVARIANTS
    TypeOK
    ActiveCounted
PROPERTIES
    PickedUp
    CleanupEnds
CHECK_DEADLOCK FALSE
