SPECIFICATION Spec
CONSTANTS
    e1 = e1
    e2 = e2
    Elem = {e1, e2}
    Junk = Junk
    InitCap = 2
    MaxItems = 6
INVARIANTS
    TypeOK
PROPERTIES
    ImplementsFifo
