SPECIFICATION FairSpec
CONSTANTS
    p1 = p1
    p2 = p2
    p3 = p3
    p4 = p4
    a = a
    b = b
    CPeers = {p1, p2}
    PyPeers = {p3, p4}
    Conns = {1, 2}
    Starts <- Four
    Tries <- FourOnce
    Missing = Missing
    None = None
    B = 2
    NUL = NUL
INVARIANTS
    TypeOK
    VerifiedCopy
    MismatchHasCause
    AbortHasCause
    MutexHeldToServe
    PyCopy
    ListedWhileBusy
PROPERTIES
    EveryRetrievalEnds
CHECK_DEADLOCK FALSE
