SPECIFICATION Spec
CONSTANTS
    p1 = p1
    p2 = p2
    p3 = p3
    p4 = p4
    CPeers = {p3}
    PyPeers = {p1, p2}
    Conns = {1, 2, 3}
    Contact <- Star
    Port <- Ports
    Listening = {p1, p3}
    Found = {TRUE}
    Ageing = TRUE
    Partial = TRUE
    None = None
    Garbage = Garbage
INVARIANTS
    PyListsOnce
    InformsOfNewcomer
    LockDiscipline
CHECK_DEADLOCK FALSE
