SPECIFICATION FairSpec
CONSTANTS
    p1 = p1
    p2 = p2
    p3 = p3
    p4 = p4
    CPeers = {p1, p2}
    PyPeers = {p3}
    Conns = {1, 2, 3, 4, 5}
    Contact <- Chain
    Port <- Ports
    Listening <- All
    Found = {TRUE, FALSE}
    Ageing = FALSE
    Partial = TRUE
    None = None
    Garbage = Garbage
INVARIANTS
    LockDiscipline
PROPERTIES
    StuckForGood
    PyAnswers
CHECK_DEADLOCK FALSE
