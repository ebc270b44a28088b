SPECIFICATION FairSpec
CONSTANTS
    p1 = p1
    p2 = p2
    p3 = p3
    p4 = p4
    CPeers = {p1, p2, p3}
    PyPeers = {}
    Conns = {1, 2, 3, 4, 5}
    Contact <- Star
    Port <- Ports
    Listening <- All
    Found = {}
    Ageing = FALSE
    Partial = FALSE
    None = None
    Garbage = Garbage
PROPERTIES
    CAnswersRegister
CHECK_DEADLOCK FALSE
