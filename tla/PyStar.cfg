SPECIFICATION FairSpec
CONSTANTS
    p1 = p1
    p2 = p2
    p3 = p3
    p4 = p4
    CPeers = {}
    PyPeers = {p1, p2, p3}
    Conns = {1, 2, 3, 4, 5}
    Contact <- Star
    Port <- Ports
    Listening <- All
    Found = {}
    Ageing = FALSE
    Partial = FALSE
    None = None
    Garbage = Garbage
INVARIANTS
    TypeOK
    KnownToContact
    QuietAgreement
PROPERTIES
    Converges
CHECK_DEADLOCK FALSE
