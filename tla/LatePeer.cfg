SPECIFICATION Spec
CONSTANTS
    p1 = p1
    p2 = p2
    p3 = p3
    p4 = p4
    CPeers = {}
    PyPeers = {p1, p2, p3, p4}
    Conns = {1, 2}
    Contact <- Star
    Port <- Ports
    Listening = {p1, p3, p4}
    Found = {}
    Ageing = FALSE
    Partial = FALSE
    None = None
    Garbage = Garbage
INVARIANTS
    ListenersTold
CHECK_DEADLOCK FALSE
