SPECIFICATION Spec
CONSTANTS
    p1 = p1
    p2 = p2
    p3 = p3
    p4 = p4
    a = a
    b = b
    CPeers = {}
    PyPeers = {p1, p2, p3}
    Conns = {1, 2, 3}
    Starts <- OneVersion
    Tries <- Once
    Missing = Missing
    None = None
    B = 2
    NUL = NUL
PROPERTIES
    ServesNothingHalf
CHECK_DEADLOCK FALSE
