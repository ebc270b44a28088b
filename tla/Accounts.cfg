SPECIFICATION Spec
CONSTANTS
    c1 = c1
    c2 = c2
    c3 = c3
    k1 = k1
    k2 = k2
    k3 = k3
    ann = ann
    bob = bob
    nil = nil
    w1 = w1
    w2 = w2
    s1 = s1
    s2 = s2
    PySalt = PySalt
    None = None
    Anonymous = nil
    CClients = {c1}
    PyClients = {c3}
    Conns = {k1, k2}
    Users = {ann, nil}
    Passwords = {w1, w2}
    Salts = {s1, s2}
    Files = {"text", "empty", "missing"}
    Runs = 2
    Blocks = 2
    Restarts = 1
    UpAtFirst = FALSE
SYMMETRY Alike
INVARIANTS
    TypeOK
    SaltSaved
PROPERTIES
    RightPasswordWorks
    CopyTrue
CHECK_DEADLOCK FALSE
