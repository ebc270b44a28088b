SPECIFICATION Spec
CONSTANTS
    c1 = c1
    c2 = c2
    c3 = c3
    k1 = k1
    k2 = k2
    k3 = k3
    ann = ann
    bob = bob
    nil = nil
    w1 = w1
    w2 = w2
    s1 = s1
    s2 = s2
    PySalt = PySalt
    None = None
    Anonymous = nil
    CClients = {c1, c2}
    PyClients = {}
    Conns = {k1, k2}
    Users = {ann}
    Passwords = {w1, w2}
    Salts = {s1, s2}
    Files = {"text"}
    Runs = 1
    Blocks = 1
    Restarts = 0
    UpAtFirst = TRUE
PROPERTIES
    UsersKept
CHECK_DEADLOCK FALSE
