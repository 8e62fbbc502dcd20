SPECIFICATION Spec
CONSTANTS
    p = p
    q = q
    a = a
    b = b
    Ev = Ev
    None = None
    Apps = {p, q}
    Addrs = {a, b}
    AllocFails = TRUE
    Unregisters = FALSE
    MaxReqs = 2
    MaxClients = 2
SYMMETRY Symmetry
INVARIANT ConnectUnlocked
