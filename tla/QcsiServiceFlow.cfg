SPECIFICATION FairSpec
CONSTANTS
    p = p
    q = q
    a = a
    b = b
    Ev = Ev
    None = None
    Apps = {p, q}
    Addrs = {a, b}
    AllocFails = TRUE
    Unregisters = TRUE
    MaxReqs = 2
    MaxClients = 2
INVARIANT TypeOK
INVARIANT NoUseAfterFree
INVARIANT AnsweredOnce
INVARIANT LocksReleased
INVARIANT NothingLeft
PROPERTY CallsReturn
 
CHECK_DEADLOCK FALSE
