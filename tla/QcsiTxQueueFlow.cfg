SPECIFICATION Spec
CONSTRAINT TwoDisturbances
CONSTANTS
    a = a
    b = b
    Stack = Stack
    Junk = Junk
    RateLimit = 2
    MaxTxBufs = 1
    ErrorReplies = TRUE
    Removals = TRUE
    Closes = TRUE
    MaxMsgs = 2
    MaxBlocks = 2
    Clients = {a, b}
SYMMETRY Symmetry
INVARIANT TypeOK
INVARIANT Conserved
INVARIANT AccountedFor
INVARIANT NoDangling
INVARIANT NothingStuck
INVARIANT BusyRemembered
