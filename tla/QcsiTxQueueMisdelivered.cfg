SPECIFICATION Spec
CONSTANTS
    a = a
    b = b
    Stack = Stack
    Junk = Junk
    RateLimit = 2
    MaxTxBufs = 1
    ErrorReplies = TRUE
    Removals = FALSE
    Closes = FALSE
    MaxMsgs = 2
    MaxBlocks = 2
    Clients = {a, b}
SYMMETRY Symmetry
INVARIANT ForYou
