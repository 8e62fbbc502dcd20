SPECIFICATION FairSpec
CONSTANTS
    a = a
    b = b
    Stack = Stack
    Junk = Junk
    RateLimit = 2
    MaxTxBufs = 1
    ErrorReplies = FALSE
    Removals = TRUE
    Closes = TRUE
    MaxMsgs = 2
    MaxBlocks = 2
    Clients = {a, b}
PROPERTY ImplementsFairChannel
