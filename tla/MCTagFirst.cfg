CONSTANTS
    a = a
    b = b
    c = c
    None = None
    Federates <- Pair
    Founders <- Pair
    Regulators = {a}
    Constrained = {b}
    Times <- UpTo2
    Lookaheads <- UpTo1
    Infinity <- MCInfinity
    Services = {"advance", "update", "disable_regulation"}
    MaxCalls = 2
    MaxRunning = 1
    MaxMessages = 1
SPECIFICATION Spec
CHECK_DEADLOCK FALSE
INVARIANTS
    MessagesBeforeGrant
