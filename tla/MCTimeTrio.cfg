CONSTANTS
    a = a
    b = b
    c = c
    None = None
    Federates <- Trio
    Founders <- Trio
    Regulators <- FirstTwo
    Constrained <- LastTwo
    Times <- UpTo2
    Lookaheads <- UpTo1
    Infinity <- MCInfinity
    Services = {"advance", "disable_regulation"}
    MaxCalls = 1
    MaxRunning = 2
    MaxMessages = 0
SPECIFICATION Spec
CHECK_DEADLOCK FALSE
INVARIANTS
    NoStuckGrant
