CONSTANTS
    a = a
    b = b
    c = c
    None = None
    Federates <- Trio
    Founders <- Trio
    Regulators = {a}
    Constrained = {b}
    Times <- UpTo2
    Lookaheads <- UpTo1
    Infinity <- MCInfinity
    Services = {"advance", "update", "resign"}
    MaxCalls = 1
    MaxRunning = 2
    MaxMessages = 2
SPECIFICATION Spec
CHECK_DEADLOCK FALSE
INVARIANTS
    
    ReleasedWithGrant
PROPERTIES
    NoMessageFromThePast
