CONSTANTS
    a = a
    b = b
    c = c
    None = None
    Federates <- Pair
    Founders = {a}
    Regulators = {a}
    Constrained = {a}
    Times <- UpTo1
    Lookaheads <- UpTo1
    Infinity <- MCInfinity
    Services <- AllRoles
    MaxCalls = 2
    MaxRunning = 2
    MaxMessages = 1
SPECIFICATION FairSpec
CHECK_DEADLOCK FALSE
INVARIANTS
    TypeOK
    
PROPERTIES
    OvertakesOnlyIfRaced
    ImplementsContract
    HandlersComplete
