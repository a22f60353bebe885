CONSTANTS
    c = c
    d = d
    cb = cb
    Callers = {c, d}
    Impatient = {c}
    Handler = cb
    MaxSeq = 1
    Capacity = 1
    NetCapacity = 1
    MaxCalls = 3
    MaxPushes = 1
    None = None
SPECIFICATION Spec
CHECK_DEADLOCK FALSE
INVARIANTS
    ResponsesMatch
    PendingCleared
PROPERTIES
    CallsReturn
