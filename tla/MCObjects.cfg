CONSTANTS
    f = f
    g = g
    r = r
    a = a
    n = n
    HLA1 = HLA1
    HLA2 = HLA2
    Federates = {f, g, r}
    Attributes = {a}
    Published <- MCPublished
    MaxObject = 2
    Requested = {n, HLA2}
    AutoName <- MCAutoName
    MaxRequests = 4
    None = None
SPECIFICATION Spec
CHECK_DEADLOCK FALSE
INVARIANTS
    SingleWriter
    NamesUnique
    
    
