CONSTANTS
    p = p
    s = s
    a = a
    b = b
    x = x
    Federates = {p, s}
    Publishers = {p}
    Consumers = {s}
    Attributes = {a, b}
    Dimensions = {x}
    MaxBound = 1
    MaxRegion = 2
    Creator <- MCCreator
    RegionSets = {{}, {1}, {2}}
    MaxRequests = 4
    None = None
SPECIFICATION Spec
SYMMETRY MCSymmetry
CHECK_DEADLOCK FALSE
INVARIANTS
    OverlapsRight
    FilterExact
