SPECIFICATION MCSpec
CONSTANTS
    s1 = s1
    s2 = s2
    s3 = s3
    f1 = f1
    f2 = f2
    None = None
    Sessions <- Trio
    Names <- TwoNames
    Requested = {2}
    MaxCreated = 2
    MaxJoins = 3
SYMMETRY Symmetry
CHECK_DEADLOCK FALSE
INVARIANTS
    MembershipsExact
    ClashesExplained
    MergeRight
    HandlesRight
