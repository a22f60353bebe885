CONSTANTS
    a = a
    b = b
    Federates = {f1, f2, f3}
    Classes = {class}
    Attributes = {a, b}
    AttrSets <- MCAttrSets
    Interactions = {interaction}
    MaxRequests = 4
    DirectedInteractions = {i, j}
    IxSets = {{i}, {j}}
    MaxDirected = 5
    None = None
SYMMETRY Symmetry
SPECIFICATION MCSpec
CHECK_DEADLOCK FALSE
INVARIANTS
    MatrixExact
    
    DirectedExact
