SPECIFICATION Spec
CONSTANTS
    Pairs = {p, q, s}
    Requests = {x, y}
    MaxVersion = 2
    RequestsFail = FALSE
SYMMETRY SessionSymmetry
INVARIANTS
    MarkerInStep
CHECK_DEADLOCK FALSE
