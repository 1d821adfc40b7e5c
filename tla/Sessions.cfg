SPECIFICATION Spec
CONSTANTS
    Pairs = {p, q, s}
    Requests = {x, y}
    MaxVersion = 2
    RequestsFail = TRUE
SYMMETRY SessionSymmetry
INVARIANTS
    SessionsEndOnChange
    OneRefreshToken
PROPERTIES
    DeadStaysDead
CHECK_DEADLOCK FALSE
