SPECIFICATION MCSpec
CONSTANTS
    Readers = {r1}
    MaxContent = 3
    MaxRedeliveries = 1
    MaxLost = 1
    MaxEvicted = 1
    Handlers <- MCHandlers
INVARIANTS
    TypesOK
    AckedIsApplied
PROPERTIES
    NothingComesBack
    Converge
CHECK_DEADLOCK FALSE
