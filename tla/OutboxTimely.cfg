SPECIFICATION Spec
CONSTANTS
    Relays = {r1, r2}
    Repairers = {sweep}
    MaxAttempts = 2
    RowsPerAggregate = 2
    Pauses = FALSE
    MaxRows = 2
    MaxOps = 1
    MaxFaults = 1
SYMMETRY RelaySymmetry
INVARIANTS
    FirstDeliveryInOrder
    OpenHasHead
PROPERTIES
    EveryFailureCounts
    ImplementsOrderedDelivery
