SPECIFICATION Spec
CONSTANTS
    Relays = {r1}
    Repairers = {sweep}
    MaxAttempts = 2
    RowsPerAggregate = 2
    Pauses = FALSE
    MaxRows = 1
    MaxOps = 1
    MaxFaults = 0
PROPERTIES
    PendingHeadIsServed
