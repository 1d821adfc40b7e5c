SPECIFICATION MCSpec
CONSTANTS
    Workers <- MCWorkers
    Messages <- MCMessages
    Keys <- MCKeys
    KeysOf <- MCBatch
    ClaimTTL = 2
    SeenTTL = 2
    AckTimeout = 3
    ClaimDelay = 1
    MaxRedeliveries = 1
    SlowWork = FALSE
    ReleaseFails = FALSE
    LateDrop = FALSE
INVARIANTS
    NoEventLost
    NoConcurrentWork
    HandledStaysMarked
PROPERTIES
    MessagesSettle
    NoneStarves
    RowIsSettled
