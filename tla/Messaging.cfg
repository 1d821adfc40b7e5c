SPECIFICATION MCSpec
CONSTANTS
    Relays <- MCRelays
    LeaseTTL = 5
    PublishTimeout = 3
    ReplyDelay = 1
    MaxRedeliveries = 1
    MaxFaults = 1
    Members <- MCMembers
    MaxRecords = 2
    ClaimTTL = 2
    SessionTimeout = 2
    HeartbeatInterval = 1
    Messages <- MCMessages
    MaxSubs = 3
    MaxFailures = 1
    Events <- MCEvents
    Posts <- MCPosts
    Repeats <- MCRepeats
    MaxBatch = 2
    Operators <- MCOperators
    Count = 2
INVARIANTS
    TypesOK
    OnePublisher
    NothingLost
    NothingTwice
PROPERTIES
    PartitionInOrder
    MessagesSettle
    GoesOn
CHECK_DEADLOCK FALSE
