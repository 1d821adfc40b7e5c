SPECIFICATION MCSpec
CONSTANTS
    Calls = {1, 2, 3, 4}
    FailureThreshold = 2
    MaxFaults = 2
    Logins = {"a", "b"}
    Keys = {"email"}
    KeysOf <- MCKeysOf
    Limit <- MCLimit
    Window = 2
    MaxLogins = 1
    MaxLateCalls = 1
    Sockets = {"s", "t"}
    Concurrency = 1
    MaxOutages = 1
    Tabs = {"t", "u"}
    MaxRefreshes = 2
    LoginLeases = {3, 10}
    StaticLeases = {2, 5}
    Lives = {3, 13}
    Increment = 9
    Floor = 2
    Queues = {"p", "q"}
    ReconnectInterval = 2
    RetryMax = 2
    MaxFailures = 2
    Tiers = {1, 2}
    Conns = {"c", "d"}
    MaxStreams = 2
    Jobs = {"j", "k"}
    First = "j"
    Entries = {"d", "e"}
    Operators = {"o", "p"}
    Attempts = 2
    MaxReplays = 2
    TTL = 3
    MaxLoad = 1
    Processes = {"p", "q"}
    Callers = {"a", "b"}
    CacheTicks = 2
    ProbeTimeout = 2
    Events = {"e"}
    Readers = {"r", "s"}
    Delay = 2
    Margin = 15
    MaxAttempts = 5
    MaxDeliveries = 2
INVARIANTS
    TypesOK
    OneProbe
    ClosedBelowThreshold
    Bounded
    NothingLeftBehind
    EndsByLogout
    NothingCutOff
PROPERTIES
    GivenIsRefreshable
    Progress
CHECK_DEADLOCK FALSE
