SPECIFICATION MCSpec
CONSTANTS
    ann = ann
    bob = bob
    cat = cat
    e1 = e1
    E1 = E1
    e2 = e2
    key = key
    r = r
    s = s
    Ids = {ann, bob, cat}
    Emails = {e1, E1, e2}
    Keys = {key}
    Requests = {r, s}
    Founders = {ann, bob}
    EmailOf <- MCEmailOf
    KeyEmail <- MCKeyEmail
    Lower <- MCLower
    MaxEvents = 5
    Identities = {"g"}
    Addresses = {"e"}
    Callbacks = {"c", "d"}
    Exchanges = {"x", "y"}
    MaxUsers = 2
    Old = {}
    New = {"u", "v"}
    MaxFaults = 1
    Callers = {"a", "b"}
    Sockets = {"s", "t", "u"}
    MaxTries = 1
    Urls = {"x", "y"}
    MaxReloads = 1
SYMMETRY UsersSymmetry
PROPERTIES
    RepeatFindsResponse
CHECK_DEADLOCK FALSE
