SPECIFICATION FairForwardSpec
CONSTANTS
    k1 = k1
    k2 = k2
    s1 = s1
    s2 = s2
    i1 = i1
    i2 = i2
    NoObject = NoObject
    NoEntry = NoEntry
    None = None
    Names = {k1}
    Slots = {s1}
    Targets = {1, 2}
    Wants <- WantsOwn
    Ips = {i1, i2}
    Objects <- ObjectsOne
    Allowed = {"addFail", "deleteFail", "apiFail", "crash"}
    MaxFaults = 1
    MaxLag = 1
    MaxEdits = 1
INVARIANTS
    ActiveIsOnRouter
PROPERTIES
    ImplementsWatcher
    Reachable
    Closes
CHECK_DEADLOCK FALSE
