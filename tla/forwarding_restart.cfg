SPECIFICATION ForwardSpec
CONSTANTS
    k1 = k1
    k2 = k2
    s1 = s1
    s2 = s2
    i1 = i1
    i2 = i2
    NoObject = NoObject
    NoEntry = NoEntry
    None = None
    Names = {k1, k2}
    Slots = {s1, s2}
    Targets = {1, 2}
    Wants <- WantsOwn
    Ips = {i1, i2}
    Objects <- ObjectsAll
    Allowed = {"crash"}
    MaxFaults = 1
    MaxLag = 1
    MaxEdits = 0
INVARIANTS
    RestartReprograms
