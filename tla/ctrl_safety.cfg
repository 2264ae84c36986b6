SPECIFICATION Spec
CONSTANTS
    a = a
    b = b
    s1 = s1
    s2 = s2
    t1 = t1
    t2 = t2
    NoObject = NoObject
    NoEntry = NoEntry
    Names = {a, b}
    Slots = {s1}
    Targets = {t1}
    Wants <- WantsShared
    Allowed = {"addFail", "apiFail", "crash"}
    MaxFaults = 2
    MaxLag = 2
SYMMETRY Symmetry
INVARIANTS
    TypeOK
    NoOrphan
    StaleViewsAreSafe
PROPERTIES
    ImplementsGuard
