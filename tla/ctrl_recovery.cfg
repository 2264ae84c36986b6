SPECIFICATION FairSpec
CONSTANTS
    a = a
    b = b
    s1 = s1
    s2 = s2
    t1 = t1
    t2 = t2
    NoObject = NoObject
    NoEntry = NoEntry
    Names = {a}
    Slots = {s1, s2}
    Targets = {t1, t2}
    Wants <- WantsShared
    Allowed = {"editTarget", "editSlot", "addFail", "deleteFail", "apiFail", "reboot", "crash"}
    MaxFaults = 2
    MaxLag = 2
INVARIANTS
    AddsAreGuarded
PROPERTIES
    TargetConverges
    DeletesFinish
    OrphansExpire
