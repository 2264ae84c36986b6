SPECIFICATION Spec
CONSTANTS
    c1 = c1
    c2 = c2
    k1 = k1
    k2 = k2
    x = x
    y = y
    p1 = p1
    p2 = p2
    p3 = p3
    ch1 = ch1
    ch2 = ch2
    ch3 = ch3
    ch4 = ch4
    None = None
    Callers = {c1, c2}
    Keys = {k1, k2}
    Targets = {x, y}
    Ports = {p1, p2, p3}
    Channels = {ch1, ch2, ch3, ch4}
    Uses <- UsesShared
    MayDie = TRUE
SYMMETRY Symmetry
INVARIANTS
    TypeOK
    NoLeak
    HandlesFit
    PromiseKept
