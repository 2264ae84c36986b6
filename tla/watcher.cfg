SPECIFICATION PartsSpec
CONSTANTS
    AllPorts = AllPorts
    Word = Word
    Texts <- TextsSmall
    PortNumbers = {80, 443}
    MaxPorts = 3
    MaxParts = 2
    i1 = i1
    i2 = i2
    k1 = k1
    k2 = k2
    Keys = {k1, k2}
    Ips = {i1, i2}
    Objects <- ObjectsSmall
    Ports = {1, 2, 3}
    MaxEdits = 2
    MaxFaults = 1
    MaxLag = 1
    None = None
INVARIANTS
    TypeOK
    RoundIsComplete
    ParsesAsDocumented
PROPERTIES
    Forwarded
    
CHECK_DEADLOCK FALSE
