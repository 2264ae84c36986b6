SPECIFICATION FairSpec
CONSTANTS
    ip1 = ip1
    ip2 = ip2
    e1 = e1
    h1 = h1
    r1 = r1
    r2 = r2
    Poll = Poll
    Unknown = Unknown
    Ips = {ip1, ip2}
    Endpoints = {e1}
    Handlers = {h1}
    MaxChanges = 2
    MaxFaults = 2
    Rests = {r1}
    MaxEdits = 1
    MaxLag = 1
INVARIANTS
    TypeOK
PROPERTIES
    CurrentFollows
    DnsFollows
