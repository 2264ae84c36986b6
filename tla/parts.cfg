SPECIFICATION PartsSpec
CONSTANTS
    w1 = w1
    w2 = w2
    MaxServices = 2
    Blank = Blank
    None = None
    MaxLosses = 3
    WanIps = {w1, w2}
    NoIp = NoIp
    NoGateway = NoGateway
    MaxChanges = 3
    MaxFailures = 2
    MaxCrdEdits = 4
    MaxCrdErrors = 2
    Clients = {c1}
    Sockets = {s1, s2}
    MaxUdpFaults = 1
    NoSocket = NoSocket
    NoRelay = NoRelay
    NoDatagram = NoDatagram
    MaxChunks = 2
    Window = 1
    Lease = 40
    Granted = 38
    Buffer = 19
    MinRequeue = 6
    RetryAdd = 38
    RetryError = 19
    Delay = 2
    MaxFaults = 1
INVARIANTS
    EntriesAreServed
    TypeOK
    HonestExpiry
    RootDescIsRead
    ListensOrPollsFast
PROPERTIES
    ComesUp
    StatusFollows
    QuietsDown
    CrdIsNoticed
    ClientsAreAnswered
    PortIsReleased
    HangUpEnds
    NoLapse
    StaysMapped
CHECK_DEADLOCK FALSE
