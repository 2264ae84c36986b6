SPECIFICATION Spec
CONSTANTS
    Ttl = 4
    Enabled = TRUE
    MaxFaults = 0
    None = None
    Sid = Sid
INVARIANTS
    GenaOrFastPoll
