SPECIFICATION Spec
CONSTANTS
    d1 = d1
    d2 = d2
    p = p
    q = q
    r = r
    s = s
    Drainers <- MCTwo
    Plays <- MCPlays
    Readable <- MCReadable
    Accepted <- MCAccepted
    Produced <- MCResent
    BatchSize = 1
    OutboxMax = 1
    CapPage = 1
    Events = {}
    MaxFaults = 0
INVARIANTS
    NoTombstone
