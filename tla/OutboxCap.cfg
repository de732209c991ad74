SPECIFICATION Spec
CONSTANTS
    d1 = d1
    d2 = d2
    p = p
    q = q
    r = r
    s = s
    Drainers <- MCOne
    Plays <- MCPlays
    Readable <- MCReadable
    Accepted <- MCAccepted
    Produced <- MCBacklog
    BatchSize = 2
    OutboxMax = 1
    CapPage = 1
    Events = {"fail", "crash", "stop", "die"}
    MaxFaults = 3
INVARIANTS
    NoTombstone
    CapKeepsNewest
