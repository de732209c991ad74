SPECIFICATION FairSpec
CONSTANTS
    d1 = d1
    d2 = d2
    p = p
    q = q
    r = r
    s = s
    Drainers <- MCTwo
    Plays <- MCPlays
    Readable <- MCReadable
    Accepted <- MCAccepted
    Produced <- MCMixed
    BatchSize = 2
    OutboxMax = 0
    CapPage = 1
    Events = {"fail", "crash", "stop", "die", "xdel"}
    MaxFaults = 2
PROPERTIES
    ArchiveContract
    Drains
