SPECIFICATION Spec
CONSTANTS
    d1 = d1
    d2 = d2
    p = p
    q = q
    r = r
    s = s
    Drainers <- MCTwo
    Plays <- MCPlays
    Readable <- MCReadable
    Accepted <- MCAccepted
    Produced <- MCMixed
    BatchSize = 1
    OutboxMax = 1
    CapPage = 1
    Events = {"fail", "crash", "stop", "die", "del", "xdel"}
    MaxFaults = 2
SYMMETRY MCSymmetry
INVARIANTS
    TypeOK
    NoPlayLost
    PelBounded
