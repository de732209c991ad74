SPECIFICATION PlaybackSpec
CONSTANTS
    u1 = u1
    u2 = u2
    Loop = loop
    Prefetch = prefetch
    NoItem = NoItem
    Users <- OneUser
    Procs <- MCProcs
    Songs <- MCSongs
    SongForm <- MCForm
    Link <- MCDistinct
    RestoredQueues <- MCNoQueue
    Arrivals <- MCArrivals
    ShuffleMin = 2
    LremMax = 16
    LremShare = 1
    Commands = {"playlist", "clear"}
    MaxCommands = 3
    StreamMayFail = FALSE
    VoiceMayDrop = FALSE
    StoreMayFail = FALSE
    MayIdleOut = FALSE
CHECK_DEADLOCK FALSE
INVARIANTS
    NoStrandedClaim
