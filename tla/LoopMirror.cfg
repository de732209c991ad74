SPECIFICATION PlaybackSpec
CONSTANTS
    u1 = u1
    u2 = u2
    Loop = loop
    Prefetch = prefetch
    NoItem = NoItem
    Users <- OneUser
    Procs <- MCProcs
    Songs <- MCSongs
    SongForm <- MCForm
    Link <- MCSameEntry
    RestoredQueues <- MCRestored
    Arrivals <- MCArrivalsAfterRestart
    ShuffleMin = 2
    LremMax = 16
    LremShare = 1
    Commands = {"front", "clear", "shuffle", "remove", "playnow", "skip"}
    MaxCommands = 3
    StreamMayFail = TRUE
    VoiceMayDrop = TRUE
    StoreMayFail = TRUE
    MayIdleOut = FALSE
CHECK_DEADLOCK FALSE
INVARIANTS
    MirrorAgrees
    HistoryAccounted
