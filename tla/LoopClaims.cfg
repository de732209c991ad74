SPECIFICATION PlaybackSpec
CONSTANTS
    u1 = u1
    u2 = u2
    Loop = loop
    Prefetch = prefetch
    NoItem = NoItem
    Users <- TwoUsers
    Procs <- MCProcs
    Songs <- MCSongs
    SongForm <- MCForm
    Link <- MCDistinct
    RestoredQueues <- MCNoQueue
    Arrivals <- MCArrivals
    ShuffleMin = 2
    LremMax = 16
    LremShare = 1
    Commands = {"play", "playlist", "front", "clear", "shuffle", "remove", "playnow", "cutin", "skip"}
    MaxCommands = 3
    StreamMayFail = TRUE
    VoiceMayDrop = FALSE
    StoreMayFail = FALSE
    MayIdleOut = TRUE
SYMMETRY MCUserSymmetry
CHECK_DEADLOCK FALSE
INVARIANTS
    TypeOK
    MutexOK
    ClaimsAccounted
    HistoryAccounted
PROPERTIES
    SettlesOwnSong
    NeverStartsDropped
    QueueContract
