SPECIFICATION LifecycleSpec
CONSTANTS
    play = play
    resume = resume
    join = join
    stop = stop
    other = other
    r1 = r1
    r2 = r2
    cut = cut
    saved = saved
    asked = asked
    NoSong = NoSong
    NoOne = NoOne
    Songs <- MCSongs
    Cmds <- MCCmds
    KindOf <- MCKind
    SongOf <- MCSongOf
    Recoveries <- MCRecoveries
    Stored <- MCStored
    Casts <- MCRestart
    MaxPlayers = 4
CHECK_DEADLOCK FALSE
PROPERTIES
    OnePlayerPerGuild
