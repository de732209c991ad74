------------------------- MODULE MCPlayerLifecycle -------------------------
(***************************************************************************)
(* Small instances of PlayerLifecycle: which commands and on_ready tasks run  *)
(* together, over an empty guild and one that crashed in a song.          *)
(* Two tasks without a fault, or with one, reach every interleaving of a pair; *)
(* the players a pair can create are fewer than MaxPlayers.                   *)
(***************************************************************************)
EXTENDS PlayerLifecycle

CONSTANTS play, resume, join, stop, other, r1, r2, cut, saved, asked

MCSongs == {cut, saved, asked}
MCCmds == {play, resume, join, stop, other}
MCRecoveries == {r1, r2}
MCKind == [c \in MCCmds |-> CASE c = play -> "play" [] c = resume -> "resume"
             [] c = join -> "join" [] c = stop -> "stop" [] OTHER -> "other"]
MCSongOf == [c \in MCCmds |-> asked]
MCStored == {[list |-> <<>>, parked |-> NoSong, connection |-> FALSE],
             [list |-> <<saved>>, parked |-> cut, connection |-> TRUE]}

Cast(tasks, faults0) == [tasks |-> tasks, faults |-> faults0]

MCCasts == {Cast({play, resume}, 0), Cast({play, join}, 0), Cast({resume, r1}, 0),
            Cast({play, r1}, 0), Cast({other, r1}, 1), Cast({r1, r2}, 1),
            Cast({play, stop}, 1), Cast({resume, stop}, 1)}
MCFairCasts == {Cast({play, resume}, 0), Cast({play, stop}, 0), Cast({resume, stop}, 0),
                Cast({play}, 1), Cast({resume}, 1), Cast({r1}, 1)}
MCRestart == {Cast({stop, r1}, 0)}
MCStopped == {Cast({play, stop}, 0)}
=============================================================================
