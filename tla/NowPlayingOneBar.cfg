CONSTANTS
  Repliers = {r1}
  MaxSongs = 1
  MaxMessages = 3
  MaxEdits = 0
  MaxFaults = 0
  MayStop = FALSE
SPECIFICATION NPSpec
\* The bot may be idle for good.
CHECK_DEADLOCK FALSE
INVARIANTS
  OneLiveBar
