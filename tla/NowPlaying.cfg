CONSTANTS
  Repliers = {r1}
  MaxSongs = 2
  MaxMessages = 3
  MaxEdits = 1
  MaxFaults = 1
  MayStop = TRUE
SPECIFICATION FairNP
\* The bot may be idle for good, or stopped.
CHECK_DEADLOCK FALSE
INVARIANTS
  NPTypeOK
  BarsAccounted
  SkipsOnlyTheSame
PROPERTIES
  NoResurrection
  BlockMovesDown
  BarsSettle
