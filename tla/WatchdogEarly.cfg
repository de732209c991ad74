SPECIFICATION WatchdogSpec
CONSTANTS
  Patience = 2
  MaxMoves = 4
\* The bot may be idle for good.
CHECK_DEADLOCK FALSE
PROPERTIES
  LeavesAfterPatience
