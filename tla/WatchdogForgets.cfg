SPECIFICATION WatchdogFairSpec
CONSTANTS
  Patience = 2
  MaxMoves = 2
\* The bot may be idle for good.
CHECK_DEADLOCK FALSE
PROPERTIES
  LeavesOnceAlone
