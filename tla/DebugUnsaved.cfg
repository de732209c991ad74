SPECIFICATION DebugSpec
CONSTANTS
  Hydrations = {y1, y2}
  MaxToggles = 2
  MaxRemovals = 0
\* The bot may be idle for good.
CHECK_DEADLOCK FALSE
INVARIANTS
  UnsavedChoiceLasts
