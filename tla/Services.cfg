SPECIFICATION MCSpec
CONSTANTS
  Tasks = {t1, t2, t3}
  Absent = Absent
  Patience = 2
  MaxMoves = 4
  Calls = {c1, c2, c3}
  Closers = {k1}
  MaxDeaths = 2
  Players = {p1, p2}
  Helpers = {h1}
  StreakLimit = 2
  ExtractBudget = 1
  Hydrations = {y1, y2}
  MaxToggles = 2
  MaxRemovals = 1
  Probes = {q1, q2, q3}
  Requests = {r1, r2}
  Life = 4
  Margin = 3
  Horizon = 6
  Queries = {a1, a2, a3}
CHECK_DEADLOCK FALSE
INVARIANTS
  ServicesTypeOK
  HolderKeepsLock
  TeardownNotCut
  PoolsSound
  StreamCacheSound
  ChoicesSound
  DashboardSound
PROPERTIES
  LiveToken
  HealthyKept
  EveryServiceReturns
