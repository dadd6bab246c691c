CONSTANTS
  e1 = e1
  e2 = e2
  r1 = r1
  r2 = r2
  k1 = k1
  k2 = k2
  Cards = {c1, c2}
  Prices = {1, 2}
  Requests = {r1, r2}
  NoRequest = NoRequest
  MinInterval = 1
  MaxTime = 3
  TierOrder <- MCTiers
  Evaluations = {e1, e2}
  Figures <- MCFigures
  Sales = {s1, s2, s3}
  Pairs = {p1, p2}
  ThinSales = {s1}
  SettleCalls = {k1, k2}
  WindowDays = 1
  MaxDay = 2
  a1 = a1
  a2 = a2
  b = b
  Calls = {a1, a2, b}
  Path <- MCPath
  Limit <- MCLimit
  Second = 2
  MaxInstant = 3
  Slots = {1, 2, 3}
  Menu <- MCMenu
  Users = {1, 2, 3}
  Nobody = 0
  FirstItems <- MCFirstItems
  FirstCards <- MCFirstCards
  Plan <- MCPlan
  PoolSize = 2
SYMMETRY MCSymmetry
SPECIFICATION MCSpec
INVARIANTS
  TablesAgree
  DoublesOverlapped
  RepeatPairsAreFlagged
  WindowNeverOverflows
  NoDeadlock
PROPERTIES
  ChangesAreWhatChanged
  DriftIsNeverSilent
  RetryAfterSuffices
CHECK_DEADLOCK FALSE
