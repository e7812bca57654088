CONSTANTS
  Indexers = {i1, i2}
  MaxWindow = 2
  MaxHead = 3
  MaxPrints = 2
  MaxFaults = 1
  Sockets = {s1, s2}
  None = None
  Boards = {0, 1}
  MaxConnections = 2
  MaxBuffered = 1
  BatchLimit = 2
  Overlap = 1
  MaxEdits = 2
  MaxChanges = 2
  MaxClock = 3
  Browsers = {b1, b2}
  MaxMounts <- MCMounts
  a1 = a1
  a2 = a2
  Addresses = {a1, a2}
  Periods = {"DAY", "WEEK"}
  Absent = Absent
  MaxDay = 3
  Focus = {"trades", "orderbook", "markets", "fills", "stats", "indexer"}
  Touches <- MCTouches
  WINDOW_DAYS <- Windows
SYMMETRY Symmetry
SPECIFICATION Spec
INVARIANTS
  SubscribersAgree
  FillsOnce
  StatsExact
  NeverStranded
PROPERTIES
  TapeContinuous
CHECK_DEADLOCK FALSE
