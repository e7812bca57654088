SPECIFICATION OracleSpec
CONSTANTS
  Publishers = {p1, p2}
  Venues = {v1, v2}
  Prices = {1000, 1020}
  UsdcStates <- MCUsdcStates
  MAX_AGE = 3
  MIN_PUBLISHERS = 2
  MAX_SPREAD_BPS = 40
  MAX_JUMP_BPS = 120
  MAX_CONFIDENCE_BPS = 100
  MAX_DIVERGENCE_BPS = 150
  REF_REQUIRED = FALSE
  MIN_SOURCES = 2
  MAX_SOURCE_DEVIATION_BPS = 100
  MAX_QUOTE_AGE = 1
  USDC_ONE = 1000
  DEPEG_HALT_BPS = 100
  DEPEG_FAIL_CLOSED = TRUE
  DEVIATION_BPS = 5
  HEARTBEAT = 1
  INCLUSION_MARGIN = 1
  BACKDATE = 0
  BACKOFF_MIN = 1
  BACKOFF_MAX = 2
  MaxInFlight = 2
  MaxEvents = 1
  Pace = 1
  CalmBound = 6
INVARIANTS
  MirrorAgrees
  ServedIsRecent
  Converges
SYMMETRY Symmetry
