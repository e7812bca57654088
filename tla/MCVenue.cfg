SPECIFICATION Spec
CONSTANTS
  alice = alice
  bob = bob
  BACKSTOP = BACKSTOP
  Traders = {alice, bob}
  RestingHashes = {12, 15}
  PRECISION = 1
  SCALE = 1
  RATE_DENOMINATOR = 1
  Markets = {1, 2}
  Submissions <- MCSubmissions
  Resting <- MCResting
  InitialPositions <- MCPositions
  InitialIndex <- MCIndex
  Prices = {0, 9}
  minFillNotional <- MCMinFill
  UnwindLimits <- MCLimits
  MAX_ORDER_TTL = 3
  MIN_TTL_SECONDS = 0
  UINT_MAX = 80
  INT128_MAX = 60
  MAX_BODY_BYTES = 2
  WINDOW = 2
  MAX_CANCEL_ALL_WINDOW = 1
  MAX_EXECUTION_DEVIATION_BPS = 2000
  PRICE_OFFSET_BPS = 500
  MAX_ORDERS_PER_TICK = 2
  UNWIND_TTL = 2
  MAX_UNWIND_ORDER_TTL = 2
  Deadlines = {0, 1, 2}
  MaxTime = 1
  MaxRequests = 1
  MaxMoves = 1
  MaxUnwinds = 2
  MaxFills = 2
INVARIANTS
  NothingLeftCrossed
  PriorityKept
  MatchesSettle
  WorkingIsEligible
  UnwindWithinCaps
CHECK_DEADLOCK FALSE
