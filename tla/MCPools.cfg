SPECIFICATION PoolSpec
CONSTANTS
  alice = alice
  bob = bob
  carol = carol
  INSURANCE = INSURANCE
  FEE_ROUTER = FEE_ROUTER
  FUNDING_POOL = FUNDING_POOL
  NO_REFERRER = NO_REFERRER
  Traders = {alice, bob, carol}
  PRECISION = 100
  SCALE = 2
  RATE_DENOMINATOR = 100
  Markets = {1}
  MarketParams <- PolicyParams
  MAX_POSITIONS_PER_ACCOUNT = 2
  SECS_PER_HOUR = 3
  MAX_FUNDING_ELAPSED_SECS = 3
  Tiers = {1}
  MAX_TAKER_RATE = 5
  MIN_MAKER_RATE <- MCMinMakerRate
  MAX_MAKER_RATE = 5
  MIN_NET_RATE_FLOOR = 1
  MAX_NET_RATE_FLOOR = 5
  MIN_INSURANCE_SHARE_BPS = 1000
  MAX_REFERRAL_SHARE_BPS = 2500
  MAX_LIQ_INSURANCE_SHARE_BPS = 9000
  UNSTAKE_COOLDOWN = 2
  SECS_PER_DAY = 2
  Groups = {"banking", "trading", "liquidation", "staking", "funding", "clock", "fees", "revenue", "claims", "governance"}
  Prices = {20, 40, 80, 100}
  Fills <- PoolFills
  Amounts = {45}
  ShareAmounts = {10, 40}
  SweepAmounts = {99}
  MaxSizes = {9999}
  Schedules <- MCSchedules
  NetRates = {3}
  Splits <- MCSplits
  LiquidationSplits = {3300}
  LimitChoices <- MCLimitChoices
  Caps <- MCCapChoices
  Ticks = {1, 2}
  TicketOrders = {}
  InitialCaps <- MCCaps
  InitialRates <- MCRates
  InitialLimits <- NoLimits
  maxRewardBps = 100
  partialLiquidationBps = 5000
  Pausable = {"vault", "insurance"}
  MaxTime = 4
  MaxTxs = 5
  Deposited = {alice, bob, carol}
CHECK_DEADLOCK FALSE
INVARIANTS
  FundingPoolBacked
  SharesBacked
  FeesBacked
PROPERTIES
  StakersNotDiluted
