SPECIFICATION FundedSpec
CONSTANTS
  alice = alice
  bob = bob
  carol = carol
  INSURANCE = INSURANCE
  FEE_ROUTER = FEE_ROUTER
  FUNDING_POOL = FUNDING_POOL
  NO_REFERRER = NO_REFERRER
  Traders = {alice, bob}
  PRECISION = 100
  SCALE = 2
  RATE_DENOMINATOR = 100
  Markets = {1, 2}
  MarketParams <- MCParams
  MAX_POSITIONS_PER_ACCOUNT = 2
  SECS_PER_HOUR = 3
  MAX_FUNDING_ELAPSED_SECS = 3
  Tiers = {}
  MAX_TAKER_RATE = 5
  MIN_MAKER_RATE <- MCMinMakerRate
  MAX_MAKER_RATE = 5
  MIN_NET_RATE_FLOOR = 1
  MAX_NET_RATE_FLOOR = 5
  MIN_INSURANCE_SHARE_BPS = 1000
  MAX_REFERRAL_SHARE_BPS = 2500
  MAX_LIQ_INSURANCE_SHARE_BPS = 9000
  UNSTAKE_COOLDOWN = 2
  SECS_PER_DAY = 2
  Groups = {"trading", "liquidation"}
  Prices = {76, 82, 88, 100}
  Fills <- ExactFills
  Amounts = {50}
  ShareAmounts = {}
  SweepAmounts = {}
  MaxSizes = {9999}
  Schedules = {}
  NetRates = {}
  Splits = {}
  LiquidationSplits = {}
  LimitChoices = {}
  Caps = {}
  Ticks = {}
  TicketOrders = {}
  InitialCaps <- MCCaps
  InitialRates <- MCRates
  InitialLimits <- NoLimits
  maxRewardBps = 100
  partialLiquidationBps = 5000
  Pausable = {}
  MaxTime = 1
  MaxTxs = 4
  Deposited = {alice, bob}
INVARIANTS
  LiquidatableCanBeLiquidated
