SPECIFICATION Spec
CONSTANTS
  Kinds = {"funding", "refill", "tier", "liquidation"}
  Subjects = {s1, s2}
  Funder = Funder
  Shortfall = Shortfall
  Debt = Debt
  DUE = 2
  MAX_ELAPSED = 3
  AGE_CAP = 4
  FLOOR = 1
  TARGET = 3
  MAX_PER_RUN = 4
  MAX_PER_DAY = 4
  FLOAT = 8
  MaxTier = 2
  ADL_MIN = 2
  MAX_STEPS = 2
  MAX_PER_TICK = 1
  MaxNeed = 2
  CAPITAL = 1
  LostAnswers = TRUE
  MaxMoves = 3
  MaxFaults = 2
INVARIANTS
  OneOpenPerSubject
  DailyCapHolds
PROPERTIES
  NeedsMet
