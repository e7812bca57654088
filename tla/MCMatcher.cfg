CONSTANTS
  m = m
  t1 = t1
  t2 = t2
  NoJob = NoJob
  Makers = {m}
  Takers = {t1, t2}
  OrderSize <- Sizes
  MaxJobs = 2
  MaxFaults = 1
  Mortal = {t1}
  MaxEnds = 1
SPECIFICATION Spec
CHECK_DEADLOCK FALSE
INVARIANTS
  NoDoubleMatch
  NeverAhead
  OnlyFaultyRetired
