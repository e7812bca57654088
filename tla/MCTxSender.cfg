SPECIFICATION Spec
CONSTANTS
  Requests = {1, 2}
  Foreign = Foreign
  Null = Null
  MaxFee = 2
  MaxRetries = 1
  MaxRows = 3
  MaxFaults = 1
INVARIANTS
  ConfirmedIsMined
PROPERTIES
  NoGapOverlooked
  JobsDrain
CHECK_DEADLOCK FALSE
