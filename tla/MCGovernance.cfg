SPECIFICATION TimelockSpec
CONSTANTS
  Operations <- MCOperations
  MIN_SAFE_DELAY = 2
  VETO_DURATION = 7
  VETO_COOLDOWN = 3
  GUARDIAN_PAUSE_DURATION = 3
  GUARDIAN_PAUSE_COOLDOWN = 1
PROPERTIES
  VetoLeavesWindow
  RevocationSucceeds
  FundsReachable
