SPECIFICATION MonitorSpec
CONSTANTS
  NULL = NULL
  WHOLE = WHOLE
  FailAfter = 2
  ResolveAfter = 2
  Renotify = 3
  Grace = 2
  MaxTroubles = 4
  Conditions <- MCConditions
  Readings <- MCReadings
  Leads <- MCLeads
  Faults <- MCFaults
  Config <- MCConfig
INVARIANTS
  FailureHeard
  PageNotMasked
  BlockedTraderPaged
