SPECIFICATION Spec
CONSTANTS
  maker = maker
  BACKSTOP = BACKSTOP
  Unbound = Unbound
  Owners = {maker, BACKSTOP}
  Wallets = {maker}
  Nonces = {0, 1}
  Orders <- MCOrders
  Batches <- MCBatches
  Cancels <- MCCancels
  Ticks = {1}
  MAX_ORDER_TTL = 2
  MAX_UNWIND_ORDER_TTL = 1
  MAX_BATCH = 2
  MaxTime = 3
INVARIANTS
  FilledIsExecuted
  OneBudgetPerNonce
PROPERTIES
  CancelIsFinal
