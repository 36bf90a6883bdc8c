SPECIFICATION PacingFairSpec
CONSTANTS
  Cancels = {c}
  Protectives = {}
  Entries = {p}
  Reads = {r}
  NoOp = NoOp
  OrderGap = 1
  GeneralGap = 1
  Grace = 1
  CancelTimeout = 1
  MaxInFlight = 2
  ReservedForRecovery = 1
  MaxConcurrentReads = 1
  Metered = TRUE
  Span = 1
  Limit = 2
  Reserve = 1
  Cooldown = 1
  MaxBack = 1
  Hanging = {p, r}
PROPERTIES WithdrawnNeverSent Spaced BudgetHeld RecoveryFlows NobodyStarves
