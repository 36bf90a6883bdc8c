SPECIFICATION Spec
CONSTANTS
  Sessions = {s1, s2}
  Entries = {e1, e2, e3}
  None = None
  MaxCompletedTrades = 1
  MaxEntryAttempts = 2
  MaxOpenBoxes = 1
  OtherManagers = TRUE
  InsertFails = TRUE
  MaxCrashes = 1
  MaxFaults = 1
SYMMETRY Symmetry
CHECK_DEADLOCK FALSE
INVARIANTS AttemptsWithinBudget CyclesWithinBudget
PROPERTIES SpentStaysSpent
