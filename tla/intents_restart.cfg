SPECIFICATION Spec
CONSTANTS
  Procs = {p1}
  None = None
  Qty = 2
  MaxUpsets = 2
INVARIANTS TerminalIsTrue
PROPERTIES SubmittedAtMostOnce DurableFillsAdvance EndsDurably
CHECK_DEADLOCK FALSE
