SPECIFICATION Spec
CONSTANTS
  Procs = {p1}
  None = None
  Qty = 1
  MaxUpsets = 2
PROPERTY NothingToCancel
CHECK_DEADLOCK FALSE
