SPECIFICATION Spec
CONSTANTS
  s = s
  c = c
  Procs = {p1, p2}
  Shorts = {s}
  Longs = {c}
  Quantity <- Uneven
  Prices = {x1, x2}
  MaxRejections = 1
  MaxGeneration = 3
  MaxPasses = 3
  MaxDisruptions = 1
CHECK_DEADLOCK FALSE
SYMMETRY Symmetry
INVARIANTS NeverUnderstated LeftOnlyByConflict RejectionsBounded
PROPERTIES CoverHeldUnlessCredited
