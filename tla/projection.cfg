SPECIFICATION ProjectionSpec
CONSTANTS
  None = None
  Qty = 2
  MaxEvents = 2
  MaxGaps = 1
  MaxDoubts = 1
INVARIANTS FillsExact TerminalAgreesWithFill
PROPERTIES NeverReopened Converges
