SPECIFICATION Spec
CONSTANTS
  Attempts = {a1, a2}
  NoAttempt = NoAttempt
  Lot = 1
  MaxGross = 5
  Carried = {0, 1}
  Base = 1
  Burst = 2
  OverCapital = {}
  OpensInTick = FALSE
  CancelRecordFails = FALSE
  MaxProtective = 1
CHECK_DEADLOCK FALSE
INVARIANTS OnePipeline GrossWithinCap
SYMMETRY AttemptSymmetry
