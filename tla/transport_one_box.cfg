SPECIFICATION FairSpec
CONSTANTS
  Attempts = {a1}
  NoAttempt = NoAttempt
  Lot = 2
  MaxGross = 10
  Carried = {0, 2, 4}
  Base = 1
  Burst = 2
  OverCapital = {}
  OpensInTick = FALSE
  CancelRecordFails = TRUE
  MaxProtective = 1
CHECK_DEADLOCK FALSE
INVARIANTS HedgedSell EnvelopeHonoured NoLeakedReservation
PROPERTIES LegsSettle ProtectiveFlows
