SPECIFICATION Spec
CONSTANTS
  Workers = {w1, w2}
  MaxRetries = 2
  Confidence = 80
  AmountLimit = 50000
  MaxRuns = 4
  MaxFaults = 2
  Inputs <- MCInputs
INVARIANTS
  NoFalseRecovery
  AttemptBound
  ChargesAccountedFor
  SuccessBound
  CaptureIsRecorded
  NoEarlyFailure
PROPERTIES
  CapturedIsFinal
CHECK_DEADLOCK FALSE
