SPECIFICATION Spec
CONSTANTS
  Workers = {w1, w2}
  MaxRetries = 2
  Confidence = 80
  AmountLimit = 50000
  MaxRuns = 2
  MaxFaults = 0
  Inputs <- MCInputs
INVARIANTS
  ChargedOnce
CHECK_DEADLOCK FALSE
