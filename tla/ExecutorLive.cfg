SPECIFICATION FairSpec
CONSTANTS
  Workers = {w1, w2}
  MaxRetries = 2
  Confidence = 80
  AmountLimit = 50000
  MaxRuns = 3
  MaxFaults = 0
  Inputs <- MCInputs
PROPERTIES
  RecoverableRecovers
  ChargeRestoresSubscription
CHECK_DEADLOCK FALSE
