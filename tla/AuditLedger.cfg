SPECIFICATION Spec
CONSTANTS
  Appenders = {a1, a2}
  Payloads <- MCPayloads
  MaxAppends = 4
  MaxFaults = 1
INVARIANTS
  SerialAppendsVerify
  TamperingDetected
CHECK_DEADLOCK FALSE
