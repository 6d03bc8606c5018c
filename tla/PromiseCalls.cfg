SPECIFICATION Spec
CONSTANTS
  Workflows = {"r", "s"}
  NoPhone = {}
  NoEmail = {"r"}
  Synthetic = {"s"}
  KeepLocal = 1
  PageSize = 2
  MaxCalls = 2
  MaxEdits = 2
  MaxLoads = 1
  MaxWrites = 1
  MaxFaults = 1
INVARIANTS
  PromiseNotForgotten
  CallShownOnce
  CallIsForItsWorkflow
  HonouredWasVerified
CHECK_DEADLOCK FALSE
