SPECIFICATION Spec
CONSTANTS
  Projects <- SomeProjects
  Notifications <- OneFailure
  MaxRetries = 1
  MaxDeliveries = 2
  MaxCalls = 0
  MaxOpen = 2
  MaxFaults = 0
INVARIANTS
  QueuedOnce
CHECK_DEADLOCK FALSE
