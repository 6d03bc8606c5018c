SPECIFICATION FairSpec
CONSTANTS
  Projects <- SomeProjects
  Notifications <- OneFailure
  MaxRetries = 1
  MaxDeliveries = 2
  MaxCalls = 1
  MaxOpen = 1
  MaxFaults = 2
INVARIANTS
  AckedFailureIsQueued
  ExecuteEffects
PROPERTIES
  EventuallyAcked
CHECK_DEADLOCK FALSE
