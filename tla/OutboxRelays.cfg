SPECIFICATION FairSpec
CONSTANTS
  N = 3
  Relays = {r1, r2}
  BatchSize = 2
  Routed = {1, 2}
  MaxRetry = 1
  MaxFailures = 2
INVARIANTS
  PublishedWasEnqueued
  EnqueuedOnce
PROPERTIES
  ImplementsOutbox
  EveryEventHandled
CHECK_DEADLOCK FALSE
