SPECIFICATION FairSpec
CONSTANTS
  Handlers = {h1, h2}
  Events <- Checkout
  MaxDeliveries <- Deliveries
  MaxFaults = 1
INVARIANTS
  EffectsOnce
  FailureIsQueued
  WorkflowFollowsPayment
PROPERTIES
  EveryEventProcessed
CHECK_DEADLOCK FALSE
