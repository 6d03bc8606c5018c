SPECIFICATION FairSpec
CONSTANTS
  Tasks = {t1}
  Recommended = {"IMMEDIATE_RETRY"}
  Outcomes = {"ESCALATED", "RECOVERED"}
  OptOut = TRUE
  MaxWorkflows = 2
  MaxRetries = 1
  MaxDecisions = 2
  MaxLoads = 2
  MaxFaults = 1
INVARIANTS
  OneDecisionAtATime
  ReadYourWrites
  
  ApprovalsOnRecord
  RetriesReuseWorkflow
PROPERTY ButtonsComeBack
CHECK_DEADLOCK FALSE
