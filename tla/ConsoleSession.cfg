SPECIFICATION Spec
CONSTANTS
  Questions = {1, 2}
  MaxVisits = 3
  MaxClicks = 2
  MaxChanges = 1
  MaxFaults = 1
  MaxFlight = 2
INVARIANTS
  AnswersTheQuestion
PROPERTIES
  ReportedOverFreshList
  NoBlindDispatch
CHECK_DEADLOCK FALSE
