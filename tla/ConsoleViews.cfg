SPECIFICATION Spec
CONSTANTS
  Numbers = {"n1", "n2"}
  DemoNumber = "n1"
  Amounts = {1, 2}
  Ages = {"90_PLUS"}
  MaxSaves = 2
  InitialPayments = 999
  MaxPayments = 1
  MaxPolls = 2
  MaxFaults = 1
INVARIANTS
  SavedIsKept
  CardsMatchList
PROPERTY ViewsGoForward
CHECK_DEADLOCK FALSE
