SPECIFICATION Spec
CONSTANTS
  None = None
  MaxPrice = 3
  MaxTicket = 2
  ReportsHits = TRUE
  Activate = 0
  Trigger = 1
  Lock = 0
  Step = 1
  MaxLevels = 1
  MaxBars = 1
  MaxHold = 1
  Cooldown = 1
  MaxTrades = 1
  Stops = {1}
  MaxErrors = 1
  MaxRequests = 1
  MaxTicks = 3
  MaxManagers = 2
  Distances = {1}
  Cases <- MCCases
CHECK_DEADLOCK FALSE
INVARIANTS EntriesKept Settles
PROPERTIES StopTightens ExitsComplete
