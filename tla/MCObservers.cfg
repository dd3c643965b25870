SPECIFICATION Spec
CONSTANTS
  Tickets <- MCTickets
  Pnls <- MCPnls
  Channels <- MCChannels
  Classes <- MCClasses
  Registry <- MCRegistry
  Formats <- MCFormats
  Window = 0
  MaxRecent = 1
  MaxTime = 1
  MinTrades = 1
  DriftWindow = 2
  WinFloor = 50
  ExpectancyFloor = 0
  MaxLosses = 2
  MaxFills = 2
  MaxTrades = 2
  MaxEvents = 3
  MaxFreed = 1
INVARIANTS ReportsSound
PROPERTIES ReportsComplete
CHECK_DEADLOCK FALSE
