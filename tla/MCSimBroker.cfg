SPECIFICATION Spec
CONSTANTS
  eur = eur
  usd = usd
  None = None
  Symbols <- MCSymbols
  Requests <- MCRequests
  Changes <- MCChanges
  Volumes <- MCVolumes
  Quotes <- MCQuotes
  Bars <- MCBars
  Models <- MCModels
  Slippage = 1
  Factor = 1
  Window = 2
  Point = 1
  Commission = 1
  SwapLong = 2
  SwapShort = 3
  ContractSize = 1
  HoursPerDay = 2
  RolloverHour = 1
  InitialBalance = 100
  MaxTicket = 2
  MaxTime = 2
  MaxOps = 3
INVARIANTS BooksBalance
PROPERTIES FairReplay ImplementsLife
