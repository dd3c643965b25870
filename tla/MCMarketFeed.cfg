SPECIFICATION Spec
CONSTANTS
  a = a
  b = b
  None = None
  Symbols <- MCSymbols
  Timeframes <- MCTimeframes
  TicksPer <- MCTicksPer
  Wiring <- MCWiring
  Malformed <- MCMalformed
  MaxTick <- MCMaxTick
  MaxOutages = 1
  MaxRetired = 1
INVARIANTS StreamSound
PROPERTIES GapFilled CatchesUp
CHECK_DEADLOCK FALSE
