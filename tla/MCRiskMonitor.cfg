SPECIFICATION Spec
CONSTANTS
  None = none
  Pools <- OneOrTwo
  InitEquity <- Equities
  Levels = {90, 120}
  KillPct = 20
  LockOn = TRUE
  ActivatePct = 10
  GivebackPct = 50
  LossPct = 10
  Results <- Trades
  Replays = TRUE
  SnapshotFails = TRUE
  MaxCloses = 2
  MaxDays = 2
  MaxStops = 2
  MaxFailures = 1
INVARIANTS DrawdownGuarded DayLossGuarded FlagsKept
CONSTRAINT IsSmall
