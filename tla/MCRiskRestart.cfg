SPECIFICATION Spec
CONSTANTS
  None = none
  Pools <- OneAccount
  InitEquity <- Equities
  Levels = {90, 100, 120}
  KillPct = 20
  LockOn = TRUE
  ActivatePct = 10
  GivebackPct = 50
  LossPct = 10
  Results = {}
  Replays = TRUE
  SnapshotFails = FALSE
  MaxCloses = 0
  MaxDays = 1
  MaxStops = 1
  MaxFailures = 0
PROPERTIES
  FlagsClearedByOperator
