\* Three processes and two commands; two runs of the four imports; one grid;
\* three runs and two stops of the live backtest; four ticks; a week of hours.
SPECIFICATION Spec
CONSTANTS
  Pids = {1, 2, 3}
  Commands = {run1, run2}
  Components = 1
  NoPid = NoPid
  Broken = Broken
  Imports <- MCImports
  Source <- MCSource
  Values = {"a", "closed", "forming", "x", "y", "z"}
  Offset = 1
  DayLength = 2
  Days = 2
  BatchSize = 2
  MaxRuns = 2
  Ranges <- MCRanges
  None = None
  Worst <- MCWorst
  NameOrder <- MCNames
  Grid <- MCGrid
  Reports <- MCReports
  Objectives <- MCObjectives
  Algos = {"grid", "random", "optuna", "genetic"}
  RankBys = {"profit_factor", "max_drawdown", "missing"}
  Schemes = {"rolling", "expanding"}
  NTrials = 2
  PopSize = 2
  Generations = 2
  Elite = 1
  TournamentSize = 3
  Mutates = TRUE
  WindowStart = 0
  WindowEnd = 20
  NFolds = 2
  InSample = 7
  InSampleOf = 10
  BtRuns = {1, 2, 3}
  Stops = {c1, c2}
  NoRun = NoRun
  MaxTicks = 4
  MaxOrders = 3
  Markets <- MCMarkets
  FirstHour = 72
  LastHour = 220
  MaxMissing = 1
INVARIANTS OneEngine FilesSound ReplaySound SearchSound AnalysisSound BacktestSound
PROPERTIES BridgeSound SwingSound
CHECK_DEADLOCK FALSE
