SPECIFICATION FairSpec
CONSTANTS
  Strategies = {s1, s2}
  Accounts = {a1, a2, ghost}
  Pool = {a1, a2}
  Primary = a1
  Feeds = {"EURUSD.M5"}
  FeedOf <- OneFeed
  Codes = {c1, c2}
  Params = {p1, bad}
  Invalid = {bad}
  None = none
  InitConfigs <- Started
  MaxEdits = 2
  MaxDrops = 1
INVARIANTS TypeOK InForceAndFed RunsOnce
PROPERTIES ReloadsComplete
CHECK_DEADLOCK FALSE
