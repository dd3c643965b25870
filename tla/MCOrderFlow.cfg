SPECIFICATION Spec
CONSTANTS
  Strategies = {s1, s2}
  Accounts = {a1, a2}
  Primary = a1
  None = none
  Cap = 1
  FetchesInfo = {s2}
  QueueSize = 2
  BrokerCloses = TRUE
  Reroutes = FALSE
  PendingFills = TRUE
  MaxAttempts = 2
  MaxLost = 1
  MaxSignals = 3
INVARIANTS TypeOK CountersSound CapWithSlack
