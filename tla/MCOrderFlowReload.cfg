SPECIFICATION FairSpec
CONSTANTS
  Strategies = {s1, s2}
  Accounts = {a1, a2}
  Primary = a1
  None = none
  Cap = 1
  FetchesInfo = {s1, s2}
  QueueSize = 1
  BrokerCloses = TRUE
  Reroutes = TRUE
  PendingFills = TRUE
  MaxAttempts = 1
  MaxLost = 1
  MaxSignals = 2
PROPERTIES
  ClosesOwnOnly
  SignalsHandled
