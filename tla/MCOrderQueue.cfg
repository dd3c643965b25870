SPECIFICATION FairSpec
CONSTANTS
  Orders = {o1, o2}
  Senders = {t1, t2}
  Replayer = replayer
  None = none
  MaxRetries = 2
  RepliesLost = TRUE
  MaxStops = 2
  MaxUnwritten = 1
INVARIANTS TypeOK PendingIsUnderway ExecutionsAccounted
PROPERTIES ImplementsOutbox PendingIsResolved
