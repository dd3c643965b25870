SPECIFICATION FairSpec
CONSTANTS
  Subs <- MCSubs
  Types <- MCTypes
  Publishers <- MCPublishers
  External = "none"
  Wants <- MCWants
  Overflow <- MCOverflow
  MaxSize <- MCMaxSize
  Host <- MCHost
  MaxEvents = 3
INVARIANTS Delivered ReachesEverySubscriber
PROPERTIES Progress
