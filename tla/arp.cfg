SPECIFICATION FairSpec
CONSTANTS
  Address = {"x", "y", "z"}
  Hardware = {"m", "n"}
  CacheCapacity = 2
  PendingCapacity = 2
  Ttl = 2
  RefreshMargin = 1
  RetryInterval = 2
  PendingDeadline = 3
  MaximumAttempts = 2
  Top = 3
  FrameBound = 2
INVARIANT ResolverInv
INVARIANT NoWaitForKnownAddress
INVARIANT CacheMatchesPeer
PROPERTY EveryFrameSettles
PROPERTY ImplementsFrameQueue
