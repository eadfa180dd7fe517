SPECIFICATION FairSpec
CONSTANTS
  Sizes = {1, 2}
  StoreCapacity = 2
  FrameBound = 3
  HeaderFields = 3
  Align = 4
  Top = 17
INVARIANT ResourcesBalanced
INVARIANT OnlyWantedFrames
INVARIANT InOrderOnce
INVARIANT WalkIsSafe
PROPERTY EveryFrameRead
