\* Two posts in pages of one, two walks that may overlap.
CONSTANTS
  N = 2
  CreatorOf <- MCCreator
  NoVideo = {}
  Boxes = 2
  MaxRuns = 2
  Page = 1
  MaxIters = 3
  Limits = {1, 3}
  MaxFaults = 1
SPECIFICATION ChainFairSpec
INVARIANTS SnapshotExact
PROPERTIES TombstonesAreDead WalksComplete
CHECK_DEADLOCK FALSE
