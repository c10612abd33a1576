\* Bounds: see README.md.
CONSTANTS
  NumPhotos = 1
  PickSizes <- TwoFiles
  MaxLoops = 3
  MaxCrops = 1
  MaxRotations = 0
  MaxDeletes = 1
  MaxDrops = 1
  MaxReconnects = 0
  MaxPairings = 1
SPECIFICATION Spec
INVARIANTS
  ShownInOrder
  SealedForSession
CHECK_DEADLOCK FALSE
