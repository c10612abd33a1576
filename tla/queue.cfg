\* Bounds: see README.md.
CONSTANTS
  NumPhotos = 2
  PickSizes <- OneFile
  MaxLoops = 2
  MaxCrops = 0
  MaxRotations = 1
  MaxDeletes = 0
  MaxDrops = 1
  MaxReconnects = 1
  MaxPairings = 0
SPECIFICATION Spec
INVARIANTS
  TypeOK
  OneLoop
  
PROPERTIES
  ImplementsOutbox
CHECK_DEADLOCK FALSE
