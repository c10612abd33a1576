\* Bounds: see README.md.
CONSTANTS
  NumFiles = 2
  SegCount <- OneThenTwo
  MaxRetries = 2
  MaxDrops = 1
  MaxCorrupt = 3
SPECIFICATION FairPromptSpec
PROPERTIES
  ImplementsFileDelivery
  EveryFileArrives
  RewindAnswered
CHECK_DEADLOCK FALSE
