\* Bounds: see README.md.
CONSTANTS
  NumFiles = 2
  SegCount <- OneThenTwo
  MaxRetries = 1
  MaxDrops = 1
  MaxCorrupt = 1
SPECIFICATION FairSpec
INVARIANTS
  TypeOK
  ShownOnce
  NeverTruncated
  ReceiverHoldsHead
  OneRewindPerCorruption
PROPERTIES
  NoNonceReuse
  SendAttemptEnds
CHECK_DEADLOCK FALSE
