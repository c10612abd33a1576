\* Bounds: see README.md.
CONSTANTS
  MaxFiles = 2
  MaxActs = 3
  MaxDocs = 2
  MaxNacks = 1
  Hasty = FALSE
SPECIFICATION FairSpec
INVARIANTS
  Filed
  GoneHasNoText
  HandleHasOneOwner
PROPERTIES
  ExportsGoOn
CHECK_DEADLOCK FALSE
