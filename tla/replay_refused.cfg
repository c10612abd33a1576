\* Bounds: see README.md.
CONSTANTS
  MaxFiles = 1
  MaxActs = 2
  MaxDocs = 1
  MaxNacks = 1
  Hasty = FALSE
SPECIFICATION Spec
INVARIANTS
  CardShowsBytes
CHECK_DEADLOCK FALSE
