\* Bounds: see README.md.
CONSTANTS
  Modes = {"race", "forced", "lpOnly"}
  Speakers = {"receiver"}
  MaxSaid = 2
  MaxPending = 2
  MaxFaults = 1
  MaxHides = 1
  MaxRestarts = 1
SPECIFICATION FairSpec
INVARIANTS
  HeardFromTheFirst
  
PROPERTIES
  
  PagesMeet
CHECK_DEADLOCK FALSE
