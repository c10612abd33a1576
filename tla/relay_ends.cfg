\* Bounds: see README.md.
CONSTANTS
  MaxConns = 2
  Kinds = {"ws", "lp"}
  MaxFrames = 3
  Senders = {"sender"}
  QueueMax = 1
  BufferMax = 1
  Sliver = 1
  WaitersMax = 2
  TotalMax = 3
  SessionMax = 4
  MaxFaults = 1
  MayExpire = TRUE
SPECIFICATION FairSpec
PROPERTIES
  PausedFeederResumes
  DeadSlotIsFreed
CHECK_DEADLOCK FALSE
