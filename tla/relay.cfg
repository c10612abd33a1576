\* Bounds: see README.md.
CONSTANTS
  MaxConns = 3
  Kinds = {"ws", "lp"}
  MaxFrames = 3
  Senders = {"sender"}
  QueueMax = 1
  BufferMax = 1
  Sliver = 1
  WaitersMax = 2
  TotalMax = 3
  SessionMax = 4
  MaxFaults = 1
  MayExpire = TRUE
SPECIFICATION Spec
INVARIANTS
  HoldsItsSlot
  StreamIsWhole
  HalvesEndTogether
  QueueBounded
  WaitersCounted
CHECK_DEADLOCK FALSE
