\* Bounds: see README.md.
CONSTANTS
  MaxRooms = 2
  MaxPcs = 2
  Trickling = {"sender"}
  MaxCands = 1
  MaxFlying = 2
  Limited <- ThePoller
  MaxRequests <- FewRequests
  Window = 2
  MaxAge = 2
  RoomTTL = 0
  WaitersMax = 1
  TotalMax = 1
  IceMax = 2
  MaxFaults = 1
SPECIFICATION FairSpec
INVARIANTS
  WaitersAccounted
  RefusedIsSpent
  
PROPERTIES
  AnswerReaches
CHECK_DEADLOCK FALSE
