\* Bounds: see README.md.
CONSTANTS
  MaxResends = 1
  MaxKeys = 2
  MaxDrops = 1
  MaxLost = 1
  MaxDenials = 1
  Hasty = FALSE
SPECIFICATION FairSpec

  
  
PROPERTIES
  VerifiedStays
  HandshakeCompletes
CHECK_DEADLOCK FALSE
