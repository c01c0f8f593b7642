SPECIFICATION FairSpec
CONSTANTS
  MaxEvents = 7
  Event <- Events
  Types <- AllTypes
  Watched <- OneChannel
  IncludeSelf = FALSE
  Me = "me"
  Limit = 2
  Timeout = 2
  MaxDrops = 2
INVARIANTS
  IndInv
  
  OnceInOrder
  ZeroMeansLimit
PROPERTIES
  TimeoutEnds
CHECK_DEADLOCK FALSE
