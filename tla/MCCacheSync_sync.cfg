SPECIFICATION Spec
CONSTANTS
  c1 = c1
  c2 = c2
  Channels <- OneChannel
  MaxPost = 1
  MaxVer = 2
  ChannelOf <- AllInOne
  RootOf <- NoRoot
  Leavable <- Nothing
  Reactions <- OneReaction
  MaxChanges = 2
  Mine <- First
  Deletable <- First
  Viewed <- Nothing
  Ticking = FALSE
  HistoryLimit = 2
  PageSize = 1
  MinBackfill = 1
  WindowFloor = 1
  WindowCap = 2
  MaxFaults = 1
INVARIANTS
  
  CursorBacked
PROPERTIES
  IsReplica
CHECK_DEADLOCK FALSE
