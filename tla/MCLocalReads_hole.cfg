SPECIFICATION Spec
CONSTANTS
  c1 = c1
  c2 = c2
  Channels <- OneChannel
  MaxPost = 4
  MaxVer = 1
  ChannelOf <- AllInOne
  RootOf <- NoRoot
  Leavable <- Nothing
  Reactions <- Nothing
  MaxChanges = 0
  Mine <- Nothing
  Deletable <- Nothing
  Viewed <- Nothing
  Ticking = FALSE
  HistoryLimit = 0
  PageSize = 2
  MinBackfill = 1
  WindowFloor = 1
  WindowCap = 3
  MaxFaults = 1
INVARIANTS
  CoveredIsWhole
CHECK_DEADLOCK FALSE
