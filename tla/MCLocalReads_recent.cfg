SPECIFICATION Spec
CONSTANTS
  c1 = c1
  c2 = c2
  Channels <- TwoChannels
  MaxPost = 6
  MaxVer = 1
  ChannelOf <- ThirdApart
  RootOf <- TwoReplies
  Leavable <- Nothing
  Reactions <- Nothing
  MaxChanges = 0
  Mine <- Sixth
  Deletable <- Nothing
  Viewed <- Nothing
  Ticking = FALSE
  HistoryLimit = 0
  PageSize = 3
  MinBackfill = 2
  WindowFloor = 2
  WindowCap = 4
  MaxFaults = 2
INVARIANTS
  IndInv
  RecentInv
  NewestPageWhole
  NothingMissed
  CoveredIsRight
CHECK_DEADLOCK FALSE
