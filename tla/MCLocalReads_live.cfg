SPECIFICATION FairSpec
CONSTANTS
  c1 = c1
  c2 = c2
  Channels <- OneChannel
  MaxPost = 1
  MaxVer = 1
  ChannelOf <- AllInOne
  RootOf <- NoRoot
  Leavable <- OneChannel
  Reactions <- Nothing
  MaxChanges = 2
  Mine <- Nothing
  Deletable <- Nothing
  Viewed <- First
  Ticking = TRUE
  HistoryLimit = 0
  PageSize = 2
  MinBackfill = 1
  WindowFloor = 1
  WindowCap = 3
  MaxFaults = 1
PROPERTIES
  UnreadConverges
  RecentConverge
