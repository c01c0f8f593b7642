SPECIFICATION Spec
CONSTANTS
  Ids <- FourIds
  CreateAt <- TwoTie
  Root = 1
  Day = 2
  NTeams = 2
  Moments <- FourMoments
  MaxHits = 2
  MaxLimit = 3
  Name <- TwoOfAName
  Teamless <- OneDirect
INVARIANTS
  HitsRight
  MessagesRight
  ThreadRight
  TeamAlike
  FoundRight
CHECK_DEADLOCK FALSE
