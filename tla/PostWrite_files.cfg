SPECIFICATION FairSpec
CONSTANTS
  NTeams = 3
  NFiles = 3
  MaxTries = 3
INVARIANTS
  IndInv
  WholePost
  OnePost
  RightChannel
  CallsInStep
  FewOrphans
PROPERTIES
  CommandEnds
CHECK_DEADLOCK FALSE
