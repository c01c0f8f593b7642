SPECIFICATION FairSpec
CONSTANTS
  d1 = d1
  d2 = d2
  s1 = s1
  s2 = s2
  t1 = t1
  None = None
  Procs <- TwoDaemons
  Starts <- TwoStarts
  Stops <- OneStop
  Reusable <- JustOne
  Latest <- OldAndNew
  MaxFaults = 2
INVARIANTS
  IndInv
  OneWriter
  TrustedIsBackfilled
  SchemaFits
PROPERTIES
  IsSingleWriter
  StopTerminates
  StartServes
CHECK_DEADLOCK FALSE
