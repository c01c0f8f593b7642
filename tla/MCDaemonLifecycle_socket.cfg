SPECIFICATION Spec
CONSTANTS
  d1 = d1
  d2 = d2
  s1 = s1
  s2 = s2
  t1 = t1
  None = None
  Procs <- TwoDaemons
  Starts <- TwoStarts
  Stops <- OneStop
  Reusable <- Nobody
  Latest <- OldAndNew
  MaxFaults = 0
INVARIANTS
  SocketIsMine
CHECK_DEADLOCK FALSE
