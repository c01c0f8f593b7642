SPECIFICATION Spec
CONSTANTS
  w1 = w1
  w2 = w2
  w3 = w3
  r1 = r1
  r2 = r2
  Nothing = Nothing
  Old = Old
  Writers <- ThreeWriters
  Removers <- TwoRemovers
  MaxCuts = 1
INVARIANTS
  NeverPartial
  NoDeadSession
  NoClobber
  IndInv
CHECK_DEADLOCK FALSE
