SPECIFICATION Spec
CONSTANTS
  p1 = p1
  p2 = p2
  m1 = m1
  g1 = g1
  g2 = g2
  Others <- TwoPosts
  Mine <- OneOfMine
  Agents <- TwoAgents
  Horizon = 3
  Limits <- OneOrTwo
  Sinces <- NoneOrSecond
SYMMETRY Symmetric
INVARIANTS
  IndInv
  NothingPassedOver
CHECK_DEADLOCK FALSE
