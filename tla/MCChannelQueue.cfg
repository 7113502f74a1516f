CONSTANTS
  p1 = p1
  p2 = p2
  p3 = p3
  h1 = h1
  n1 = n1
  g1 = g1
  g2 = g2
  g3 = g3
  m1 = m1
  b1 = b1
  Tasks <- MCTasks
  Workloads <- ApartWorkloads
  Op <- MCOp
  Weight <- MCWeight
  Target <- MCTarget
  MaxSize = 2

SPECIFICATION FairSpec

INVARIANTS
  TypeOK
  NoLostItem
  NoLostSlot
  BatchWithinTarget

PROPERTIES
  EveryoneServed

CHECK_DEADLOCK FALSE
