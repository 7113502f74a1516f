CONSTANTS
  prod = prod
  cons = cons
  cons2 = cons2
  k1 = k1
  k2 = k2
  NoItem = NoItem
  QueueEmpty = QueueEmpty
  Clients <- MCClients
  Keys <- MCKeys
  Calls <- MCCalls
  Workloads <- PassWorkloads
  Client <- MCClient
  Key <- MCKey
  Op <- MCOp
  MaxSize = 2

SPECIFICATION FairSpec

INVARIANTS
  KeyRouting
  AtMostOnce
  PutOrder

PROPERTIES
  GetsReturn
  PutsReturn

CHECK_DEADLOCK FALSE
