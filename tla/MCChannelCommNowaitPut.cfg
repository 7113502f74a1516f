CONSTANTS
  prod = prod
  cons = cons
  cons2 = cons2
  k1 = k1
  k2 = k2
  NoItem = NoItem
  QueueEmpty = QueueEmpty
  Clients <- MCClients
  Keys <- MCKeys
  Calls <- MCCalls
  Workloads <- NowaitPutWorkloads
  Client <- MCClient
  Key <- MCKey
  Op <- MCOp
  MaxSize = 1

SPECIFICATION FairSpec

PROPERTIES
  NowaitReturns

CHECK_DEADLOCK FALSE
