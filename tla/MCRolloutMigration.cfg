CONSTANTS
  g1 = g1
  g2 = g2
  g3 = g3
  NumInstances = 3
  Groups = {g1, g2, g3}
  Requests <- MCRequests
  GroupSize = 2
  Borrowed = 1
  MaxRunning = 4
  Minibatches = 3
  PreProcess = TRUE
  WaitBeforeLast = TRUE

SPECIFICATION FairSpec

INVARIANTS
  NoFailure
  OnePlace

PROPERTIES
  StepEnds
  ImplementsPromise
