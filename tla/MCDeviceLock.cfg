CONSTANTS
  w1 = w1
  w2 = w2
  w3 = w3
  w4 = w4
  g1 = g1
  g2 = g2
  g3 = g3
  NoWorker = NoWorker
  Workers <- MCWorkers
  Devices <- MCDevices
  Devs <- MCDevs
  MaxDepth = 1

SPECIFICATION FairSpec

INVARIANTS
  TypeOK
  MutualExclusion
  ResumeFindsFree
  NoFailedRelease

PROPERTIES
  ImplementsSections
  EveryoneEnters
