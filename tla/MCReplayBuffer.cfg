SPECIFICATION FairSpec
CONSTANTS
  Configs <- MCConfigs
  Worlds <- MCWorlds
  MaxAdds = 3
  MaxSaves = 2
  MaxCrashes = 1
INVARIANTS
  SamplesRight
  NothingLost
  DiskComplete
PROPERTIES
  DiskSettles
\* The calls are bounded.
CHECK_DEADLOCK FALSE
