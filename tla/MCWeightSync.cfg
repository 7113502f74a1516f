SPECIFICATION FairSpec
CHECK_DEADLOCK FALSE
CONSTANTS
  Ranks = {r1, r2}
  Buckets = 2
  Configs <- AllConfigs
INVARIANTS
  StaleWithin
  WeightsRight
  Paired
PROPERTIES
  NobodyStuck
