SPECIFICATION FairSpec
CONSTANTS
  Layouts <- StagedRewardLayouts
PROPERTIES
  CallsReturn
\* The workers that are left wait for ever.
CHECK_DEADLOCK FALSE
