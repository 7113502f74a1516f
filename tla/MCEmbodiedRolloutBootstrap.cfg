SPECIFICATION FairSpec
CONSTANTS
  Layouts <- BootstrapLayouts
INVARIANTS
  MergeConsistent
\* The workers that are left wait for ever.
CHECK_DEADLOCK FALSE
