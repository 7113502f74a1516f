SPECIFICATION FairSpec
CONSTANT Scenes <- MCScenes
INVARIANTS
  InStep
PROPERTIES
  RecvReturnsSend
  WorksEnd
\* The calls are bounded, and two workers that both send first wait for ever.
CHECK_DEADLOCK FALSE
