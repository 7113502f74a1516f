SPECIFICATION FairSpec
CONSTANTS
  Layouts <- MCLayouts
INVARIANTS
  AnswersForObservations
  NothingLeft
PROPERTIES
  CallsReturn
