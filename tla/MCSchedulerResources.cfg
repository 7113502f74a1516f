CONSTANTS
  ClusterGpus = 12
  ActorGpus = 2
  InferenceGpus = 2
  ActorMp = 1
  RolloutMp = 2
  MinibatchGroups = 12
  Minibatches = 4
  Tasks = 20
  MaxRunning = 4
  PreProcess = TRUE
  SchedulerPreProcess = TRUE
  WaitBeforeLast = TRUE
  None = None

SPECIFICATION FairSpec

INVARIANTS
  Accounting
  RoomForMigrants
  ActorInStep
  NoOverlap
  LastStepTakesAll

PROPERTIES
  ScheduleReturns
