SPECIFICATION FairSpec
CONSTANTS
  MaxLines = 5
  Inputs <- AllInputs
  MaxNumProcessedInst = 2
  PreserveCallInst = FALSE
  PreserveReturnInst = FALSE
  CarryCycles = 2
  PipelineDepth = 2
  MaxEmptyFetches = 1
CHECK_DEADLOCK FALSE
INVARIANT ReportsExact
INVARIANT IdentifiersOwn
INVARIANT RegionsExact
INVARIANT TimelinesComplete
INVARIANT StatsCurrent
PROPERTY KeepsContract
PROPERTY WorkerEnds
