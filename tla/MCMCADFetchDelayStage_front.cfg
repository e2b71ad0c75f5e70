SPECIFICATION FairSpec
CONSTANTS
  LineSize = 4
  AccessModulus = 4
  NumSets <- OneSet
  NumWays <- TwoWays
  UnitLatency <- ShortLatency
  MemoryLatency = 1
  HistoryCapacity = 2
  CounterModulus = 4
  PHTRows = 1
  PHTWays = 1
  Configs <- FewConfigs
  Insts <- FewInsts
  DataAddr = {4}
  Penalty = 2
  DispatchWidth = 1
  MaxInst = 4
  MaxData = 1
CHECK_DEADLOCK FALSE
INVARIANT FetchInOrder
INVARIANT DelaysServed
INVARIANT PredictionBacked
INVARIANT LastBranchKnown
INVARIANT PredictorsBounded
INVARIANT MissesGoDown
INVARIANT RecentLinesResident
PROPERTY AllForwarded
