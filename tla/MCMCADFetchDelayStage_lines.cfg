SPECIFICATION Spec
CONSTANTS
  LineSize = 4
  AccessModulus = 4
  NumSets <- OneSet
  NumWays <- TwoWays
  UnitLatency <- ShortLatency
  MemoryLatency = 1
  HistoryCapacity = 2
  CounterModulus = 4
  PHTRows = 1
  PHTWays = 1
  Configs <- OneConfig
  Insts <- FewInsts
  DataAddr = {4}
  Penalty = 2
  DispatchWidth = 1
  MaxInst = 3
  MaxData = 0
CHECK_DEADLOCK FALSE
INVARIANT CachedLinesHit
