SPECIFICATION FairSpec
CONSTANTS
  a = a
  b = b
  NoMD = NoMD
  Addr = {a, b}
  Kinds <- TracedKinds
  MaxInst = 4
  AssumeNoAlias = TRUE
  LQSize = 3
  SQSize = 2
  HasCache = TRUE
  Latency = {0, 1}
CHECK_DEADLOCK FALSE
INVARIANT TypeOK
INVARIANT GroupsExist
INVARIANT GroupAssertions
INVARIANT StoresInOrder
INVARIANT StoresAfterStoreBarriers
INVARIANT NoLoadPassesLoadBarrier
INVARIANT NoLoadBarrierPassesRun
INVARIANT QueuesBalanced
PROPERTY AllRetire
