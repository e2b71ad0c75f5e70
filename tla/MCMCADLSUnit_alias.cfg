SPECIFICATION Spec
CONSTANTS
  a = a
  b = b
  NoMD = NoMD
  Addr = {a, b}
  Kinds <- AccessKinds
  MaxInst = 3
  AssumeNoAlias = TRUE
  LQSize = 0
  SQSize = 0
  HasCache = FALSE
  Latency = {0}
CHECK_DEADLOCK FALSE
INVARIANT NoLoadPassesStore
