SPECIFICATION Spec
CONSTANTS
  a = a
  b = b
  NoMD = NoMD
  Addr = {a, b}
  Kinds <- PlainKinds
  MaxInst = 4
  AssumeNoAlias = TRUE
  LQSize = 3
  SQSize = 2
  HasCache = FALSE
  Latency = {0}
CHECK_DEADLOCK FALSE
INVARIANT NoLoadBarrierPassesLoad
