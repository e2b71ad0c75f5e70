SPECIFICATION SysFairSpec
CONSTANTS
  Mode = "trim"
  Blocks <- SystemBlocks
  Regions <- SystemRegions
  LoadAddr = 10
  Chunk = 4
  MaxConn = 2
  FreshIndices = FALSE
  NumTBs = 3
  MaxExec = 4
  MaxAccept = 2
  AddrSpace = 65536
  Args <- SystemArgs
  Manifests <- SystemManifests
  OnlyMainCode = TRUE
  CodeEnd = 40
  ClientMsgs <- TestMsgs
  MaxRun = 3
  SockSize = 2
CHECK_DEADLOCK FALSE
INVARIANT RelayFaithful
INVARIANT CopiesInBounds
INVARIANT StreamInOrder
PROPERTY KeepsContract
PROPERTY TraceDelivered
PROPERTY ExitStops
