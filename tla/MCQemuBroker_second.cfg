SPECIFICATION FairSpec
CONSTANTS
  Mode = "none"
  Blocks <- OneBlock
  Regions <- NoRegions
  LoadAddr = 0
  Chunk = 3
  MaxConn = 2
  FreshIndices = TRUE
  NumTBs = 1
  MaxExec = 2
  MaxAccept = 2
CHECK_DEADLOCK FALSE
PROPERTY TraceDelivered
