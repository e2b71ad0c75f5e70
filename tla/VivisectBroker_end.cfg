SPECIFICATION Spec
CONSTANTS
  Chunk = 2
  NumInsts = 3
CHECK_DEADLOCK FALSE
INVARIANT NothingLeftAtEnd
