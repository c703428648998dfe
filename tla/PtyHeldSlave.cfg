SPECIFICATION FairSpec
CONSTANT MaxChunks = 1
PROPERTIES
  CallReturns
CHECK_DEADLOCK FALSE
