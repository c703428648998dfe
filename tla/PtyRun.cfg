SPECIFICATION TidySpec
CONSTANT MaxChunks = 2
INVARIANTS
  TypeOK
  NoTruncatedSuccess
  KillIsTimeout
  NoThreadLeft
PROPERTIES
  CallReturns
CHECK_DEADLOCK FALSE
