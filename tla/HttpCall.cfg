SPECIFICATION FairSpec
CONSTANTS
  HeadLen = 2
  JsonLen = 2
  UsizeMax = 7
  MaxBytes = 6
  ReadMax = 3
  Window = 3
  SentMax = 6
INVARIANTS
  TypeOK
  JudgedAtBoundary
  CompleteIsTaken
  CapEnforced
PROPERTIES
  CallReturns
CHECK_DEADLOCK FALSE
