SPECIFICATION FairSpec
CONSTANTS
  MaxKeepalives = 4
  WireCap = 2
INVARIANTS
  TypeOK
  NothingLost
PROPERTIES
  ThreadsEnd
  ClientServed
  ImplementsSseStream
CHECK_DEADLOCK FALSE
