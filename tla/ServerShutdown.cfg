SPECIFICATION FairSpec
CONSTANTS
  Worker = {w1, w2}
  RequestMax = 1
  NoRequest = NoRequest
  NoToken = NoToken
  Kinds <- OnlyChat
  Config <- OneChain
  CorsOn = FALSE
  StrictModels = FALSE
  StopMax = 1
PROPERTIES
  SignalEndsServer
CHECK_DEADLOCK FALSE
