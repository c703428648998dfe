SPECIFICATION FairSpec
CONSTANTS
  EnvSize = 2
  PipeCap = 1
  Watchdog = TRUE
  NoToken = NoToken
  Blank = Blank
  UserToken = UserToken
  EnvToken = EnvToken
  NoFile = NoFile
  Worker = {w1}
  RequestMax = 2
  NoRequest = NoRequest
  Kinds <- SomeKinds
  Config <- Routed
  CorsOn = TRUE
  StrictModels = TRUE
  StopMax = 1
  Models <- Names
  Settings <- ThreeSettings
  StartMax = 2
  EditMax = 1
INVARIANTS
  TypeOK
  NeverOpen
  FileTokenAccepted
  OwnAnswer
PROPERTIES
  SecretUnexposed
  RequestsAnswered
  PhasesEnd
CHECK_DEADLOCK FALSE
