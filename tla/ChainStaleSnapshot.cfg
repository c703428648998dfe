SPECIFICATION Spec
SYMMETRY Threads
CONSTANTS
  w1 = w1  w2 = w2  cli = cli  api = api
  NoBackend = NoBackend
  Walker = {w1, w2}
  Backend = {cli, api}
  Chains <- FallbackPair
  Classifier = cli
  RouteTargets <- FallbackPair
  FallbackTarget <- CliThenApi
  Capped <- OnlyCli
  Cap <- CapOne
  AllowEmpty <- OnlyApi
  Api <- OnlyApi
  LegTimeout <- EveryOne
  Punctual <- OnlyCli
  Overrun <- EveryOne
  CooldownOn = TRUE
  CooldownSecs = 2
  TimeoutBase = 2
  TimeoutMax = 3
  RefusedSecs = 1
  FailureMax = 3
  Budgeted = FALSE
  Budget = 0
  MaxTime = 2
PROPERTIES
  SkipOnlyWhileOthersRemain
