SPECIFICATION Spec
CONSTANTS
  EnvSize = 2
  PipeCap = 1
  Watchdog = TRUE
INVARIANTS
  NoSilentFallback
CHECK_DEADLOCK FALSE
