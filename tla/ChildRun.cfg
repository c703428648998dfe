SPECIFICATION FairSpec
CONSTANTS
  MaxSteps = 3
  Programs <- ShortPrograms
  PromptLen = 2
  PipeCap = 1
  Tmuxlet = TRUE
INVARIANTS
  TypeOK
  NoTruncatedAnswer
  ChildReaped
PROPERTIES
  ChildNotBlocked
  CallReturns
CHECK_DEADLOCK FALSE
