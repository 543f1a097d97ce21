SPECIFICATION Spec
CONSTANTS
  NumCore = 2
  NumSubs = 2
  Configs <- MCConfigs
  Spurious = FALSE
  Null = Null
INVARIANT AnswerFinal
CHECK_DEADLOCK FALSE
