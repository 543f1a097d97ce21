SPECIFICATION FairSpec
CONSTANTS
  NumCore = 2
  Requests = 1
  Options <- MCFixedHeight
  SpuriousWakeups = FALSE
  MaxHeight = 3
PROPERTIES
  NoSolutionReported
CHECK_DEADLOCK FALSE
