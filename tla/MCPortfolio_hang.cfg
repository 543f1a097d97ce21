SPECIFICATION FairSpec
CONSTANTS
  NumCore = 2
  Requests = 1
  Options <- MCLimited
  SpuriousWakeups = FALSE
  MaxHeight = 3
PROPERTIES
  AllEndedReturns
CHECK_DEADLOCK FALSE
