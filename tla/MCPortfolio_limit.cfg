SPECIFICATION Spec
CONSTANTS
  NumCore = 2
  Requests = 1
  Options <- MCLimited
  SpuriousWakeups = FALSE
  MaxHeight = 3
INVARIANTS
  GivesUpOnlyWhenAllEnded
CHECK_DEADLOCK FALSE
