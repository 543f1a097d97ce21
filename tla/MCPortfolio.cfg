SPECIFICATION FairSolverSpec
CONSTANTS
  NumCore = 3
  Requests = 2
  Options <- MCAll
  SpuriousWakeups = TRUE
  MaxHeight = 2
INVARIANTS
  IndInv
  RunningThreadsExact
  HeightsDistinct
  AnswerCompleteOrFilling
PROPERTIES
  ResultsMonotone
  RefinesTask
  PublishedBeforeScanIsReturned
  StoppedWorkersEnd
CHECK_DEADLOCK FALSE
