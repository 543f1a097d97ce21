SPECIFICATION Spec
CONSTANTS
  Sample <- MCSample
  Rest <- MCRest
  Problems <- MCProblems
  MinGain = 0
  MaxSize = 1
INVARIANTS
  IndInv
  AssertHolds
  ReturnedRight
  RulesBounded
CHECK_DEADLOCK FALSE
