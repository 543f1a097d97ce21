SPECIFICATION Spec
CONSTANTS
  Problems <- MCProblems
  WordBits = 3
  Penalty = 1000000
  Log2 <- MCLog2
INVARIANTS
  IndInv
  SolvedIsRight
  DecidesLearnable
  TreeSmall
CHECK_DEADLOCK FALSE
