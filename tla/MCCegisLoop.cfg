SPECIFICATION FairSpec
CONSTANTS
  t1 = t1
  t2 = t2
  i1 = i1
  i2 = i2
  c1 = c1
  c2 = c2
  c3 = c3
  None = None
  Threads <- MCThreads
  Inputs <- MCInputs
  Candidates <- MCCandidates
  HeightsOf <- MCHeightsOf
  CoeffOf <- MCCoeffOf
  Problems <- MCProblems
  Feeds <- MCFeeds
  MaxSMT = FALSE
  Regimes <- MCRegimes
  MaxHeight = 3
INVARIANTS
  IndInv
  ResultSolves
  CopiesBounded
  RefutedHasNoSolution
  NoHeightSkipped
PROPERTIES
  SolvableIsSolved
CHECK_DEADLOCK FALSE
