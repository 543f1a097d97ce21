SPECIFICATION FairSpec
CONSTANTS
  a = a
  b = b
  c = c
  None = None
  Inputs <- MCInputs
  Evaluable <- MCEvaluable
  Exprs <- MCExprs
  Problems <- MCProblems
  Given <- MCGiven
  Configs <- MCConfigs
  Replies <- MCReplies
  CheckAfter = 1
  WordBits = 3
INVARIANTS IndInv AnswerRight CondThreadsBounded RoundsBounded
PROPERTIES RefinesTask Decides
CHECK_DEADLOCK FALSE
