SPECIFICATION FairSpec
CONSTANTS
  Size = 3
  Exprs <- MCExprs
  Conds <- MCConds
  Configs <- MCConfigs
  MaxConds = 3
INVARIANTS IndInv NoPanic FullIsLast
PROPERTIES TreeStays LeavesExpr LeavesImprove
CHECK_DEADLOCK FALSE
