SPECIFICATION Spec
CONSTANTS
  Size = 3
  Exprs <- MCExprs
  Conds <- MCConds
  Configs <- MCLimited
  MaxConds = 3
INVARIANT NeverPanics
CHECK_DEADLOCK FALSE
