SPECIFICATION FairSpec
CONSTANTS
  NumCore = 2
  NumSubs = 2
  Configs <- MCConfigs
  Spurious = TRUE
  Null = Null
INVARIANTS IndInv EndedIsFinal
PROPERTIES WriteOnce FillDescends FillingEnds LastThreadReturned
CHECK_DEADLOCK FALSE
