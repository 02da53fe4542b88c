SPECIFICATION FairSpec
CONSTANTS
  Tool = {a, b}
  Ticker = {t1}
  MaxOps = 5
  Progress = FALSE
  MayStop = FALSE
INVARIANTS
  TypeOK
  NothingLost
  ToolsSettled
PROPERTIES
  ResultKept
  TextReachesRow
CHECK_DEADLOCK FALSE
