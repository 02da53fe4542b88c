SPECIFICATION Spec
CONSTANTS
  Tool = {a}
  Ticker = {t1}
  MaxOps = 3
  Progress = FALSE
  MayStop = TRUE
INVARIANTS
  ToolsSettled
CHECK_DEADLOCK FALSE
