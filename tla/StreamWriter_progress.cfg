SPECIFICATION Spec
CONSTANTS
  Tool = {a, b}
  Ticker = {t1, t2}
  MaxOps = 5
  Progress = TRUE
  MayStop = FALSE
INVARIANTS
  ToolsSettled
CHECK_DEADLOCK FALSE
