SPECIFICATION Spec
CONSTANTS
  Tool = {a}
  Ticker = {t1}
  MaxOps = 3
  Progress = FALSE
  MayStop = TRUE
PROPERTIES
  TextGrows
CHECK_DEADLOCK FALSE
