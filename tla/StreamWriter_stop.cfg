SPECIFICATION Spec
CONSTANTS
  Tool = {a}
  Ticker = {t1, t2}
  MaxOps = 5
  Progress = TRUE
  MayStop = TRUE
INVARIANTS
  TranscriptOrder
CHECK_DEADLOCK FALSE
