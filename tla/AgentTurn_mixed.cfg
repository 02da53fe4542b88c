SPECIFICATION Spec
CONSTANTS
  Message = {m1, m2, m3}
  Forced = {}
  Primary = TRUE
  Outcome = {"completed"}
  MayFail = FALSE
  MayStop = FALSE
INVARIANTS
  OneTurnPerQuery
CHECK_DEADLOCK FALSE
