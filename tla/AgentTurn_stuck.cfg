SPECIFICATION Spec
CONSTANTS
  Message = {m1, m2}
  Forced = {}
  Primary = TRUE
  Outcome = {"completed"}
  MayFail = TRUE
  MayStop = FALSE
INVARIANTS
  IdleNotRunning
CHECK_DEADLOCK FALSE
