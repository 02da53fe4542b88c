SPECIFICATION Spec
CONSTANTS
  Message = {m1, m2}
  Forced = {}
  Primary = TRUE
  Outcome = {"completed"}
  MayFail = FALSE
  MayStop = FALSE
PROPERTIES
  EndedByItself
CHECK_DEADLOCK FALSE
