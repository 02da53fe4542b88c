SPECIFICATION Spec
CONSTANTS
  Message = {m1, m2}
  Forced = {}
  Primary = TRUE
  Outcome = {"completed"}
  MayFail = FALSE
  MayStop = FALSE
INVARIANTS
  FollowUpsStart
CHECK_DEADLOCK FALSE
