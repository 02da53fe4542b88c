SPECIFICATION FairSpec
CONSTANTS
  Message = {m1, m2}
  Forced = {m2}
  Primary = TRUE
  Outcome = {"completed", "failed"}
  MayFail = FALSE
  MayStop = TRUE
INVARIANTS
  TypeOK
  IdleNotRunning
PROPERTIES
  RunningEnds
CHECK_DEADLOCK FALSE
