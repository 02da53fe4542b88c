SPECIFICATION Spec
CONSTANTS
  Message = {m1, m2, m3}
  Forced = {}
  Primary = TRUE
  Outcome = {"completed"}
  MayFail = TRUE
  MayStop = FALSE
INVARIANTS
  ReadOnce
  UniqueTurns
PROPERTIES
  OldestFirst
SYMMETRY MessageSymmetry
CHECK_DEADLOCK FALSE
