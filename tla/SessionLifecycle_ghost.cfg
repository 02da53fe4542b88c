SPECIFICATION Spec
CONSTANTS
  Archive = {a1}
  Restore = {r1}
  Remove = {x1}
  HasCleanup = FALSE
  Scenario = {
    {"turns", "crash"}}
  MaxCrashes = 1
INVARIANTS
  GhostFree
CHECK_DEADLOCK FALSE
