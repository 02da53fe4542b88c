SPECIFICATION Spec
CONSTANTS
  Archive = {a1}
  Restore = {r1}
  Remove = {x1}
  HasCleanup = FALSE
  Scenario = {
    {"setup", "fail", "leave"}}
  MaxCrashes = 1
INVARIANTS
  NothingLeft
CHECK_DEADLOCK FALSE
