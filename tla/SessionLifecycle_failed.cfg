SPECIFICATION Spec
CONSTANTS
  Archive = {a1}
  Restore = {r1}
  Remove = {x1}
  HasCleanup = FALSE
  Scenario = {
    {"archive", "setup"}}
  MaxCrashes = 1
INVARIANTS
  StatusMatches
CHECK_DEADLOCK FALSE
