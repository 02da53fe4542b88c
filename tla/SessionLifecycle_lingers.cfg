SPECIFICATION Spec
CONSTANTS
  Archive = {a1}
  Restore = {r1}
  Remove = {x1}
  HasCleanup = FALSE
  Scenario = {
    {"archive", "turns"}}
  MaxCrashes = 1
INVARIANTS
  ArchivedRests
CHECK_DEADLOCK FALSE
