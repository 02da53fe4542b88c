SPECIFICATION FairSpec
CONSTANTS
  Archive = {a1}
  Restore = {r1}
  Remove = {x1}
  HasCleanup = FALSE
  Scenario = {
    {"archive", "leave"}}
  MaxCrashes = 1
PROPERTIES
  ArchiveAlwaysCompletes
CHECK_DEADLOCK FALSE
