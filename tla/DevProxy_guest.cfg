SPECIFICATION FairSpec
CONSTANTS
  MaxStates = 1
  MaxTasks = 1
  Page = {p1}
  Guest = {p1}
  Socket = {w}
  None = none
  Scenarios = {{"preview", "stop"}}
PROPERTIES
  GuestLeaves
CHECK_DEADLOCK FALSE
