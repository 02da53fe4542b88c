SPECIFICATION Spec
CONSTANTS
  MaxStates = 1
  MaxTasks = 1
  Page = {p1}
  Guest = {}
  Socket = {w}
  None = none
  Scenarios = {{"upgrade", "restart"}}
INVARIANT
  NoReloadLoop
CHECK_DEADLOCK FALSE
