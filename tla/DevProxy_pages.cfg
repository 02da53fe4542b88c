SPECIFICATION FairSpec
CONSTANTS
  MaxStates = 2
  MaxTasks = 2
  Page = {p1,p2}
  Guest = {p2}
  Socket = {w}
  None = none
  Scenarios = {{"upgrade", "restart", "stop"}, {"preview", "stop"}}
INVARIANTS
  TypeOK
  SettledTold
PROPERTIES
  PageLeaves
CHECK_DEADLOCK FALSE
