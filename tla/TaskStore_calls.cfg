SPECIFICATION FairSpec
CONSTANTS
  Session = {"s1", "s2"}
  Key = {"web", "api", "db", "job", "init"}
  Defined = {"web", "api", "db", "job", "init"}
  InitKey = "init"
  Needs <- StoreNeeds
  NoCall = none
  Call = {"c1", "c2"}
  SessionsOf <- StoreSessions
  KeyOf <- StoreKey
  MaxTasks = 3
  Scenario = {{"init", "kill"}, {"init", "fail"}, {"init", "archive"}, {"init", "shutdown"}, {"archive"}}
INVARIANTS
  TypeOK
  OneInit
  DepsComplete
PROPERTIES
  LeavesDying
  CallsAndServerEnd
CHECK_DEADLOCK FALSE
