SPECIFICATION Spec
CONSTANTS
  Session = {"s1", "s2"}
  Key = {"web", "api", "db", "job", "init"}
  Defined = {"web", "api", "db", "job", "init"}
  InitKey = "init"
  Needs <- StoreNeeds
  NoCall = none
  Call = {"c1", "c2"}
  SessionsOf <- StoreSessions
  KeyOf <- StoreKey
  MaxTasks = 3
  Scenario = {{"init", "kill"}}
INVARIANTS
  InitializedByRun
CHECK_DEADLOCK FALSE
