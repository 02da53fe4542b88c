SPECIFICATION Spec
CONSTANTS
  Task <- PreviewTask
  DependsOn <- PreviewDependsOn
  Root = {"preview"}
  AutoStart = {}
  Lazy = {"preview", "code"}
  PortTask = {"preview", "api", "code"}
  SlowSpawn = {"preview", "api", "code"}
  TtlTask = {"preview", "api", "gen", "code"}
  CappedTask = {}
INVARIANTS
  TypeOK
  ChildOwned
  DepsReadyBeforeSpawn
PROPERTY
  LeaseKept
CHECK_DEADLOCK FALSE
