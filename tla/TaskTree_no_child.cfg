SPECIFICATION Spec
CONSTANTS
  Task <- PreviewTask
  DependsOn <- PreviewDependsOn
  Root = {"preview"}
  AutoStart = {}
  Lazy = {"preview", "code"}
  PortTask = {"preview", "api", "code"}
  SlowSpawn = {"preview", "api", "code"}
  TtlTask = {"preview", "api", "gen", "code"}
  CappedTask = {}
INVARIANT NoChildOfEndedTask
CHECK_DEADLOCK FALSE
