SPECIFICATION Spec
CONSTANTS
  Task <- SharedTask
  DependsOn <- SharedDependsOn
  Root = {"app", "cron"}
  AutoStart = {"app", "cron"}
  Lazy = {}
  PortTask = {}
  SlowSpawn = {}
  TtlTask = {"gen", "lib"}
  CappedTask = {"app", "cron"}
INVARIANT CompletedMeansRan
CHECK_DEADLOCK FALSE
