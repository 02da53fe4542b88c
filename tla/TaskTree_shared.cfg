SPECIFICATION FairSpec
CONSTANTS
  Task <- SharedTask
  DependsOn <- SharedDependsOn
  Root = {"app", "cron"}
  AutoStart = {"app", "cron"}
  Lazy = {}
  PortTask = {}
  SlowSpawn = {}
  TtlTask = {"gen", "lib"}
  CappedTask = {"app", "cron"}
INVARIANT
  OrphansStopped
PROPERTIES
  SparedWhileNeeded
  KilledEnds
  TreeEnds
CHECK_DEADLOCK FALSE
