SPECIFICATION FairSpec
CONSTANTS
  DayLen = 4
  WeekDays = 3
  Loop = {"l1", "l2"}
  Message = {"m1", "m2"}
  SendAt <- LoopSendAt
  Batch = 1
  Schedules <- LoopSchedules
  Zones <- LoopZones
  Worlds = {{"l1", "l2"}, {"m1", "m2"}}
  NoLoop = noloop
  NoMessage = nomessage
  MaxTime = 5
  MaxEvents = 1
  MaxCrashes = 1
INVARIANTS
  TypeOK
  RunOnce
  ArmedWhenOn
  NextIsFirst
  CancelledNotSent
PROPERTIES
  DueLeaves
CHECK_DEADLOCK FALSE
