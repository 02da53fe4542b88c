SPECIFICATION Spec
CONSTANTS
  DayLen = 4
  WeekDays = 3
  Loop = {"l1"}
  Message = {}
  SendAt <- LoopSendAt
  Batch = 1
  Schedules <- MidnightOnly
  Zones <- Skipping
  Worlds = {{"l1"}}
  NoLoop = noloop
  NoMessage = nomessage
  MaxTime = 6
  MaxEvents = 1
  MaxCrashes = 1
INVARIANT
  ArmedWhenOn
CHECK_DEADLOCK FALSE
