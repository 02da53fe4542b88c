---------------------------- MODULE MCLoopScheduler ----------------------------
(* Days of four hours and weeks of three days: an interval, a daily and a       *)
(* weekly loop, in a zone whose clock falls back over midnight and in one whose *)
(* clock springs forward.                                                       *)
EXTENDS LoopScheduler

Hourly == [type |-> "interval", every |-> 3, time |-> 0, days |-> {}]
Daily  == [type |-> "daily", every |-> 1, time |-> 2, days |-> {}]
Weekly == [type |-> "weekly", every |-> 1, time |-> 1, days |-> {1}]

\* At midnight, on the day of the week on which the clock of a zone skips midnight.
Midnight == [type |-> "weekly", every |-> 1, time |-> 0, days |-> {1}]

LoopSchedules == {Hourly, Daily, Weekly}
LoopZones == {[at |-> 3, before |-> 2, after |-> -1],
              [at |-> 5, before |-> 2, after |-> 3]}
Skipping == {[at |-> 17, before |-> -1, after |-> 0]}
MidnightOnly == {Midnight}
LoopSendAt == [m \in Message |-> IF m = "m1" THEN 1 ELSE 2]
=============================================================================
