------------------------------ MODULE LoopSchedule ------------------------------
(***************************************************************************)
(* The recurrence of a loop (server/services/loop-schedule.js): the next   *)
(* instant at which a schedule fires, in a time zone whose offset changes  *)
(* once.  Instants are hours since an epoch at which a day and a week      *)
(* begin in UTC; a time of day is an hour of the local day.                *)
(***************************************************************************)
EXTENDS Integers

CONSTANTS
  DayLen,      \* hours of a day
  WeekDays     \* days of a week

ASSUME DayAssumption == DayLen \in Nat \ {0} /\ WeekDays \in Nat \ {0}

None == -1     \* null, no occurrence

\* A zone: the instant at which its offset changes, and the offset around it
Zone == [at : Nat, before : Int, after : Int]

\* A canonical schedule (normalizeSchedule); the fields of another type are not
\* looked at.
Schedule == [type : {"interval", "daily", "weekly"}, every : Nat \ {0},
             time : 0 .. DayLen - 1, days : SUBSET (0 .. WeekDays - 1)]

\* zoneOffsetMs, and what partsInZone reads of an instant
Offset(z, t) == IF t < z.at THEN z.before ELSE z.after
Local(z, t)  == t + Offset(z, t)
Day(x)       == x \div DayLen
Hour(x)      == x % DayLen
Weekday(x)   == Day(x) % WeekDays

\* Mutant: the offset is taken at the wall-clock time read as UTC.
ZonedOnce(z, x) == x - Offset(z, x)

\* zonedToUtcMs: the offset is looked up twice, for it depends on the instant.
ZonedToUtc(z, x) == x - Offset(z, x - Offset(z, x))

\* The time of day on the local day that is i days after that of `from'
Candidate(z, s, from, i) == ZonedToUtc(z, (Day(Local(z, from)) + i) * DayLen + s.time)

\* Mutant: an occurrence at this very instant counts.
AcceptedNow(z, s, from, i) ==
  LET ts == Candidate(z, s, from, i) IN
    /\ ts >= from
    /\ s.type = "weekly" => Weekday(Local(z, ts)) \in s.days

\* An occurrence is later, and on a day of the week that is wanted when the
\* clock shows it.
Accepted(z, s, from, i) ==
  LET ts == Candidate(z, s, from, i) IN
    /\ ts > from
    /\ s.type = "weekly" => Weekday(Local(z, ts)) \in s.days

\* computeNextRun
NextRun(z, s, from) ==
  IF s.type = "interval" THEN from + s.every
  ELSE LET days == {i \in 0 .. WeekDays + 1 : Accepted(z, s, from, i)} IN
       IF days = {} THEN None
       ELSE Candidate(z, s, from, CHOOSE i \in days : \A j \in days : i <= j)

-----------------------------------------------------------------------------
(* What a schedule means *)

\* t is an occurrence: the clock shows the time, on a day that is wanted.
IsOccurrence(z, s, t) ==
  /\ Hour(Local(z, t)) = s.time
  /\ s.type = "weekly" => Weekday(Local(z, t)) \in s.days

\* The clock shows the time of day of s not once but never or twice on day d.
IrregularDay(z, s, d) ==
  LET shows == {t \in (d - 1) * DayLen .. (d + 2) * DayLen :
                  Local(z, t) = d * DayLen + s.time}
  IN \A t \in shows : \E u \in shows : u # t

\* The days on which the clock can be until the next occurrence after `from'; the
\* day before is one of them, for the clock may fall behind over midnight.
Horizon(z, from) == {Day(Local(z, from)) + i : i \in -1 .. WeekDays}

\* The first occurrence after `from', where every day has exactly one
First(z, s, from) ==
  LET later == {t \in from + 1 .. from + (WeekDays + 1) * DayLen : IsOccurrence(z, s, t)}
  IN IF later = {} THEN None ELSE CHOOSE t \in later : \A u \in later : t <= u
=============================================================================
