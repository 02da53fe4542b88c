------------------------------- MODULE LoopProofs -------------------------------
(***************************************************************************)
(* Theorems about LoopScheduler, for any number of loops and messages, any *)
(* schedules, zones, edits and restarts: its variables have their types,   *)
(* no occurrence of a loop runs twice, no cancelled message is sent, the   *)
(* next run is the first occurrence on days the clock shows the time once, *)
(* and, where the clock does not change or no loop is weekly, a loop that  *)
(* is on always has a next run.                                            *)
(***************************************************************************)
EXTENDS LoopScheduler, WellFoundedInduction, TLAPS

-----------------------------------------------------------------------------
(* The recurrence *)

LEMMA LeastNat ==
  ASSUME NEW S \in SUBSET Nat, S # {}
  PROVE  \E m \in S : \A k \in S : m <= k
<1>1. PICK m \in S : \A k \in S : ~(<<k, m>> \in OpToRel(<, Nat))
  BY WFMin, NatLessThanWellFounded, Zenon
<1>2. \A k \in S : <<k, m>> \in OpToRel(<, Nat) <=> k < m
  BY DEF OpToRel
<1>3. \A k \in S : ~(k < m)
  BY <1>1, <1>2, Zenon
<1> QED
  BY <1>3

LEMMA CandidateTyped ==
  ASSUME NEW z \in Zone, NEW s \in Schedule, NEW from \in Nat, NEW i \in Nat
  PROVE  Candidate(z, s, from, i) \in Int
<1>1. \A t \in Int : Offset(z, t) \in Int
  BY DEF Offset, Zone
<1>2. \A x \in Int : ZonedToUtc(z, x) \in Int
  BY <1>1 DEF ZonedToUtc
<1>3. Local(z, from) \in Int
  BY <1>1 DEF Local
<1>4. s.time \in Int
  BY DayAssumption DEF Schedule
<1>5. Day(Local(z, from)) \in Int
  BY <1>3, DayAssumption DEF Day
<1>6. (Day(Local(z, from)) + i) * DayLen + s.time \in Int
  BY <1>4, <1>5, DayAssumption
<1> QED
  BY <1>2, <1>6 DEF Candidate

\* computeNextRun returns null or an instant after the one it is given.
LEMMA NextRunLater ==
  ASSUME NEW z \in Zone, NEW s \in Schedule, NEW from \in Nat
  PROVE  /\ NextRun(z, s, from) \in Int
         /\ NextRun(z, s, from) = None \/ NextRun(z, s, from) > from
<1> DEFINE days == {i \in 0 .. WeekDays + 1 : Accepted(z, s, from, i)}
<1>1. CASE s.type = "interval"
  <2>1. s.every \in Nat \ {0}
    BY DEF Schedule
  <2> QED
    BY <1>1, <2>1 DEF NextRun
<1>2. CASE s.type # "interval" /\ days = {}
  BY <1>2 DEF NextRun, None
<1>3. CASE s.type # "interval" /\ days # {}
  <2>1. days \in SUBSET Nat
    BY DayAssumption
  <2>2. PICK i \in days : \A j \in days : i <= j
    BY <1>3, <2>1, LeastNat
  <2> DEFINE least == CHOOSE k \in days : \A j \in days : k <= j
  <2>3. least \in days
    BY <2>2
  <2>4. NextRun(z, s, from) = Candidate(z, s, from, least)
    BY <1>3 DEF NextRun
  <2>5. Candidate(z, s, from, least) > from
    BY <2>3 DEF Accepted
  <2>6. Candidate(z, s, from, least) \in Int
    BY <2>1, <2>3, CandidateTyped
  <2> QED
    BY <2>4, <2>5, <2>6
<1> QED
  BY <1>1, <1>2, <1>3

-----------------------------------------------------------------------------
(* The clock of a zone, and what computeNextRun returns *)

\* An offset is less than a day, and changes by at most a day.
Earthly(z) ==
  /\ z \in Zone
  /\ z.before \in 1 - DayLen .. DayLen - 1 /\ z.after \in 1 - DayLen .. DayLen - 1
  /\ z.before - z.after \in -DayLen .. DayLen

\* A day begins and ends where it should.
LEMMA DayBounds ==
  ASSUME NEW x \in Int
  PROVE  /\ Day(x) \in Int /\ Hour(x) \in 0 .. DayLen - 1
         /\ x = Day(x) * DayLen + Hour(x)
  BY DayAssumption DEF Day, Hour

LEMMA DayAround ==
  ASSUME NEW x \in Int
  PROVE  /\ Day(x) \in Int /\ Day(x) * DayLen \in Int
         /\ Day(x) * DayLen <= x /\ x < Day(x) * DayLen + DayLen
  BY DayAssumption DEF Day

LEMMA DayOf ==
  ASSUME NEW k \in Int, NEW h \in 0 .. DayLen - 1
  PROVE  Day(k * DayLen + h) = k /\ Hour(k * DayLen + h) = h
  BY DayAssumption DEF Day, Hour

LEMMA DaysApart ==
  ASSUME NEW j \in Int, NEW k \in Int, j < k
  PROVE  j * DayLen + DayLen <= k * DayLen /\ j * DayLen \in Int /\ k * DayLen \in Int
  BY DayAssumption

\* Every day of the week comes within the next week, and again a week later.
LEMMA WeekdayComes ==
  ASSUME NEW d \in Int, NEW w \in 0 .. WeekDays - 1
  PROVE  \E i \in 1 .. WeekDays : (d + i) % WeekDays = w
<1> DEFINE r == (w - d - 1) % WeekDays  q == (w - d - 1) \div WeekDays
<1>1. q \in Int /\ r \in 0 .. WeekDays - 1 /\ w - d - 1 = q * WeekDays + r
  BY DayAssumption
<1>2. d + (r + 1) = (-q) * WeekDays + w
  BY <1>1, DayAssumption
<1>3. \A k \in Int : (k * WeekDays + w) % WeekDays = w
  BY DayAssumption
<1>4. (d + (r + 1)) % WeekDays = w /\ r + 1 \in 1 .. WeekDays
  BY <1>1, <1>2, <1>3, DayAssumption
<1> QED
  BY <1>4

LEMMA WeekLater ==
  ASSUME NEW d \in Int
  PROVE  (d + WeekDays) % WeekDays = d % WeekDays
<1> DEFINE r == d % WeekDays  q == d \div WeekDays
<1>1. q \in Int /\ r \in 0 .. WeekDays - 1 /\ d = q * WeekDays + r
  BY DayAssumption
<1>2. \A k \in Int : (k * WeekDays + r) % WeekDays = r
  BY <1>1, DayAssumption
<1>3. d + WeekDays = (q + 1) * WeekDays + r
  BY <1>1, DayAssumption
<1> QED
  BY <1>1, <1>2, <1>3

LEMMA OffsetTyped ==
  ASSUME NEW z, Earthly(z), NEW t \in Int
  PROVE  /\ Offset(z, t) \in {z.before, z.after} /\ Offset(z, t) \in 1 - DayLen .. DayLen - 1
         /\ Local(z, t) = t + Offset(z, t) /\ Local(z, t) \in Int
         /\ z.at \in Nat /\ z.before \in Int /\ z.after \in Int
  BY DayAssumption DEF Earthly, Zone, Offset, Local

\* On a regular day zonedToUtcMs returns the one instant at which the clock shows the time.
LEMMA ShownOnce ==
  ASSUME NEW z, Earthly(z), NEW s \in Schedule, NEW d \in Int, ~IrregularDay(z, s, d)
  PROVE  LET x == d * DayLen + s.time  c == ZonedToUtc(z, x) IN
           /\ c \in Int /\ Local(z, c) = x
           /\ \A t \in Int : Local(z, t) = x => t = c
<1> DEFINE x == d * DayLen + s.time  c == ZonedToUtc(z, x)
           shows == {t \in (d - 1) * DayLen .. (d + 2) * DayLen : Local(z, t) = x}
<1>1. PICK t \in shows : \A u \in shows : u = t
  BY DEF IrregularDay
<1>2. s.time \in 0 .. DayLen - 1 /\ x \in Int /\ DayLen \in Nat \ {0} /\ d * DayLen \in Int
  BY DayAssumption DEF Schedule
<1>3. (d - 1) * DayLen = d * DayLen - DayLen /\ (d + 2) * DayLen = d * DayLen + DayLen + DayLen
  BY <1>2
<1>4. \A u \in Int : Local(z, u) = x => u \in shows
  BY <1>2, <1>3, OffsetTyped
<1>5. t \in Int /\ Local(z, t) = x
  BY <1>1, <1>2, <1>3
<1>6. \A u \in Int : Local(z, u) = x => u = t
  BY <1>1, <1>4
<1>7. c = t
  <2> HIDE DEF x
  <2> QED
    BY <1>2, <1>5, <1>6, OffsetTyped DEF ZonedToUtc, Local, Offset
<1> QED
  BY <1>5, <1>6, <1>7

\* The clock falls behind by at most a day.
LEMMA ClockFalls ==
  ASSUME NEW z, Earthly(z), NEW t \in Int, NEW u \in Int, t < u
  PROVE  Local(z, u) > Local(z, t) - DayLen
  BY DayAssumption DEF Earthly, Zone, Local, Offset

\* The occurrences that computeNextRun looks at, on regular days.
Regular(z, s, from) == \A d \in Horizon(z, from) : ~IrregularDay(z, s, d)

LEMMA Candidates ==
  ASSUME NEW z, Earthly(z), NEW s \in Schedule, NEW from \in Nat, Regular(z, s, from),
         NEW i \in -1 .. WeekDays
  PROVE  LET c == Candidate(z, s, from, i)  x == (Day(Local(z, from)) + i) * DayLen + s.time IN
           /\ c \in Int /\ x \in Int /\ Local(z, c) = x
           /\ Day(Local(z, c)) = Day(Local(z, from)) + i /\ Hour(Local(z, c)) = s.time
           /\ \A t \in Int : Local(z, t) = x => t = c
<1> DEFINE d == Day(Local(z, from)) + i
<1>1. d \in Int /\ ~IrregularDay(z, s, d)
  <2>1. Day(Local(z, from)) \in Int /\ i \in Int
    BY OffsetTyped, DayBounds, DayAssumption
  <2>2. d \in Horizon(z, from)
    BY DEF Horizon
  <2> QED
    BY <2>1, <2>2 DEF Regular
<1>2. s.time \in 0 .. DayLen - 1
  BY DEF Schedule
<1>3. Day(d * DayLen + s.time) = d /\ Hour(d * DayLen + s.time) = s.time
  BY <1>1, <1>2, DayOf
<1>4. d * DayLen + s.time \in Int
  BY <1>1, <1>2, DayAssumption
<1>5. Candidate(z, s, from, i) = ZonedToUtc(z, d * DayLen + s.time)
  BY DEF Candidate
<1> HIDE DEF d
<1> QED
  BY <1>1, <1>3, <1>4, <1>5, ShownOnce DEF d

\* What is accepted is an occurrence ...
LEMMA AcceptedOccurs ==
  ASSUME NEW z, Earthly(z), NEW s \in Schedule, NEW from \in Nat, Regular(z, s, from),
         NEW i \in 0 .. WeekDays
  PROVE  LET c == Candidate(z, s, from, i) IN
           Accepted(z, s, from, i) <=> c > from /\ IsOccurrence(z, s, c)
<1>1. Hour(Local(z, Candidate(z, s, from, i))) = s.time
  BY Candidates
<1> QED
  BY <1>1 DEF Accepted, IsOccurrence

\* ... and every later occurrence is at one of the candidates, or days after them.
LEMMA OccurrenceIsCandidate ==
  ASSUME NEW z, Earthly(z), NEW s \in Schedule, NEW from \in Nat, Regular(z, s, from),
         NEW t \in Int, t > from, IsOccurrence(z, s, t)
  PROVE  \/ \E i \in 0 .. WeekDays : t = Candidate(z, s, from, i)
         \/ Day(Local(z, t)) > Day(Local(z, from)) + WeekDays
<1> DEFINE L == Local(z, from)  d == Day(Local(z, t))  k == Day(L)
<1>1. L \in Int /\ Local(z, t) \in Int /\ k \in Int /\ d \in Int
  BY OffsetTyped, DayBounds
<1>2. Local(z, t) = d * DayLen + s.time /\ s.time \in 0 .. DayLen - 1
  BY <1>1, DayBounds DEF IsOccurrence, Schedule
<1>3. L = k * DayLen + Hour(L) /\ Hour(L) \in 0 .. DayLen - 1
  BY <1>1, DayBounds
<1>4. Local(z, t) > L - DayLen
  BY ClockFalls
<1>5. d >= k - 1
  <2> SUFFICES ASSUME d < k - 1 PROVE FALSE
    BY <1>1
  <2>1. d * DayLen + DayLen <= (k - 1) * DayLen
    BY <1>1, DaysApart
  <2>2. (k - 1) * DayLen = k * DayLen - DayLen
    BY <1>1, DayAssumption
  <2>3. d * DayLen \in Int /\ k * DayLen \in Int
    BY <1>1, DayAssumption
  <2> HIDE DEF L, d, k
  <2> QED
    BY <1>1, <1>2, <1>3, <1>4, <2>1, <2>2, <2>3, DayAssumption
<1>6. d # k - 1
  <2> SUFFICES ASSUME d = k - 1 PROVE FALSE
    OBVIOUS
  <2>1. \A u \in Int : Local(z, u) = Local(z, t) => u = Candidate(z, s, from, -1)
    BY <1>1, <1>2, Candidates, DayAssumption
  <2>2. \A u \in Int : Local(z, u) = Local(z, t) => u = t
    BY <2>1
  <2>3. Local(z, t) < L
    <3>1. d * DayLen + DayLen <= k * DayLen /\ d * DayLen \in Int /\ k * DayLen \in Int
      BY <1>1, DaysApart
    <3> HIDE DEF L, d, k
    <3> QED
      BY <1>1, <1>2, <1>3, <3>1, DayAssumption
  <2> DEFINE u == Local(z, t) - z.before
  <2>4. from < z.at /\ z.at <= t /\ u \in Int /\ u < from
    BY <1>1, <2>3, OffsetTyped DEF Local, Offset
  <2>5. Local(z, u) = Local(z, t)
    BY <1>1, <2>4, OffsetTyped DEF Local, Offset
  <2> HIDE DEF u
  <2> QED
    BY <2>2, <2>4, <2>5
<1>7. CASE d \in k .. k + WeekDays
  <2> DEFINE i == d - k
  <2>1. i \in 0 .. WeekDays /\ k + i = d
    BY <1>1, <1>7, DayAssumption
  <2>2. t = Candidate(z, s, from, i)
    BY <1>2, <2>1, Candidates
  <2> QED
    BY <2>1, <2>2
<1> QED
  BY <1>1, <1>5, <1>6, <1>7, DayAssumption

\* Candidates of later days are later, and from tomorrow on later than `from'.
LEMMA CandidatesGrow ==
  ASSUME NEW z, Earthly(z), NEW s \in Schedule, NEW from \in Nat, Regular(z, s, from)
  PROVE  /\ \A i, j \in -1 .. WeekDays :
              i < j => Candidate(z, s, from, i) < Candidate(z, s, from, j)
         /\ \A i \in 1 .. WeekDays : Candidate(z, s, from, i) > from
<1> DEFINE c(i) == Candidate(z, s, from, i)  k == Day(Local(z, from))
<1>1. s.time \in 0 .. DayLen - 1 /\ k \in Int /\ Local(z, from) \in Int
  BY OffsetTyped, DayBounds DEF Schedule
<1>2. ASSUME NEW i \in -1 .. WeekDays, NEW j \in -1 .. WeekDays, i < j
      PROVE  c(i) < c(j)
  <2>1. c(i) \in Int /\ c(j) \in Int
        /\ Local(z, c(i)) = (k + i) * DayLen + s.time
        /\ Local(z, c(j)) = (k + j) * DayLen + s.time
    BY Candidates
  <2>2. (k + i) * DayLen + DayLen <= (k + j) * DayLen
        /\ (k + i) * DayLen \in Int /\ (k + j) * DayLen \in Int
    BY <1>1, <1>2, DaysApart
  <2>3. Local(z, c(i)) + DayLen <= Local(z, c(j))
    BY <1>1, <2>1, <2>2, DayAssumption
  <2>4. c(j) < c(i) => Local(z, c(i)) > Local(z, c(j)) - DayLen
    BY <2>1, ClockFalls
  <2> HIDE DEF c
  <2> QED
    BY <2>1, <2>3, <2>4, OffsetTyped, DayAssumption
<1>3. ASSUME NEW i \in 1 .. WeekDays
      PROVE  c(i) > from
  <2>1. i \in -1 .. WeekDays /\ i \in Int /\ i > 0
    BY <1>3, DayAssumption
  <2>2. c(i) \in Int /\ Local(z, c(i)) = (k + i) * DayLen + s.time
        /\ \A t \in Int : Local(z, t) = Local(z, c(i)) => t = c(i)
    BY <2>1, Candidates
  <2>3. Local(z, c(i)) > Local(z, from)
    <3>1. k * DayLen + DayLen <= (k + i) * DayLen
          /\ (k + i) * DayLen \in Int /\ k * DayLen \in Int
      BY <1>1, <2>1, DaysApart
    <3>2. Local(z, from) = k * DayLen + Hour(Local(z, from))
          /\ Hour(Local(z, from)) \in 0 .. DayLen - 1
      BY <1>1, DayBounds
    <3> HIDE DEF c, k
    <3> QED
      BY <1>1, <2>2, <3>1, <3>2, DayAssumption
  <2> SUFFICES ASSUME c(i) <= from PROVE FALSE
    BY <2>2
  <2> DEFINE u == Local(z, c(i)) - z.after
  <2>4. c(i) < z.at /\ z.at <= from /\ u \in Int /\ u > from
    <3> HIDE DEF c, k
    <3> QED
      BY <2>2, <2>3, OffsetTyped DEF Local, Offset
  <2>5. Local(z, u) = Local(z, c(i))
    <3> HIDE DEF c, k
    <3> QED
      BY <2>2, <2>4, OffsetTyped DEF Local, Offset
  <2> HIDE DEF c, k, u
  <2> QED
    BY <2>2, <2>4, <2>5
<1> QED
  BY <1>2, <1>3

\* Something is accepted within a week, unless no day is wanted.
LEMMA SomeAccepted ==
  ASSUME NEW z, Earthly(z), NEW s \in Schedule, NEW from \in Nat, Regular(z, s, from),
         s.type = "weekly" => s.days # {}
  PROVE  \E i \in 1 .. WeekDays : Accepted(z, s, from, i)
<1> DEFINE k == Day(Local(z, from))
<1>1. k \in Int
  BY OffsetTyped, DayBounds
<1>2. \A i \in 1 .. WeekDays :
         /\ i \in -1 .. WeekDays /\ i \in 0 .. WeekDays
         /\ Candidate(z, s, from, i) > from
         /\ Day(Local(z, Candidate(z, s, from, i))) = k + i
  BY DayAssumption, Candidates, CandidatesGrow
<1>3. CASE s.type # "weekly"
  <2>1. 1 \in 1 .. WeekDays
    BY DayAssumption
  <2> QED
    BY <1>2, <1>3, <2>1 DEF Accepted
<1>4. CASE s.type = "weekly"
  <2>1. PICK w \in s.days : w \in 0 .. WeekDays - 1
    BY <1>4 DEF Schedule
  <2>2. PICK i \in 1 .. WeekDays : (k + i) % WeekDays = w
    BY <1>1, <2>1, WeekdayComes
  <2>3. Weekday(Local(z, Candidate(z, s, from, i))) = w
    BY <1>2, <2>2 DEF Weekday
  <2> QED
    BY <1>2, <2>1, <2>2, <2>3 DEF Accepted
<1> QED
  BY <1>3, <1>4

\* The first that is accepted comes within a day more than a week.
LEMMA FirstAccepted ==
  ASSUME NEW z, Earthly(z), NEW s \in Schedule, NEW from \in Nat, Regular(z, s, from),
         s.type # "interval", NEW i \in 0 .. WeekDays, Accepted(z, s, from, i),
         \A j \in 0 .. WeekDays : Accepted(z, s, from, j) => i <= j
  PROVE  Candidate(z, s, from, i) <= from + (WeekDays + 1) * DayLen
<1> DEFINE c(j) == Candidate(z, s, from, j)  k == Day(Local(z, from))
<1>1. s.time \in 0 .. DayLen - 1 /\ k \in Int /\ Local(z, from) \in Int
      /\ k * DayLen <= Local(z, from) /\ k * DayLen \in Int
  BY OffsetTyped, DayAround DEF Schedule
<1>2. \A j \in 0 .. WeekDays : c(j) \in Int /\ Local(z, c(j)) = (k + j) * DayLen + s.time
                               /\ Day(Local(z, c(j))) = k + j
  BY Candidates, DayAssumption
<1>3. WeekDays * DayLen \in Int /\ (WeekDays + 1) * DayLen = WeekDays * DayLen + DayLen
      /\ (k + WeekDays) * DayLen = k * DayLen + WeekDays * DayLen
      /\ (k + 0) * DayLen = k * DayLen
  BY <1>1, DayAssumption
<1>4. \A t, u \in Int : t - u <= Local(z, t) - Local(z, u) + DayLen
  BY OffsetTyped, DayAssumption, SMTT(60) DEF Earthly
<1>5. CASE i < WeekDays
  <2>1. (k + i) * DayLen + DayLen <= (k + WeekDays) * DayLen /\ (k + i) * DayLen \in Int
    BY <1>1, <1>5, DaysApart, DayAssumption
  <2>2. c(i) - from <= Local(z, c(i)) - Local(z, from) + DayLen
    BY <1>2, <1>4
  <2>3. c(i) \in Int /\ Local(z, c(i)) = (k + i) * DayLen + s.time
    BY <1>2
  <2> HIDE DEF c, k
  <2>4. c(i) <= from + (WeekDays + 1) * DayLen
    BY <1>1, <1>3, <2>1, <2>2, <2>3, DayAssumption
  <2> QED
    BY <2>4 DEF c
<1>6. CASE i = WeekDays
  <2>1. 0 \in 0 .. WeekDays /\ 0 < WeekDays
    BY DayAssumption
  <2>2. ~Accepted(z, s, from, 0)
    BY <1>6, <2>1
  <2>3. Weekday(Local(z, c(0))) = Weekday(Local(z, c(WeekDays)))
    <3>1. Day(Local(z, c(0))) = k /\ Day(Local(z, c(WeekDays))) = k + WeekDays
      BY <1>1, <1>2, <1>6, <2>1
    <3> QED
      BY <1>1, <3>1, WeekLater DEF Weekday
  <2>4. c(0) <= from
    <3>1. s.type = "weekly" => Weekday(Local(z, c(WeekDays))) \in s.days
      BY <1>6 DEF Accepted
    <3>2. c(0) \in Int
      BY <1>2, <2>1
    <3> QED
      BY <2>2, <2>3, <3>1, <3>2 DEF Accepted
  <2>5. c(i) - c(0) <= Local(z, c(i)) - Local(z, c(0)) + DayLen
    BY <1>2, <1>4, <2>1
  <2>6. c(0) \in Int /\ c(i) \in Int /\ Local(z, c(0)) = (k + 0) * DayLen + s.time
        /\ Local(z, c(i)) = (k + WeekDays) * DayLen + s.time
    BY <1>2, <1>6, <2>1
  <2> HIDE DEF c, k
  <2>7. c(i) <= from + (WeekDays + 1) * DayLen
    BY <1>1, <1>3, <2>4, <2>5, <2>6, DayAssumption
  <2> QED
    BY <2>7 DEF c
<1> QED
  BY <1>5, <1>6, DayAssumption

\* On regular days computeNextRun returns the first occurrence.
LEMMA NextRunIsFirst ==
  ASSUME NEW z, Earthly(z), NEW s \in Schedule, NEW from \in Nat, Regular(z, s, from),
         s.type # "interval"
  PROVE  NextRun(z, s, from) = First(z, s, from)
<1> DEFINE c(j) == Candidate(z, s, from, j)  k == Day(Local(z, from))
           days == {i \in 0 .. WeekDays + 1 : Accepted(z, s, from, i)}
           later == {t \in from + 1 .. from + (WeekDays + 1) * DayLen : IsOccurrence(z, s, t)}
<1>1. CASE s.type = "weekly" /\ s.days = {}
  <2>1. days = {}
    BY <1>1 DEF Accepted
  <2>2. later = {}
    BY <1>1 DEF IsOccurrence
  <2> QED
    BY <1>1, <2>1, <2>2 DEF NextRun, First
<1>2. CASE s.type = "weekly" => s.days # {}
  <2>1. PICK a \in 1 .. WeekDays : Accepted(z, s, from, a)
    BY <1>2, SomeAccepted
  <2>2. a \in days
    BY <2>1, DayAssumption
  <2>3. days \in SUBSET Nat
    BY DayAssumption
  <2>4. PICK m \in days : \A j \in days : m <= j
    BY <2>2, <2>3, LeastNat
  <2> DEFINE i == CHOOSE x \in days : \A j \in days : x <= j
  <2>5. i \in days /\ \A j \in days : i <= j
    BY <2>4
  <2>6. i <= a
    BY <2>2, <2>5
  <2>7. i \in 0 .. WeekDays /\ Accepted(z, s, from, i)
    BY <2>1, <2>5, <2>6, DayAssumption
  <2>8. \A j \in 0 .. WeekDays : Accepted(z, s, from, j) => i <= j
    BY <2>5, DayAssumption
  <2>9. NextRun(z, s, from) = c(i)
    BY <2>2 DEF NextRun
  <2> HIDE DEF i
  <2>10. c(i) \in Int /\ c(i) > from /\ IsOccurrence(z, s, c(i))
    BY <2>7, AcceptedOccurs, Candidates, DayAssumption
  <2>11. c(i) <= from + (WeekDays + 1) * DayLen
    BY <2>7, <2>8, FirstAccepted
  <2>12. c(i) \in later
    BY <2>10, <2>11, DayAssumption
  <2>13. \A t \in later : c(i) <= t
    <3> SUFFICES ASSUME NEW t \in later PROVE c(i) <= t
      OBVIOUS
    <3>1. t \in Int /\ t > from /\ IsOccurrence(z, s, t)
      BY DayAssumption
    <3>2. CASE \E j \in 0 .. WeekDays : t = c(j)
      <4>1. PICK j \in 0 .. WeekDays : t = c(j)
        BY <3>2
      <4>2. i <= j
        BY <2>8, <3>1, <4>1, AcceptedOccurs
      <4>3. i < j => c(i) < c(j)
        BY <2>7, <4>1, CandidatesGrow, DayAssumption
      <4> QED
        BY <2>7, <2>10, <4>1, <4>2, <4>3
    <3>3. CASE Day(Local(z, t)) > k + WeekDays
      <4>1. k \in Int /\ Local(z, t) \in Int /\ Day(Local(z, t)) \in Int
            /\ Local(z, t) = Day(Local(z, t)) * DayLen + s.time
        BY <3>1, OffsetTyped, DayBounds DEF IsOccurrence
      <4>2. Local(z, c(i)) = (k + i) * DayLen + s.time /\ s.time \in Int
        BY <2>7, Candidates, DayAssumption DEF Schedule
      <4>3. k + i < Day(Local(z, t))
        BY <2>7, <3>3, <4>1, DayAssumption
      <4>4. (k + i) * DayLen + DayLen <= Day(Local(z, t)) * DayLen
            /\ (k + i) * DayLen \in Int /\ Day(Local(z, t)) * DayLen \in Int
        BY <2>7, <4>1, <4>3, DaysApart
      <4>5. t < c(i) => Local(z, c(i)) > Local(z, t) - DayLen
        BY <2>10, <3>1, ClockFalls
      <4> HIDE DEF c, k
      <4>6. Local(z, c(i)) \in Int /\ Local(z, c(i)) + DayLen <= Local(z, t)
        BY <4>1, <4>2, <4>4, DayAssumption
      <4>7. Local(z, c(i)) <= Local(z, t) - DayLen
        BY <4>1, <4>6, DayAssumption
      <4> QED
        BY <2>10, <3>1, <4>1, <4>5, <4>6, <4>7, DayAssumption
    <3> QED
      BY <3>1, <3>2, <3>3, OccurrenceIsCandidate
  <2>14. c(i) = CHOOSE t \in later : \A u \in later : t <= u
    <3>1. \A t \in later : (\A u \in later : t <= u) => t = c(i)
      BY <2>10, <2>12, <2>13, DayAssumption
    <3> HIDE DEF later, c
    <3> QED
      BY <2>12, <2>13, <3>1
  <2> QED
    BY <2>9, <2>12, <2>14 DEF First
<1> QED
  BY <1>1, <1>2

\* A daily loop always has a next run; a weekly one has where the clock does not
\* change, if a day is wanted.
LEMMA NextRunExists ==
  ASSUME NEW z, Earthly(z), NEW s \in Schedule, NEW from \in Nat,
         s.type = "weekly" => s.days # {} /\ z.before = z.after
  PROVE  NextRun(z, s, from) # None
<1> DEFINE days == {i \in 0 .. WeekDays + 1 : Accepted(z, s, from, i)}
<1>1. CASE s.type = "interval"
  <2>1. s.every \in Nat
    BY DEF Schedule
  <2> QED
    BY <1>1, <2>1 DEF NextRun, None
<1>2. CASE s.type # "interval" /\ days # {}
  <2>1. days \in SUBSET Nat
    BY DayAssumption
  <2>2. PICK m \in days : \A j \in days : m <= j
    BY <1>2, <2>1, LeastNat
  <2> DEFINE i == CHOOSE x \in days : \A j \in days : x <= j
  <2>3. i \in days
    BY <2>2
  <2>4. NextRun(z, s, from) = Candidate(z, s, from, i)
    BY <1>2 DEF NextRun
  <2>5. Candidate(z, s, from, i) > from
    BY <2>3 DEF Accepted
  <2>6. Candidate(z, s, from, i) \in Int
    BY <2>1, <2>3, CandidateTyped DEF Earthly
  <2> QED
    BY <2>4, <2>5, <2>6 DEF None
<1>3. CASE s.type = "daily"
  <2> DEFINE k == Day(Local(z, from))  x == (k + 2) * DayLen + s.time
             c == Candidate(z, s, from, 2)
  <2>1. s.time \in 0 .. DayLen - 1 /\ k \in Int /\ Local(z, from) \in Int
        /\ Local(z, from) < k * DayLen + DayLen /\ k * DayLen \in Int
    BY OffsetTyped, DayAround DEF Schedule
  <2>2. (k + 2) * DayLen = k * DayLen + DayLen + DayLen
    BY <2>1, DayAssumption
  <2>3. x \in Int /\ x > Local(z, from) + DayLen
    BY <2>1, <2>2, DayAssumption
  <2>4. c = ZonedToUtc(z, x)
    BY DEF Candidate
  <2>5. c > from
    <3> HIDE DEF x, c
    <3>1. \E o \in {z.before, z.after} : c = x - o
      BY <2>3, <2>4, OffsetTyped DEF ZonedToUtc, Offset
    <3> QED
      BY <2>3, <3>1, OffsetTyped, DayAssumption DEF Earthly
  <2>6. Accepted(z, s, from, 2)
    BY <1>3, <2>5 DEF Accepted
  <2>7. 2 \in days
    BY <2>6, DayAssumption
  <2> QED
    BY <1>2, <1>3, <2>7
<1>4. CASE s.type = "weekly"
  <2>1. \A d \in Int : ~IrregularDay(z, s, d)
    <3> SUFFICES ASSUME NEW d \in Int PROVE ~IrregularDay(z, s, d)
      OBVIOUS
    <3> DEFINE x == d * DayLen + s.time
               shows == {t \in (d - 1) * DayLen .. (d + 2) * DayLen : Local(z, t) = x}
    <3>1. s.time \in 0 .. DayLen - 1 /\ d * DayLen \in Int
          /\ (d - 1) * DayLen = d * DayLen - DayLen
          /\ (d + 2) * DayLen = d * DayLen + DayLen + DayLen
      BY DayAssumption DEF Schedule
    <3>2. \A t \in Int : Local(z, t) = t + z.before
      BY <1>4 DEF Local, Offset
    <3>3. x - z.before \in (d - 1) * DayLen .. (d + 2) * DayLen /\ x \in Int
      BY <3>1, OffsetTyped, DayAssumption DEF Earthly
    <3>4. x - z.before \in shows /\ \A u \in shows : u = x - z.before
      <4>1. \A t \in (d - 1) * DayLen .. (d + 2) * DayLen : t \in Int
        BY <3>1, DayAssumption
      <4> HIDE DEF x
      <4> QED
        BY <3>2, <3>3, <4>1, OffsetTyped
    <3> QED
      BY <3>4 DEF IrregularDay
  <2>2. Regular(z, s, from)
    <3>1. \A d \in Horizon(z, from) : d \in Int
      BY OffsetTyped, DayBounds, DayAssumption DEF Horizon
    <3> QED
      BY <2>1, <3>1 DEF Regular
  <2>3. PICK a \in 1 .. WeekDays : Accepted(z, s, from, a)
    BY <1>4, <2>2, SomeAccepted
  <2>4. a \in days
    BY <2>3, DayAssumption
  <2> QED
    BY <1>2, <1>4, <2>4
<1> QED
  BY <1>1, <1>2, <1>3, <1>4 DEF Schedule

-----------------------------------------------------------------------------
(* The inductive invariant: what a loop waits for is later than what it ran    *)
(* last, also in the rows a tick has read and in an edit that is not written.  *)

Later(n, t) == n = None \/ n > t

Order ==
  /\ tickNow <= now
  /\ \A l \in Loop : -1 <= ran[l] /\ ran[l] <= now /\ Later(row[l].next, ran[l])
  /\ edit # NoEdit /\ edit.what # "single" => Later(edit.row.next, now)
  /\ \A d \in due : d.row.next \in Nat /\ d.row.next <= tickNow
  /\ \A d \in due : d.loop # at \/ pc = "start" => d.row.next > ran[d.loop]
  /\ \A d \in due : pc = "start" /\ d.loop = at => Later(row[at].next, d.row.next)

IInv == TypeOK /\ Order

\* The loop a tick takes up is one of those it has read.
LEMMA EarliestRead ==
  ASSUME IInv, due # {}
  PROVE  Earliest \in due
<1>1. {d.row.next : d \in due} \in SUBSET Nat /\ {d.row.next : d \in due} # {}
  BY DEF IInv, Order
<1>2. PICK m \in {d.row.next : d \in due} : \A k \in {d.row.next : d \in due} : m <= k
  BY <1>1, LeastNat, Zenon
<1>3. \E d \in due : \A e \in due : d.row.next <= e.row.next
  BY <1>2, Zenon
<1> QED
  BY <1>3, Zenon DEF Earliest

\* The row of the loop that runs is one of those the tick has read.
LEMMA ReadRead ==
  ASSUME TypeOK, at # NoLoop
  PROVE  [loop |-> at, row |-> Read] \in due /\ Read \in Row
<1>1. \E d \in due : d.loop = at
  BY DEF TypeOK
<1> DEFINE d == CHOOSE e \in due : e.loop = at
<1>2. d \in due /\ d.loop = at
  BY <1>1, Zenon
<1>3. d \in [loop : Loop, row : Row]
  BY <1>2, Zenon DEF TypeOK
<1>4. d = [loop |-> at, row |-> d.row] /\ d.row \in Row
  BY <1>2, <1>3
<1>5. Read = d.row
  BY Zenon DEF Read
<1> QED
  BY <1>2, <1>4, <1>5, Zenon

-----------------------------------------------------------------------------
(* Rows *)

LEMMA RowFields ==
  ASSUME NEW r \in Row
  PROVE  /\ r.there \in BOOLEAN /\ r.on \in BOOLEAN /\ r.next \in Int
         /\ r.sched \in Schedules /\ r.single \in BOOLEAN /\ r.tied \in BOOLEAN
         /\ r.own \in BOOLEAN
  BY DEF Row

LEMMA RowChanged ==
  ASSUME NEW r \in Row, NEW b \in BOOLEAN, NEW c \in BOOLEAN, NEW n \in Int,
         NEW s \in Schedules
  PROVE  /\ [r EXCEPT !.there = b] \in Row /\ [r EXCEPT !.there = b].next = r.next
         /\ [r EXCEPT !.tied = b] \in Row /\ [r EXCEPT !.tied = b].next = r.next
         /\ [r EXCEPT !.on = b, !.next = n] \in Row
         /\ [r EXCEPT !.on = b, !.next = n].next = n
         /\ [r EXCEPT !.sched = s, !.next = n] \in Row
         /\ [r EXCEPT !.sched = s, !.next = n].next = n
         /\ [r EXCEPT !.single = b, !.tied = FALSE, !.own = c] \in Row
         /\ [r EXCEPT !.single = b, !.tied = FALSE, !.own = c].next = r.next
  BY DEF Row

-----------------------------------------------------------------------------
(* One lemma per action *)

LEMMA InitHolds == Init => IInv
<1> SUFFICES ASSUME Init PROVE IInv
  OBVIOUS
<1>1. zone \in Zone /\ now = 0
  BY LoopAssumption DEF Init
<1>2. \A s \in Schedules : /\ NextRun(zone, s, 0) \in Int
                           /\ Later(NextRun(zone, s, 0), 0)
  BY <1>1, NextRunLater, LoopAssumption DEF Later
<1>3. PICK w \in Worlds, s \in [Loop -> Schedules], tied \in BOOLEAN :
        /\ row = [l \in Loop |->
             [there |-> l \in w, on |-> TRUE, next |-> NextRun(zone, s[l], 0),
              sched |-> s[l], single |-> tied, tied |-> tied, own |-> tied]]
        /\ queue = w \cap Message
  BY DEF Init
<1>4. row \in [Loop -> Row]
  BY <1>2, <1>3 DEF Row
<1>5. TypeOK
  BY <1>3, <1>4, NameAssumption, BoundAssumption DEF Init, TypeOK, SessionState, Edit, None
<1>6. \A l \in Loop : Later(row[l].next, -1)
  BY <1>2, <1>3, <1>4 DEF Later, None
<1>7. Order
  BY <1>1, <1>6 DEF Init, Order, None
<1> QED
  BY <1>5, <1>7 DEF IInv

LEMMA QuietStep ==
  ASSUME IInv, Tick \/ Claim \/ Send \/ AskGitHub \/ StartSession
               \/ (\E m \in Message : Cancel(m)) \/ (\E l \in Loop : SessionMoves(l))
  PROVE  IInv'
<1>1. TypeOK'
  <2>1. CASE Tick
    BY <2>1 DEF IInv, TypeOK, Tick, clock, user, run
  <2>2. CASE Claim
    BY <2>2, NameAssumption DEF IInv, TypeOK, Claim, clock, user, run
  <2>3. CASE Send
    BY <2>3 DEF IInv, TypeOK, Send, clock, user, run
  <2>4. CASE AskGitHub
    BY <2>4 DEF IInv, TypeOK, AskGitHub, clock, user, run, messages, SessionState
  <2>5. CASE StartSession
    BY <2>5 DEF IInv, TypeOK, StartSession, clock, user, run, messages
  <2>6. CASE \E m \in Message : Cancel(m)
    BY <2>6 DEF IInv, TypeOK, Cancel, clock, user, run
  <2>7. CASE \E l \in Loop : SessionMoves(l)
    BY <2>7, BoundAssumption DEF IInv, TypeOK, SessionMoves, clock, run, messages, SessionState
  <2> QED
    BY <2>1, <2>2, <2>3, <2>4, <2>5, <2>6, <2>7
<1>2. /\ UNCHANGED <<now, row, edit, tickNow, due, at, ran>>
      /\ pc' = "start" => pc = "start"
  BY DEF Tick, Claim, Send, AskGitHub, StartSession, Cancel, SessionMoves, clock, user, run
<1>3. Order'
  BY <1>2 DEF IInv, Order
<1> QED
  BY <1>1, <1>3 DEF IInv

LEMMA SelectStep ==
  ASSUME IInv, SelectLoops
  PROVE  IInv'
<1> DEFINE found == {[loop |-> l, row |-> row[l]] : l \in {k \in Loop : Due(k)}}
<1>1. UNCHANGED <<clock, row, session, user, messages, ran, crashes>> /\ pc = "messages"
  BY DEF SelectLoops
<1>2. CASE \E l \in Loop : Due(l)
  <2>1. due' = found /\ tickNow' = now /\ pc' = "loops" /\ UNCHANGED at
    BY <1>2 DEF SelectLoops
  <2>2. found # {}
    BY <1>2
  <2>3. \A d \in found : d.loop \in Loop /\ d.row = row[d.loop] /\ Due(d.loop)
                         /\ d \in [loop : Loop, row : Row]
    BY DEF IInv, TypeOK
  <2>4. \A d, e \in found : d.loop = e.loop => d = e
    OBVIOUS
  <2>5. \A d \in found : d.row.next \in Nat /\ d.row.next <= now /\ d.row.next > ran[d.loop]
    <3> SUFFICES ASSUME NEW d \in found
        PROVE d.row.next \in Nat /\ d.row.next <= now /\ d.row.next > ran[d.loop]
      OBVIOUS
    <3>1. d.loop \in Loop /\ d.row = row[d.loop] /\ Due(d.loop)
      BY <2>3
    <3>2. d.row.next # None /\ d.row.next <= now
      BY <3>1 DEF Due
    <3>3. d.row.next \in Int /\ ran[d.loop] \in Int
      BY <3>1, RowFields DEF IInv, TypeOK
    <3>4. d.row.next > ran[d.loop]
      BY <3>1, <3>2 DEF IInv, Order, Later
    <3>5. ran[d.loop] >= -1
      BY <3>1 DEF IInv, Order
    <3> QED
      BY <3>2, <3>3, <3>4, <3>5 DEF IInv, TypeOK, Order
  <2>6. TypeOK'
    BY <1>1, <2>1, <2>2, <2>3, <2>4 DEF IInv, TypeOK, clock, user, messages
  <2>7. Order'
    BY <1>1, <2>1, <2>5 DEF IInv, TypeOK, Order, clock, user
  <2> QED
    BY <2>6, <2>7 DEF IInv
<1>3. CASE ~(\E l \in Loop : Due(l))
  <2>1. Over
    BY <1>3 DEF SelectLoops
  <2>2. TypeOK'
    BY <1>1, <2>1 DEF IInv, TypeOK, Over, clock, user, messages
  <2>3. Order'
    BY <1>1, <2>1 DEF IInv, TypeOK, Order, Over, clock, user
  <2> QED
    BY <2>2, <2>3 DEF IInv
<1> QED
  BY <1>2, <1>3

LEMMA RearmStep ==
  ASSUME IInv, Rearm
  PROVE  IInv'
<1> DEFINE d == Earliest  l == d.loop  n == NextRun(zone, d.row.sched, tickNow)
<1>1. d \in due /\ l \in Loop /\ d.row \in Row
  BY EarliestRead DEF IInv, TypeOK, Rearm
<1>2. n \in Int /\ Later(n, tickNow)
  BY <1>1, NextRunLater, LoopAssumption DEF IInv, TypeOK, Later, Row
<1>3. CASE row[l].there
  <2>1. row' = [row EXCEPT ![l].next = n] /\ at' = l /\ pc' = "start"
        /\ UNCHANGED <<tickNow, due, clock, session, user, messages, ran, crashes>>
    BY <1>3 DEF Rearm
  <2>2. TypeOK'
    BY <1>1, <1>2, <2>1, NameAssumption DEF IInv, TypeOK, clock, user, messages, Row
  <2>3. Order'
    <3>1. \A e \in due : e.row.next > ran[e.loop]
      BY NameAssumption DEF IInv, TypeOK, Order, Rearm
    <3>2. ran[l] <= tickNow
      BY <1>1, <3>1 DEF IInv, TypeOK, Order
    <3>4. row'[l].next = n /\ \A k \in Loop \ {l} : row'[k] = row[k]
      BY <1>1, <2>1, RowFields DEF IInv, TypeOK, Row
    <3>5. \A k \in Loop : Later(row'[k].next, ran[k])
      BY <1>1, <1>2, <3>2, <3>4 DEF IInv, TypeOK, Order, Later
    <3>3. \A e \in due : e.loop = l => Later(row'[l].next, e.row.next)
      BY <1>1, <1>2, <2>1 DEF IInv, TypeOK, Order, Later, Row
    <3> QED
      BY <2>1, <3>1, <3>3, <3>5 DEF IInv, Order, clock, user
  <2> QED
    BY <2>2, <2>3 DEF IInv
<1>4. CASE ~row[l].there
  <2>1. Over /\ UNCHANGED <<row, clock, session, user, messages, ran, crashes>>
    BY <1>4 DEF Rearm
  <2>2. TypeOK'
    BY <2>1 DEF IInv, TypeOK, Rearm, Over, clock, user, messages
  <2>3. Order'
    BY <2>1 DEF IInv, TypeOK, Order, Over, clock, user
  <2> QED
    BY <2>2, <2>3 DEF IInv
<1> QED
  BY <1>3, <1>4

LEMMA StartStep ==
  ASSUME IInv, Start
  PROVE  IInv'
<1>1. at \in Loop /\ [loop |-> at, row |-> Read] \in due /\ Read \in Row
  BY ReadRead DEF IInv, TypeOK, Start
<1>2. Read.next \in Nat /\ Read.next <= tickNow /\ Later(row[at].next, Read.next)
  BY <1>1 DEF IInv, TypeOK, Order, Start
<1>3. TypeOK'
  BY <1>1, <1>2 DEF IInv, TypeOK, Start, clock, user, messages, run
<1>4. Order'
  <2>1. \A l \in Loop : -1 <= ran'[l] /\ ran'[l] <= now /\ Later(row[l].next, ran'[l])
    BY <1>1, <1>2 DEF IInv, TypeOK, Order, Start
  <2>2. \A d \in due : d.loop # at => d.row.next > ran'[d.loop]
    BY <1>1 DEF IInv, TypeOK, Order, Start
  <2> QED
    BY <2>1, <2>2 DEF IInv, Order, Start, clock, user, run
<1> QED
  BY <1>3, <1>4 DEF IInv

LEMMA DoneStep ==
  ASSUME IInv, Patch \/ PatchError
  PROVE  IInv'
<1>1. at \in Loop /\ Read \in Row
  BY ReadRead DEF IInv, TypeOK, Patch, PatchError
<1>2. Done \/ Over
  BY DEF Patch, PatchError
<1>3. row' \in [Loop -> Row] /\ \A l \in Loop : row'[l].next = row[l].next
  <2>1. row[at] \in Row
    BY <1>1 DEF IInv, TypeOK
  <2>2. (row[at].tied \/ Read.single) \in BOOLEAN
    BY <1>1, <2>1, RowFields, Zenon
  <2> DEFINE r == [row[at] EXCEPT !.tied = row[at].tied \/ Read.single]
  <2>3. r \in Row /\ r.next = row[at].next
    BY <2>1, <2>2, RowFields, RowChanged, ZenonT(60)
  <2>4. row' = row \/ row' = [row EXCEPT ![at] = r]
    BY DEF Patch, PatchError
  <2> HIDE DEF r
  <2>5. row \in [Loop -> Row]
    BY DEF IInv, TypeOK
  <2> QED
    BY <1>1, <2>3, <2>4, <2>5
<1>7. session' \in [Loop -> SessionState] /\ UNCHANGED <<clock, user, messages, ran, crashes>>
  BY <1>1 DEF IInv, TypeOK, Patch, PatchError, SessionState
<1>4. msg = NoMessage
  BY DEF IInv, TypeOK, Patch, PatchError
<1>5. TypeOK'
  BY <1>1, <1>2, <1>3, <1>4, <1>7 DEF IInv, TypeOK, Done, Over, clock, user, messages
<1>6. Order'
  BY <1>2, <1>3, <1>7 DEF IInv, TypeOK, Order, Done, Over, clock, user
<1> QED
  BY <1>5, <1>6 DEF IInv

LEMMA EditStep ==
  ASSUME IInv, NEW l \in Loop, EditRead(l)
  PROVE  IInv'
<1>1. \A r \in Row : ArmedBy(r) \in Int /\ Later(ArmedBy(r), now)
  BY NextRunLater, LoopAssumption DEF IInv, TypeOK, ArmedBy, Later, None, Row
<1>2. row[l] \in Row
  BY DEF IInv, TypeOK
<1> DEFINE Ok(e) == /\ e \in [loop : Loop, what : {"toggle", "schedule", "single"}, row : Row]
                    /\ e # NoEdit
                    /\ e.what # "single" => Later(e.row.next, now)
<1>3. \A w \in {"toggle", "schedule", "single"}, r \in Row :
         (w # "single" => Later(r.next, now)) => Ok([loop |-> l, what |-> w, row |-> r])
  BY DEF NoEdit
<1>4. Ok(edit')
  <2> DEFINE r == row[l]
  <2>1. \A q \in Row : Armed(q) \in Row /\ Later(Armed(q).next, now)
    BY <1>1 DEF Armed, Row
  <2>2. CASE edit' = [loop |-> l, what |-> "toggle", row |-> Armed([r EXCEPT !.on = ~r.on])]
    <3>1. (~r.on) \in BOOLEAN
      BY Zenon
    <3>2. [r EXCEPT !.on = ~r.on] \in Row
      BY <1>2, <3>1 DEF Row
    <3> QED
      BY <1>3, <2>1, <2>2, <3>2
  <2>3. CASE \E s \in Schedules \ {r.sched} :
           edit' = [loop |-> l, what |-> "schedule", row |-> Armed([r EXCEPT !.sched = s])]
    <3>1. \A s \in Schedules : [r EXCEPT !.sched = s] \in Row
      BY <1>2 DEF Row
    <3> QED
      BY <1>3, <2>1, <2>3, <3>1
  <2>4. CASE edit' = [loop |-> l, what |-> "single",
                   row |-> [r EXCEPT !.single = ~r.single, !.tied = FALSE,
                                     !.own = r.own /\ ~r.single]]
    <3>1. (~r.single) \in BOOLEAN /\ (r.own /\ ~r.single) \in BOOLEAN
      BY Zenon
    <3>2. [r EXCEPT !.single = ~r.single, !.tied = FALSE, !.own = r.own /\ ~r.single] \in Row
      BY <1>2, <3>1 DEF Row
    <3> QED
      BY <1>3, <2>4, <3>2
  <2>5. \/ edit' = [loop |-> l, what |-> "toggle", row |-> Armed([r EXCEPT !.on = ~r.on])]
        \/ \E s \in Schedules \ {r.sched} :
             edit' = [loop |-> l, what |-> "schedule", row |-> Armed([r EXCEPT !.sched = s])]
        \/ edit' = [loop |-> l, what |-> "single",
                    row |-> [r EXCEPT !.single = ~r.single, !.tied = FALSE,
                                      !.own = r.own /\ ~r.single]]
    BY Zenon DEF EditRead
  <2> HIDE DEF Ok
  <2> QED
    BY <2>2, <2>3, <2>4, <2>5, Zenon
<1>5. TypeOK'
  BY <1>4, BoundAssumption DEF IInv, TypeOK, EditRead, Edit, clock, messages, run
<1>6. Order'
  BY <1>4 DEF IInv, Order, EditRead, clock, run
<1> QED
  BY <1>5, <1>6 DEF IInv

LEMMA WriteStep ==
  ASSUME IInv, EditWrite
  PROVE  IInv'
<1>1. edit.loop \in Loop /\ edit.row \in Row
  BY DEF IInv, TypeOK, EditWrite, Edit
<1>2. row' \in [Loop -> Row]
  <2>1. row[edit.loop] \in Row
    BY <1>1 DEF IInv, TypeOK
  <2>2. Written(row[edit.loop]) \in Row
    <3> DEFINE r == row[edit.loop]  q == edit.row
    <3>1. /\ [r EXCEPT !.on = q.on, !.next = q.next] \in Row
          /\ [r EXCEPT !.sched = q.sched, !.next = q.next] \in Row
          /\ [r EXCEPT !.single = q.single, !.tied = FALSE, !.own = q.own] \in Row
      <4>1. r \in Row /\ q \in Row
        BY <1>1, <2>1
      <4> QED
        BY <4>1 DEF Row
    <3>2. CASE edit.what = "toggle"
      BY <3>1, <3>2 DEF Written
    <3>3. CASE edit.what = "schedule"
      BY <3>1, <3>3 DEF Written
    <3>4. CASE edit.what # "toggle" /\ edit.what # "schedule"
      BY <3>1, <3>4 DEF Written
    <3> QED
      BY <3>2, <3>3, <3>4
  <2> QED
    BY <1>1, <2>1, <2>2 DEF IInv, TypeOK, EditWrite
<1>3. \A l \in Loop : \/ row'[l].next = row[l].next
                      \/ row'[l].next \in Int /\ Later(row'[l].next, now)
  <2> DEFINE r == row[edit.loop]  q == edit.row
  <2>1. r \in Row /\ q \in Row /\ row \in [Loop -> Row] /\ edit # NoEdit
    BY <1>1 DEF IInv, TypeOK, EditWrite
  <2>2. \/ Written(r).next = r.next
        \/ edit.what # "single" /\ Written(r).next = q.next
    <3>1. CASE edit.what = "toggle"
      BY <2>1, <3>1 DEF Written, Row
    <3>2. CASE edit.what = "schedule"
      BY <2>1, <3>2 DEF Written, Row
    <3>3. CASE edit.what # "toggle" /\ edit.what # "schedule"
      <4>1. Written(r) = [r EXCEPT !.single = q.single, !.tied = FALSE, !.own = q.own]
        BY <3>3 DEF Written
      <4> QED
        BY <2>1, <4>1 DEF Row
    <3> QED
      BY <3>1, <3>2, <3>3
  <2>3. edit.what # "single" => q.next \in Int /\ Later(q.next, now)
    BY <2>1 DEF IInv, Order, Row
  <2>4. row' = [row EXCEPT ![edit.loop] = IF r.there THEN Written(r) ELSE r]
    BY Zenon DEF EditWrite
  <2>5. row' = row \/ row' = [row EXCEPT ![edit.loop] = Written(r)]
    <3>1. [row EXCEPT ![edit.loop] = r] = row
      BY <2>1
    <3> QED
      BY <2>4, <3>1
  <2> HIDE DEF q
  <2>6. \A l \in Loop : row'[l] = row[l] \/ (row[l] = r /\ row'[l] = Written(r))
    <3> DEFINE w == Written(r)
    <3> HIDE DEF w
    <3>1. row' = row \/ row' = [row EXCEPT ![edit.loop] = w]
      BY <2>5 DEF w
    <3>2. \A l \in Loop : row'[l] = row[l] \/ (row[l] = r /\ row'[l] = w)
      BY <1>1, <2>1, <3>1
    <3> QED
      BY <3>2 DEF w
  <2> QED
    BY <2>2, <2>3, <2>6
<1>4. TypeOK'
  BY <1>2 DEF IInv, TypeOK, EditWrite, clock, messages, run, Edit
<1>5. Order'
  <2>1. \A l \in Loop : Later(row'[l].next, ran[l])
    BY <1>3 DEF IInv, TypeOK, Order, Later
  <2>2. \A d \in due : pc = "start" /\ d.loop = at => Later(row'[at].next, d.row.next)
    BY <1>3 DEF IInv, TypeOK, Order, Later
  <2> QED
    BY <2>1, <2>2 DEF IInv, Order, EditWrite, clock, run
<1> QED
  BY <1>4, <1>5 DEF IInv

LEMMA RemoveStep ==
  ASSUME IInv, NEW l \in Loop, RemoveLoop(l)
  PROVE  IInv'
<1>1. row' \in [Loop -> Row] /\ \A k \in Loop : row'[k].next = row[k].next
  <2> DEFINE r == [row[l] EXCEPT !.there = FALSE]
  <2>1. r \in Row /\ r.next = row[l].next
    <3>1. row[l] \in Row
      BY DEF IInv, TypeOK
    <3> QED
      BY <3>1, RowFields, RowChanged
  <2>2. row' = [row EXCEPT ![l] = r]
    BY DEF RemoveLoop
  <2> QED
    BY <2>1, <2>2 DEF IInv, TypeOK
<1>2. TypeOK'
  BY <1>1, BoundAssumption DEF IInv, TypeOK, RemoveLoop, clock, messages, run
<1>3. Order'
  BY <1>1 DEF IInv, TypeOK, Order, RemoveLoop, clock, run
<1> QED
  BY <1>2, <1>3 DEF IInv

LEMMA ClockStep ==
  ASSUME IInv, Clock
  PROVE  IInv'
<1>1. TypeOK'
  BY DEF IInv, TypeOK, Clock, user, messages, run
<1>2. Order'
  BY DEF IInv, TypeOK, Order, Clock, user, run
<1> QED
  BY <1>1, <1>2 DEF IInv

LEMMA CrashStep ==
  ASSUME IInv, Crash
  PROVE  IInv'
<1>1. TypeOK'
  BY BoundAssumption DEF IInv, TypeOK, Crash, Over, clock, Edit
<1>2. Order'
  BY DEF IInv, TypeOK, Order, Crash, Over, clock
<1> QED
  BY <1>1, <1>2 DEF IInv

LEMMA Inductive == IInv /\ [Next]_vars => IInv'
<1> SUFFICES ASSUME IInv, [Next]_vars PROVE IInv'
  OBVIOUS
<1>1. CASE UNCHANGED vars
  BY <1>1 DEF IInv, TypeOK, Order, vars, clock, user, messages, run
<1>2. CASE Next
  BY <1>2, QuietStep, SelectStep, RearmStep, StartStep, DoneStep, EditStep, WriteStep,
     RemoveStep, ClockStep, CrashStep, Zenon
  DEF Next, TickGoesOn
<1> QED
  BY <1>1, <1>2

-----------------------------------------------------------------------------
\* The variables have their types, in every state the scheduler can be in.
THEOREM TypeCorrect == Spec => []TypeOK
<1>1. IInv => TypeOK
  BY DEF IInv
<1> QED
  BY <1>1, InitHolds, Inductive, PTL DEF Spec

\* However a loop is edited, whatever fails and however often the server is
\* restarted, an occurrence (next_run_at) of a loop starts one run: runLoop arms
\* the loop for a time after the tick before it does anything else.
THEOREM OccurrenceRunsOnce == Spec => []RunOnce
<1>1. IInv => RunOnce
  <2> SUFFICES ASSUME IInv, pc = "start" PROVE Read.next > ran[at]
    BY DEF RunOnce
  <2>1. [loop |-> at, row |-> Read] \in due
    BY ReadRead DEF IInv, TypeOK
  <2> QED
    BY <2>1 DEF IInv, Order
<1> QED
  BY <1>1, InitHolds, Inductive, PTL DEF Spec

-----------------------------------------------------------------------------
(* A message is in one place: in the queue, claimed, sent, cancelled or lost.  *)

OnePlace ==
  /\ sent \cap cancelled = {} /\ queue \cap sent = {} /\ queue \cap cancelled = {}
  /\ msg # NoMessage => msg \notin queue \cup sent \cup cancelled

\* A message that its user has cancelled is not sent, and none is sent twice:
\* queued-messages.runDue sends only the message whose row it has deleted itself.
THEOREM CancelledIsNotSent == Spec => []CancelledNotSent
<1>1. Init => OnePlace
  BY DEF Init, OnePlace
<1>2. TypeOK /\ OnePlace /\ [Next]_vars => OnePlace'
  <2> SUFFICES ASSUME TypeOK, OnePlace, [Next]_vars PROVE OnePlace'
    OBVIOUS
  <2>1. CASE Claim
    BY <2>1 DEF OnePlace, Claim
  <2>2. CASE Send
    BY <2>2 DEF TypeOK, OnePlace, Send
  <2>3. CASE \E m \in Message : Cancel(m)
    BY <2>3 DEF OnePlace, Cancel
  <2>4. CASE Crash
    BY <2>4 DEF OnePlace, Crash
  <2>5. CASE UNCHANGED <<queue, sent, cancelled, msg>>
    BY <2>5 DEF OnePlace
  <2>6. Claim \/ Send \/ (\E m \in Message : Cancel(m)) \/ Crash
        \/ UNCHANGED <<queue, sent, cancelled, msg>>
    BY DEF Next, TickGoesOn, Clock, Tick, SelectLoops, Rearm, Start, AskGitHub, StartSession,
      Patch, PatchError, EditRead, EditWrite, RemoveLoop, SessionMoves, vars, messages
  <2> QED
    BY <2>1, <2>2, <2>3, <2>4, <2>5, <2>6
<1>3. OnePlace => CancelledNotSent
  BY DEF OnePlace, CancelledNotSent
<1> QED
  BY <1>1, <1>2, <1>3, TypeCorrect, PTL DEF Spec

-----------------------------------------------------------------------------
\* On regular days computeNextRun returns the first occurrence after any instant,
\* in every zone whose offset is less than a day and changes by at most a day.
THEOREM NextIsTheFirst ==
  ASSUME \A z \in Zones : Earthly(z)
  PROVE  Spec => []NextIsFirst
<1>1. TypeOK => NextIsFirst
  <2> SUFFICES ASSUME TypeOK, NEW s \in Schedules, s.type # "interval", Regular(zone, s, now)
               PROVE  NextRun(zone, s, now) = First(zone, s, now)
    BY DEF NextIsFirst, Regular
  <2>1. Earthly(zone) /\ s \in Schedule /\ now \in Nat
    BY LoopAssumption DEF TypeOK
  <2> QED
    BY <2>1, NextRunIsFirst
<1> QED
  BY <1>1, TypeCorrect, PTL

-----------------------------------------------------------------------------
(* What is on is armed, also in an edit that is not written: an edit of the      *)
(* schedule knows whether its loop is on, for there is no other edit meanwhile.  *)

RowArmed(r) == r.on => r.next # None

EditArmed ==
  edit # NoEdit =>
    /\ edit.what # "single" => RowArmed(edit.row)
    /\ edit.what = "schedule" => edit.row.on = row[edit.loop].on

ArmedInv == ArmedWhenOn /\ EditArmed

\* Where a loop goes on: a weekly one stops at a time that the clock skips.
AlwaysNext ==
  \A z \in Zones, s \in Schedules :
    /\ Earthly(z)
    /\ s.type = "weekly" => s.days # {} /\ z.before = z.after

LEMMA ComputedNext ==
  ASSUME AlwaysNext, NEW z \in Zones, NEW s \in Schedules, NEW from \in Nat
  PROVE  NextRun(z, s, from) # None
  BY NextRunExists, LoopAssumption DEF AlwaysNext

LEMMA ArmedInit ==
  ASSUME AlwaysNext, Init
  PROVE  ArmedInv
<1>1. zone \in Zones /\ edit = NoEdit /\ 0 \in Nat
  BY DEF Init
<1>2. PICK w \in Worlds, s \in [Loop -> Schedules], tied \in BOOLEAN :
        row = [l \in Loop |->
             [there |-> l \in w, on |-> TRUE, next |-> NextRun(zone, s[l], 0),
              sched |-> s[l], single |-> tied, tied |-> tied, own |-> tied]]
  BY DEF Init
<1>3. \A l \in Loop : row[l].next = NextRun(zone, s[l], 0) /\ s[l] \in Schedules
  BY <1>2
<1>4. \A l \in Loop : row[l].next # None
  BY <1>1, <1>3, ComputedNext
<1> QED
  BY <1>1, <1>4 DEF ArmedInv, ArmedWhenOn, EditArmed

\* A step that leaves the rows' switches alone and gives no row the time None
LEMMA ArmedKept ==
  ASSUME TypeOK, ArmedInv, row' \in [Loop -> Row], edit' = edit,
         \A l \in Loop : /\ row'[l].on = row[l].on
                         /\ row'[l].next = row[l].next \/ row'[l].next # None
  PROVE  ArmedInv'
<1>1. ArmedWhenOn'
  BY DEF ArmedInv, ArmedWhenOn
<1>2. edit # NoEdit => edit.loop \in Loop
  BY DEF TypeOK, Edit
<1> QED
  BY <1>1, <1>2 DEF ArmedInv, EditArmed, RowArmed

LEMMA ArmedRearm ==
  ASSUME AlwaysNext, IInv, ArmedInv, Rearm
  PROVE  ArmedInv'
<1> DEFINE d == Earliest  l == d.loop  n == NextRun(zone, d.row.sched, tickNow)
<1>1. d \in due /\ l \in Loop /\ d.row \in Row
  BY EarliestRead DEF IInv, TypeOK, Rearm
<1>2. n # None /\ n \in Int
  <2>1. d.row.sched \in Schedules /\ tickNow \in Nat /\ zone \in Zones
    BY <1>1 DEF IInv, TypeOK, Row
  <2> QED
    BY <2>1, ComputedNext, NextRunLater, LoopAssumption
<1>3. row' = row \/ row' = [row EXCEPT ![l].next = n]
  BY DEF Rearm
<1>4. row[l] \in Row /\ [row[l] EXCEPT !.next = n] \in Row
  BY <1>1, <1>2 DEF IInv, TypeOK, Row
<1>5. row' \in [Loop -> Row]
      /\ \A k \in Loop : /\ row'[k].on = row[k].on
                         /\ row'[k].next = row[k].next \/ row'[k].next # None
  <2> HIDE DEF d, l, n
  <2>1. [row[l] EXCEPT !.next = n].next = n /\ [row[l] EXCEPT !.next = n].on = row[l].on
    BY <1>4 DEF Row
  <2> QED
    BY <1>1, <1>2, <1>3, <1>4, <2>1 DEF IInv, TypeOK
<1>6. edit' = edit
  BY DEF Rearm, user
<1> QED
  BY <1>5, <1>6, ArmedKept DEF IInv

LEMMA ArmedPatch ==
  ASSUME IInv, ArmedInv, Patch
  PROVE  ArmedInv'
<1>1. at \in Loop /\ Read \in Row
  BY ReadRead DEF IInv, TypeOK, Patch
<1>2. row[at] \in Row
  BY <1>1 DEF IInv, TypeOK
<1>3. (row[at].tied \/ Read.single) \in BOOLEAN
  BY <1>1, <1>2, RowFields, Zenon
<1> DEFINE r == [row[at] EXCEPT !.tied = row[at].tied \/ Read.single]
<1>4. r \in Row /\ r.next = row[at].next
  BY <1>2, <1>3, RowFields, RowChanged, ZenonT(60)
<1>5. r.on = row[at].on
  BY <1>2 DEF Row
<1>6. row' = row \/ row' = [row EXCEPT ![at] = r]
  BY DEF Patch
<1>7. edit' = edit
  BY DEF Patch, user
<1> HIDE DEF r
<1>8. row' \in [Loop -> Row]
      /\ \A k \in Loop : row'[k].on = row[k].on /\ row'[k].next = row[k].next
  BY <1>1, <1>4, <1>5, <1>6 DEF IInv, TypeOK
<1> QED
  BY <1>7, <1>8, ArmedKept DEF IInv

LEMMA ArmedRead ==
  ASSUME AlwaysNext, IInv, ArmedInv, NEW l \in Loop, EditRead(l)
  PROVE  ArmedInv'
<1> DEFINE r == row[l]
<1>1. row' = row /\ edit = NoEdit /\ r \in Row
  BY DEF IInv, TypeOK, EditRead
<1>2. ASSUME NEW q \in Row
      PROVE  Armed(q) \in Row /\ RowArmed(Armed(q)) /\ Armed(q).on = q.on
  <2>1. zone \in Zones /\ now \in Nat /\ q.sched \in Schedules
    BY DEF IInv, TypeOK, Row
  <2>2. NextRun(zone, q.sched, now) \in Int /\ NextRun(zone, q.sched, now) # None
    BY <2>1, ComputedNext, NextRunLater, LoopAssumption
  <2>3. ArmedBy(q) \in Int /\ (q.on => ArmedBy(q) # None)
    BY <2>2 DEF ArmedBy, None
  <2> QED
    BY <1>2, <2>3 DEF Armed, Row, RowArmed
<1>3. EditArmed'
  <2>1. CASE edit' = [loop |-> l, what |-> "toggle", row |-> Armed([r EXCEPT !.on = ~r.on])]
    <3>1. (~r.on) \in BOOLEAN
      BY Zenon
    <3>2. [r EXCEPT !.on = ~r.on] \in Row
      BY <1>1, <3>1 DEF Row
    <3>3. RowArmed(Armed([r EXCEPT !.on = ~r.on]))
      BY <1>2, <3>2
    <3>4. edit'.what = "toggle" /\ edit'.row = Armed([r EXCEPT !.on = ~r.on])
      BY <2>1
    <3> QED
      BY <3>3, <3>4 DEF EditArmed
  <2>2. CASE \E s \in Schedules \ {r.sched} :
           edit' = [loop |-> l, what |-> "schedule", row |-> Armed([r EXCEPT !.sched = s])]
    <3>1. PICK s \in Schedules : edit' = [loop |-> l, what |-> "schedule",
                                          row |-> Armed([r EXCEPT !.sched = s])]
      BY <2>2
    <3> DEFINE q == [r EXCEPT !.sched = s]
    <3>2. q \in Row /\ q.on = r.on
      BY <1>1 DEF Row
    <3>3. RowArmed(Armed(q)) /\ Armed(q).on = r.on
      BY <1>2, <3>2
    <3>4. edit'.loop = l /\ edit'.row = Armed(q)
      BY <3>1
    <3> HIDE DEF q
    <3> QED
      BY <1>1, <3>3, <3>4 DEF EditArmed
  <2>3. CASE edit' = [loop |-> l, what |-> "single",
                   row |-> [r EXCEPT !.single = ~r.single, !.tied = FALSE,
                                     !.own = r.own /\ ~r.single]]
    BY <2>3 DEF EditArmed
  <2>4. \/ edit' = [loop |-> l, what |-> "toggle", row |-> Armed([r EXCEPT !.on = ~r.on])]
        \/ \E s \in Schedules \ {r.sched} :
             edit' = [loop |-> l, what |-> "schedule", row |-> Armed([r EXCEPT !.sched = s])]
        \/ edit' = [loop |-> l, what |-> "single",
                    row |-> [r EXCEPT !.single = ~r.single, !.tied = FALSE,
                                      !.own = r.own /\ ~r.single]]
    BY Zenon DEF EditRead
  <2> QED
    BY <2>1, <2>2, <2>3, <2>4, Zenon
<1> QED
  BY <1>1, <1>3 DEF ArmedInv, ArmedWhenOn

LEMMA ArmedWrite ==
  ASSUME IInv, ArmedInv, EditWrite
  PROVE  ArmedInv'
<1> DEFINE r == row[edit.loop]  q == edit.row
<1>1. edit.loop \in Loop /\ q \in Row /\ r \in Row /\ edit' = NoEdit
      /\ edit.what \in {"toggle", "schedule", "single"}
  BY DEF IInv, TypeOK, EditWrite, Edit
<1>2. RowArmed(r)
  BY <1>1 DEF ArmedInv, ArmedWhenOn, RowArmed
<1>3. RowArmed(Written(r))
  <2>1. edit # NoEdit
    BY DEF EditWrite
  <2>2. CASE edit.what = "toggle"
    <3>1. Written(r) = [r EXCEPT !.on = q.on, !.next = q.next]
      BY <2>2 DEF Written
    <3>2. Written(r).on = q.on /\ Written(r).next = q.next
      BY <1>1, <3>1 DEF Row
    <3> QED
      BY <2>1, <2>2, <3>2 DEF ArmedInv, EditArmed, RowArmed
  <2>3. CASE edit.what = "schedule"
    <3>1. Written(r) = [r EXCEPT !.sched = q.sched, !.next = q.next]
      BY <2>3 DEF Written
    <3>2. Written(r).on = r.on /\ Written(r).next = q.next
      BY <1>1, <3>1 DEF Row
    <3> QED
      BY <2>1, <2>3, <3>2 DEF ArmedInv, EditArmed, RowArmed
  <2>4. CASE edit.what = "single"
    <3>1. Written(r) = [r EXCEPT !.single = q.single, !.tied = FALSE, !.own = q.own]
      BY <2>4 DEF Written
    <3>2. Written(r).on = r.on /\ Written(r).next = r.next
      BY <1>1, <3>1 DEF Row
    <3> QED
      BY <1>2, <3>2 DEF RowArmed
  <2> QED
    BY <1>1, <2>2, <2>3, <2>4
<1>4. row' = row \/ row' = [row EXCEPT ![edit.loop] = Written(r)]
  <2>1. row' = [row EXCEPT ![edit.loop] = IF r.there THEN Written(r) ELSE r]
    BY Zenon DEF EditWrite
  <2>2. [row EXCEPT ![edit.loop] = r] = row
    BY DEF IInv, TypeOK
  <2> QED
    BY <2>1, <2>2
<1>5. \A l \in Loop : RowArmed(row'[l])
  <2> HIDE DEF r
  <2>1. \A l \in Loop : RowArmed(row[l])
    BY DEF ArmedInv, ArmedWhenOn, RowArmed
  <2> QED
    BY <1>1, <1>3, <1>4, <2>1 DEF IInv, TypeOK
<1> QED
  BY <1>1, <1>5 DEF ArmedInv, ArmedWhenOn, EditArmed, RowArmed

LEMMA ArmedRemove ==
  ASSUME IInv, ArmedInv, NEW l \in Loop, RemoveLoop(l)
  PROVE  ArmedInv'
<1> DEFINE r == [row[l] EXCEPT !.there = FALSE]
<1>1. row[l] \in Row /\ edit' = edit /\ row' = [row EXCEPT ![l] = r]
  BY DEF IInv, TypeOK, RemoveLoop
<1>2. r \in Row /\ r.next = row[l].next
  <2>1. row[l] \in Row
    BY <1>1
  <2> QED
    BY <2>1, RowFields, RowChanged
<1>3. r.on = row[l].on
  BY <1>1 DEF Row
<1> HIDE DEF r
<1>4. row' \in [Loop -> Row]
      /\ \A k \in Loop : row'[k].on = row[k].on /\ row'[k].next = row[k].next
  BY <1>1, <1>2, <1>3 DEF IInv, TypeOK
<1> QED
  BY <1>1, <1>4, ArmedKept DEF IInv

\* A loop that is on has a next run, however it is edited between two writes of a
\* tick and whenever the server goes down: if its schedule always has one.
THEOREM OnIsArmed ==
  ASSUME AlwaysNext
  PROVE  Spec => []ArmedWhenOn
<1>1. Init => ArmedInv
  BY ArmedInit
<1>2. IInv /\ ArmedInv /\ [Next]_vars => ArmedInv'
  <2> SUFFICES ASSUME IInv, ArmedInv, [Next]_vars PROVE ArmedInv'
    OBVIOUS
  <2>1. CASE UNCHANGED <<row, edit>>
    BY <2>1 DEF ArmedInv, ArmedWhenOn, EditArmed
  <2>2. CASE Crash
    BY <2>2 DEF ArmedInv, ArmedWhenOn, EditArmed, Crash
  <2>3. \/ UNCHANGED <<row, edit>> \/ Rearm \/ Patch \/ EditWrite \/ Crash
        \/ \E l \in Loop : EditRead(l) \/ RemoveLoop(l)
    BY DEF Next, TickGoesOn, Clock, Tick, SelectLoops, Claim, Send, Start, AskGitHub,
      StartSession, PatchError, SessionMoves, Cancel, vars, user
  <2> QED
    BY <2>1, <2>2, <2>3, ArmedRearm, ArmedPatch, ArmedRead, ArmedWrite, ArmedRemove
<1>3. ArmedInv => ArmedWhenOn
  BY DEF ArmedInv
<1>4. Spec => []IInv
  BY InitHolds, Inductive, PTL DEF Spec
<1> QED
  BY <1>1, <1>2, <1>3, <1>4, PTL DEF Spec
=============================================================================
