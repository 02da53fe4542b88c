------------------------------ MODULE LoopScheduler ------------------------------
(***************************************************************************)
(* The tick of loop-scheduler.js: scheduled messages that are due are sent *)
(* (queued-messages.service.js), then loops that are due run one after the *)
(* other (loops.service.js), while users edit, disable and remove loops,   *)
(* cancel messages and work in the sessions, and the server may restart.   *)
(*                                                                         *)
(* A tick reads the rows that are due once and goes on with what it has    *)
(* read; starting a session takes as long as it takes.                     *)
(***************************************************************************)
EXTENDS LoopSchedule, FiniteSets

CONSTANTS
  Loop, Message,
  SendAt,        \* send_at of the messages
  Batch,         \* SCHEDULED_DISPATCH_BATCH
  Schedules,     \* the schedules loops may have
  Zones,         \* the time zones they may be in
  Worlds,        \* sets of loops and messages that there are at the beginning
  NoLoop, NoMessage,
  MaxTime,       \* the clock stops here
  MaxEvents,     \* how many events, removals and changes of a session there are
  MaxCrashes     \* how often the server goes down

ASSUME MessageAssumption == SendAt \in [Message -> Nat] /\ Batch \in Nat \ {0}
ASSUME LoopAssumption == Schedules \subseteq Schedule /\ Zones \subseteq Zone
ASSUME WorldAssumption == Worlds \subseteq SUBSET (Loop \cup Message)
ASSUME NameAssumption == NoLoop \notin Loop /\ NoMessage \notin Message
ASSUME BoundAssumption == MaxTime \in Nat /\ MaxEvents \in Nat /\ MaxCrashes \in Nat

NoEdit == [what |-> "none"]

VARIABLES
  now, zone,
  row,          \* the rows of loops
  session,      \* per loop: the session it is tied to
  edit,         \* a patch by a user, between its hook and its write
  events,
  queue,        \* queued_messages of kind scheduled
  sent,         \* messages handed to messages.create
  cancelled,    \* messages their user has removed
  pc,           \* the tick
  tickNow,      \* the time loops.runDue was given
  batch, msg,   \* messages read as due, the one that was claimed
  due,          \* rows read as due and not done: the loop, the row as read
  at,           \* the loop that runs
  ran,          \* per loop: the occurrence (next_run_at) that ran last
  crashes

clock    == <<now, zone>>
messages == <<queue, sent, cancelled, batch, msg>>
user     == <<edit, events>>
run      == <<tickNow, due, at>>
vars     == <<clock, row, session, user, messages, pc, run, ran, crashes>>

\* there: the row exists; on: enabled; single: single_session; tied: session_id
\* is set; own: created_from_session
Row == [there : BOOLEAN, on : BOOLEAN, next : Int, sched : Schedules,
        single : BOOLEAN, tied : BOOLEAN, own : BOOLEAN]

\* free: nothing goes on in it; closed: the same, and its pull request is closed
\* or merged; busy: a turn; settling: provisioning or archiving
SessionState == {"free", "closed", "busy", "settling", "archived"}

Edit   == [loop : Loop, what : {"toggle", "schedule", "single"}, row : Row] \cup {NoEdit}

TypeOK ==
  /\ now \in Nat /\ zone \in Zones
  /\ row \in [Loop -> Row]
  /\ session \in [Loop -> SessionState]
  /\ edit \in Edit
  /\ events \in 0 .. MaxEvents
  /\ queue \subseteq Message /\ sent \subseteq Message /\ cancelled \subseteq Message
  /\ pc \in {"idle", "messages", "send", "loops", "start", "session", "pr", "patch",
             "error"}
  /\ tickNow \in Nat
  /\ batch \subseteq Message /\ msg \in Message \cup {NoMessage}
  /\ due \subseteq [loop : Loop, row : Row] /\ at \in Loop \cup {NoLoop}
  /\ (msg # NoMessage) = (pc = "send")
  /\ (due # {}) = (pc \in {"loops", "start", "session", "pr", "patch", "error"})
  /\ (at # NoLoop) = (due # {} /\ pc # "loops")
  /\ at # NoLoop => \E d \in due : d.loop = at
  /\ \A d, e \in due : d.loop = e.loop => d = e
  /\ ran \in [Loop -> Int]
  /\ crashes \in 0 .. MaxCrashes

Init ==
  /\ now = 0 /\ zone \in Zones
  /\ \E w \in Worlds, s \in [Loop -> Schedules], tied \in BOOLEAN :
       /\ row = [l \in Loop |->
            [there |-> l \in w, on |-> TRUE, next |-> NextRun(zone, s[l], 0),
             sched |-> s[l], single |-> tied, tied |-> tied, own |-> tied]]
       /\ queue = w \cap Message
       /\ \A l \in Loop \ w : s[l] = CHOOSE x \in Schedules : TRUE
       /\ w \cap Loop = {} => ~tied
  /\ session = [l \in Loop |-> "free"]
  /\ edit = NoEdit /\ events = 0
  /\ sent = {} /\ cancelled = {} /\ batch = {} /\ msg = NoMessage
  /\ pc = "idle" /\ tickNow = 0 /\ due = {} /\ at = NoLoop
  /\ ran = [l \in Loop |-> None]
  /\ crashes = 0

-----------------------------------------------------------------------------
(* Scheduled messages *)

\* The tick begins; queued-messages.runDue reads the earliest messages.
Tick ==
  /\ pc = "idle" /\ pc' = "messages"
  /\ LET dueNow == {m \in queue : SendAt[m] <= now} IN
       /\ batch' \in SUBSET dueNow
       /\ Cardinality(batch') = IF Cardinality(dueNow) < Batch
                                THEN Cardinality(dueNow) ELSE Batch
       /\ \A m \in batch', n \in dueNow \ batch' : SendAt[m] <= SendAt[n]
  /\ UNCHANGED <<clock, row, session, user, queue, sent, cancelled, msg, run, ran, crashes>>

\* Mutant: the row is deleted, whether it is still there or not.
ClaimAny ==
  /\ pc = "messages"
  /\ \E m \in batch :
       /\ \A n \in batch : SendAt[m] <= SendAt[n]
       /\ batch' = batch \ {m}
       /\ queue' = queue \ {m} /\ msg' = m /\ pc' = "send"
  /\ UNCHANGED <<clock, row, session, user, sent, cancelled, run, ran, crashes>>

\* The next message is claimed by deleting its row, ...
Claim ==
  /\ pc = "messages"
  /\ \E m \in batch :
       /\ \A n \in batch : SendAt[m] <= SendAt[n]
       /\ batch' = batch \ {m}
       /\ IF m \in queue
          THEN queue' = queue \ {m} /\ msg' = m /\ pc' = "send"
          ELSE UNCHANGED <<queue, msg, pc>>
  /\ UNCHANGED <<clock, row, session, user, sent, cancelled, run, ran, crashes>>

\* ... and sent, or the error is logged and the message is lost.
Send ==
  /\ pc = "send" /\ pc' = "messages"
  /\ sent' \in {sent, sent \cup {msg}} /\ msg' = NoMessage
  /\ UNCHANGED <<clock, row, session, user, queue, cancelled, batch, run, ran, crashes>>

-----------------------------------------------------------------------------
(* Loops *)

\* runDue: enabled, due, and not of a session that is archived
Due(l) ==
  /\ row[l].there /\ row[l].on /\ row[l].next # None /\ row[l].next <= now
  /\ row[l].own => row[l].tied /\ session[l] # "archived"

\* Mutant: the rows that were read stay with the scheduler.
OverKeepsRows == pc' = "idle" /\ tickNow' = 0 /\ UNCHANGED due /\ at' = NoLoop

\* A tick that is over leaves nothing behind.
Over == pc' = "idle" /\ tickNow' = 0 /\ due' = {} /\ at' = NoLoop

SelectLoops ==
  /\ pc = "messages" /\ batch = {}
  /\ IF \E l \in Loop : Due(l)
     THEN /\ due' = {[loop |-> l, row |-> row[l]] : l \in {k \in Loop : Due(k)}}
          /\ tickNow' = now /\ pc' = "loops" /\ UNCHANGED at
     ELSE Over
  /\ UNCHANGED <<clock, row, session, user, messages, ran, crashes>>

\* The row of the loop that runs, as the tick has read it
Read == (CHOOSE d \in due : d.loop = at).row

\* The run of a loop ends: the next one, if there is one.
Done ==
  IF \E d \in due : d.loop # at
  THEN /\ due' = {d \in due : d.loop # at} /\ pc' = "loops" /\ at' = NoLoop
       /\ UNCHANGED tickNow
  ELSE Over

Earliest == CHOOSE d \in due : \A e \in due : d.row.next <= e.row.next

\* Mutant: the loop is armed for the time after the occurrence that was missed.
RearmFromOccurrence ==
  /\ pc = "loops"
  /\ LET l == Earliest.loop IN
       IF row[l].there
       THEN /\ row' = [row EXCEPT ![l].next =
                  NextRun(zone, Earliest.row.sched, Earliest.row.next - 1)]
            /\ at' = l /\ pc' = "start" /\ UNCHANGED <<tickNow, due>>
       ELSE Over /\ UNCHANGED row
  /\ UNCHANGED <<clock, session, user, messages, ran, crashes>>

\* runLoop: the loop is armed for the first occurrence after the time of the
\* tick, by the schedule that was read.  A patch of a loop that was removed
\* throws, and the tick is over.
Rearm ==
  /\ pc = "loops"
  /\ LET l == Earliest.loop IN
       IF row[l].there
       THEN /\ row' = [row EXCEPT ![l].next = NextRun(zone, Earliest.row.sched, tickNow)]
            /\ at' = l /\ pc' = "start" /\ UNCHANGED <<tickNow, due>>
       ELSE Over /\ UNCHANGED row
  /\ UNCHANGED <<clock, session, user, messages, ran, crashes>>

\* What becomes of the run: a session of its own, a message to the session the
\* loop is tied to, or nothing (skipped, or the user cannot be read).
Start ==
  /\ pc = "start"
  /\ ran' = [ran EXCEPT ![at] = Read.next]
  /\ LET tied == Read.single /\ Read.tied /\ session[at] # "archived" IN
       \/ pc' = "error"
       \/ ~tied /\ pc' = "session"
       \/ tied /\ session[at] \in {"free", "closed"} /\ pc' = "pr"
  /\ UNCHANGED <<clock, row, session, user, messages, run, crashes>>

\* The state of the pull request is known; an open one is worked on.
AskGitHub ==
  /\ pc = "pr"
  /\ \/ pc' = "error" /\ UNCHANGED session
     \/ session[at] = "closed" /\ pc' = "session" /\ UNCHANGED session
     \/ /\ session[at] # "closed" /\ pc' = "patch"
        /\ session' = [session EXCEPT ![at] = IF @ = "archived" THEN @ ELSE "busy"]
  /\ UNCHANGED <<clock, row, user, messages, run, ran, crashes>>

\* sessions.create, which may fail
StartSession ==
  /\ pc = "session"
  /\ pc' \in {"patch", "error"}
  /\ UNCHANGED <<clock, row, session, user, messages, run, ran, crashes>>

\* The outcome is recorded, with the session if the loop was read as single.
Patch ==
  /\ pc = "patch"
  /\ IF row[at].there
     THEN /\ Done
          /\ row' = [row EXCEPT ![at].tied = @ \/ Read.single]
          /\ session' = [session EXCEPT ![at] = IF Read.single THEN "busy" ELSE @]
     ELSE Over /\ UNCHANGED <<row, session>>
  /\ UNCHANGED <<clock, user, messages, ran, crashes>>

\* Mutant: the patch of a loop that was removed is tried until it succeeds.
PatchErrorRetried ==
  /\ pc = "error" /\ row[at].there /\ Done
  /\ UNCHANGED <<clock, row, session, user, messages, ran, crashes>>

\* last_error
PatchError ==
  /\ pc = "error"
  /\ IF row[at].there THEN Done ELSE Over
  /\ UNCHANGED <<clock, row, session, user, messages, ran, crashes>>

-----------------------------------------------------------------------------
(* Users *)

\* normalizePatch, on the row its hook has read: next_run_at is computed
\* whenever the recurrence or the on/off switch is part of the patch.
ArmedBy(r) == IF r.on THEN NextRun(zone, r.sched, now) ELSE None
Armed(r)   == [r EXCEPT !.next = ArmedBy(r)]

EditRead(l) ==
  /\ edit = NoEdit /\ events < MaxEvents /\ row[l].there
  /\ events' = events + 1
  /\ LET r == row[l] IN
       \/ edit' = [loop |-> l, what |-> "toggle", row |-> Armed([r EXCEPT !.on = ~r.on])]
       \/ \E s \in Schedules \ {r.sched} :
            edit' = [loop |-> l, what |-> "schedule", row |-> Armed([r EXCEPT !.sched = s])]
       \/ edit' = [loop |-> l, what |-> "single",
                   row |-> [r EXCEPT !.single = ~r.single, !.tied = FALSE,
                                     !.own = r.own /\ ~r.single]]
  /\ UNCHANGED <<clock, row, session, messages, pc, run, ran, crashes>>

\* Mutant: a new schedule is written without its time.
WrittenUnarmed(r) ==
  CASE edit.what = "toggle"   -> [r EXCEPT !.on = edit.row.on, !.next = edit.row.next]
    [] edit.what = "schedule" -> [r EXCEPT !.sched = edit.row.sched, !.next = None]
    [] OTHER -> [r EXCEPT !.single = edit.row.single, !.tied = FALSE, !.own = edit.row.own]

\* Only the columns of the patch are written.
Written(r) ==
  CASE edit.what = "toggle"   -> [r EXCEPT !.on = edit.row.on, !.next = edit.row.next]
    [] edit.what = "schedule" -> [r EXCEPT !.sched = edit.row.sched, !.next = edit.row.next]
    [] OTHER -> [r EXCEPT !.single = edit.row.single, !.tied = FALSE, !.own = edit.row.own]

EditWrite ==
  /\ edit # NoEdit /\ edit' = NoEdit
  /\ row' = [row EXCEPT ![edit.loop] = IF @.there THEN Written(@) ELSE @]
  /\ UNCHANGED <<clock, session, events, messages, pc, run, ran, crashes>>

RemoveLoop(l) ==
  /\ events < MaxEvents /\ events' = events + 1 /\ row[l].there
  /\ row' = [row EXCEPT ![l].there = FALSE]
  /\ UNCHANGED <<clock, session, edit, messages, pc, run, ran, crashes>>

Cancel(m) ==
  /\ m \in queue
  /\ queue' = queue \ {m} /\ cancelled' = cancelled \cup {m}
  /\ UNCHANGED <<clock, row, session, user, sent, batch, msg, pc, run, ran, crashes>>

\* Turns begin and end, the pull request is closed, the session is archived.
SessionMoves(l) ==
  /\ row[l].tied /\ session[l] # "archived"
  /\ events < MaxEvents /\ events' = events + 1
  /\ session' = [session EXCEPT ![l] =
       CASE @ = "free" -> "archived" [] @ = "settling" -> "free"
         [] @ = "busy" -> "free" [] OTHER -> "settling"]
  /\ UNCHANGED <<clock, row, edit, messages, pc, run, ran, crashes>>

-----------------------------------------------------------------------------
\* The hook and the write of an edit are milliseconds apart: no time passes.
Clock ==
  /\ edit = NoEdit
  /\ now < MaxTime /\ now' = now + 1
  /\ UNCHANGED <<zone, row, session, user, messages, pc, run, ran, crashes>>

\* What the tick has read is gone; the rows stay.
Crash ==
  /\ crashes < MaxCrashes /\ crashes' = crashes + 1
  /\ Over /\ batch' = {} /\ msg' = NoMessage /\ edit' = NoEdit
  /\ UNCHANGED <<clock, row, session, events, queue, sent, cancelled, ran>>

TickGoesOn == Claim \/ Send \/ SelectLoops \/ Rearm \/ Start \/ AskGitHub
              \/ StartSession \/ Patch \/ PatchError

Next ==
  \/ Clock \/ Tick \/ TickGoesOn
  \/ \E l \in Loop : EditRead(l) \/ RemoveLoop(l) \/ SessionMoves(l)
  \/ EditWrite
  \/ \E m \in Message : Cancel(m)
  \/ Crash

Spec == Init /\ [][Next]_vars

\* The interval of the scheduler goes off again and again; what a tick awaits
\* comes to an end.
FairSpec == Spec /\ WF_vars(Tick) /\ WF_vars(TickGoesOn) /\ WF_vars(Clock)

-----------------------------------------------------------------------------
(* Properties *)

\* An occurrence runs at most once, whatever fails, whoever edits the loop and
\* however often the server restarts ("Re-arming first", runLoop).
RunOnce == pc = "start" => Read.next > ran[at]

\* An enabled loop has a next run: a loop without one never runs again.
ArmedWhenOn ==
  \A l \in Loop : row[l].on => row[l].next # None

\* A loop fires when the clock shows its time, also after the offset of the
\* zone has changed (the comment of loop-schedule.js), except around a day on
\* which the clock shows that time never or twice.
NextIsFirst ==
  \A s \in Schedules :
    /\ s.type # "interval"
    /\ \A d \in Horizon(zone, now) : ~IrregularDay(zone, s, d)
    => NextRun(zone, s, now) = First(zone, s, now)

\* A message its user has cancelled is not sent, nor is one sent twice.
CancelledNotSent == sent \cap cancelled = {} /\ sent \cap queue = {}

\* A message that is due is sent, lost or cancelled; a loop that is due is
\* armed anew, switched off or removed, also after a tick was aborted.
DueLeaves ==
  /\ \A m \in Message : m \in queue /\ SendAt[m] <= now ~> m \notin queue
  /\ \A l \in Loop : Due(l) ~> ~Due(l)
=============================================================================
