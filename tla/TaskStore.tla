------------------------------- MODULE TaskStore -------------------------------
(***************************************************************************)
(* The task store of tasks.service.js: overlapping create() calls that     *)
(* resolve depends_on by nested create() calls and share one init task per *)
(* session, the store with its MAX_TASKS entries, deletion, archives and   *)
(* the shutdown of the server.                                             *)
(*                                                                         *)
(* What becomes of a task once it is in the store is the subject of        *)
(* TaskTree.  Here a task that was started may run, be stopped and end     *)
(* whenever it likes; its depends_on is what create() has found.  It is    *)
(* "running" from when it has a child; before that it waits.               *)
(*                                                                         *)
(* A call runs from one await to the next.  A call whose pc is "attach"    *)
(* has been resumed by a promise: it goes on before any other event.       *)
(***************************************************************************)
EXTENDS Naturals, Sequences, FiniteSets

CONSTANTS
  Session,
  Key,           \* task keys
  Defined,       \* the keys of .baguette.yaml
  InitKey,       \* "baguette:init"
  Needs,         \* for each key its depends_on
  NoCall,
  Call,          \* calls of create() by users, agents, the dev proxy
  SessionsOf,    \* the sessions a call may be for
  KeyOf,         \* the task_key of a call
  MaxTasks,      \* MAX_TASKS
  Scenario       \* sets of what may happen in one behaviour, see May

ASSUME SessionAssumption == Session # {}
ASSUME KeyAssumption ==
  /\ InitKey \in Defined /\ Defined \subseteq Key
  /\ Needs \in [Key -> Seq(Key)] /\ Needs[InitKey] = <<>>
ASSUME CallAssumption ==
  SessionsOf \in [Call -> SUBSET Session] /\ KeyOf \in [Call -> Defined]
\* kill: tasks may be killed and deleted one by one; fail: a call may fail in
\* its preparation; archive: sessions may be archived; shutdown: the server may
\* be told to exit; init: the .baguette.yaml has session.init.
May == {"init", "kill", "fail", "archive", "shutdown"}
ASSUME ScenarioAssumption == Scenario \subseteq SUBSET May

ASSUME NoCallAssumption == NoCall \notin Call
ASSUME MaxAssumption == MaxTasks \in Nat \ {0}

VARIABLES
  may,           \* what may happen in this behaviour
  tasks,         \* every task ever made: its id is its index
  store,         \* _tasks: the ids of the tasks in the store
  creating,      \* _sessionInitCreation: the call that makes the init task
  initialized,   \* sessions.initialized in the database
  archived,      \* sessions.archived_at is set
  closing,       \* an archive has deleted the tasks of the session
  recording,     \* init tasks that have exited with 0, until the row is updated
  for, pc,       \* per call: its session, where it is,
  fresh,         \* whether initialized was read as false,
  stack,         \* its nested create() calls, innermost first
  down, awaited  \* the server: up, stopping its tasks, exited

vars == <<may, tasks, store, creating, initialized, archived, closing, recording,
          for, pc, fresh, stack, down, awaited>>

rows   == <<initialized, archived, closing>>
server == <<may, down, awaited>>
calls  == <<for, pc, fresh, stack>>

Active    == {"waiting", "running", "exiting"}   \* isTaskActive
Stoppable == {"waiting", "running"}              \* isTaskStoppable

Id   == DOMAIN tasks
\* begun: its process was started; hook: _getOrCreateSessionInitTask made it
Task == [session : Session, key : Key, deps : SUBSET Nat, root : BOOLEAN,
         hook : BOOLEAN, begun : BOOLEAN, status : Active \cup {"ended"}]

\* next: the index of the dependency that is looked for
Frame == [key : Key, next : Nat \ {0}, deps : SUBSET Nat]

TypeOK ==
  /\ may \in Scenario
  /\ tasks \in Seq(Task)
  /\ store \subseteq Id /\ Cardinality(store) <= MaxTasks
  /\ creating \in [Session -> Call \cup {NoCall}]
  /\ initialized \in [Session -> BOOLEAN]
  /\ archived \in [Session -> BOOLEAN] /\ closing \in [Session -> BOOLEAN]
  /\ recording \subseteq Id
  /\ for \in [Call -> Session]
  /\ pc \in [Call -> {"idle", "read", "resolve", "mark", "make", "wait",
                      "attach", "returned", "failed"}]
  /\ fresh \in [Call -> BOOLEAN]
  /\ stack \in [Call -> Seq(Frame)]
  /\ down \in {"up", "stopping", "exited"}
  /\ awaited \subseteq Id

Init ==
  /\ may \in Scenario
  /\ tasks = <<>> /\ store = {}
  /\ creating = [s \in Session |-> NoCall]
  /\ initialized = [s \in Session |-> FALSE]
  /\ archived = [s \in Session |-> FALSE]
  /\ closing = [s \in Session |-> FALSE]
  /\ recording = {}
  /\ for = [c \in Call |-> CHOOSE s \in Session : TRUE]
  /\ pc = [c \in Call |-> "idle"]
  /\ fresh = [c \in Call |-> FALSE]
  /\ stack = [c \in Call |-> <<>>]
  /\ down = "up" /\ awaited = {}

-----------------------------------------------------------------------------
(* The store *)

Least(S) == CHOOSE i \in S : \A j \in S : i <= j

Ended == {t \in store : tasks[t].status = "ended"}

\* Mutant: the oldest entry goes, whether it has ended or not.
RoomOldest ==
  IF Cardinality(store) < MaxTasks THEN store ELSE store \ {Least(store)}

\* Mutant: room is made one entry too late.
RoomLate ==
  IF Cardinality(store) <= MaxTasks THEN store
  ELSE store \ {Least(IF Ended # {} THEN Ended ELSE store)}

\* What is kept when a task comes in
Room ==
  IF Cardinality(store) < MaxTasks THEN store
  ELSE store \ {Least(IF Ended # {} THEN Ended ELSE store)}

\* createTask
Add(task) ==
  /\ tasks' = Append(tasks, task)
  /\ store' = Room \cup {Len(tasks) + 1}

\* Mutant: a task that waits is not found.
FoundRunning(s, k) ==
  {t \in store : tasks[t].session = s /\ tasks[t].key = k
                 /\ tasks[t].status = "running"}

\* _findRunningTask, as the set of its candidates; it takes the oldest
Found(s, k) ==
  {t \in store : tasks[t].session = s /\ tasks[t].key = k
                 /\ tasks[t].status \in Active}

\* kill(): a task without a child exits at once, with code 0
KillAll(S) ==
  /\ tasks' = [t \in Id |->
       IF t \notin S THEN tasks[t]
       ELSE [tasks[t] EXCEPT !.status =
               CASE @ = "waiting" -> "ended" [] @ = "running" -> "exiting"
                 [] OTHER -> @]]
  /\ recording' = recording \cup
       {t \in S : tasks[t].status = "waiting" /\ tasks[t].hook}

-----------------------------------------------------------------------------
(* create() *)

Resumed == \E c \in Call : pc[c] = "attach"
Event   == ~Resumed /\ down # "exited"

Goto(c, label) == pc' = [pc EXCEPT ![c] = label]

Start(c) ==
  /\ Event /\ pc[c] = "idle"
  /\ \E s \in SessionsOf[c] : for' = [for EXCEPT ![c] = s]
  /\ Goto(c, "read")
  /\ stack' = [stack EXCEPT ![c] = <<[key |-> KeyOf[c], next |-> 1, deps |-> {}]>>]
  /\ UNCHANGED <<tasks, store, creating, rows, recording, fresh, server>>

\* sessions.get; a nested call reads the session again, but not for its init
ReadSession(c) ==
  /\ Event /\ pc[c] = "read"
  /\ Goto(c, IF archived[for[c]] THEN "failed" ELSE "resolve")
  /\ fresh' = [fresh EXCEPT ![c] =
       IF Len(stack[c]) = 1 THEN ~initialized[for[c]] ELSE @]
  /\ UNCHANGED <<tasks, store, creating, rows, recording, for, stack, server>>

WantsInit(c) == Len(stack[c]) = 1 /\ fresh[c] /\ KeyOf[c] # InitKey

Frame1(c)     == Head(stack[c])
WithDep(c, t) ==
  [stack EXCEPT ![c] = <<[Frame1(c) EXCEPT !.deps = @ \cup {t}]>> \o Tail(@)]

\* The configuration, the environment and the command are there, or not; then
\* _getOrCreateSessionInitTask up to its first await.
Resolve(c) ==
  /\ Event /\ pc[c] = "resolve"
  /\ LET s == for[c] IN
       \/ "fail" \in may /\ Goto(c, "failed") /\ UNCHANGED <<creating, stack>>
       \/ /\ ~WantsInit(c)
          /\ Goto(c, "attach") /\ UNCHANGED <<creating, stack>>
       \/ /\ WantsInit(c) /\ "init" \notin may
          /\ Goto(c, "mark") /\ UNCHANGED <<creating, stack>>
       \/ /\ WantsInit(c) /\ "init" \in may /\ Found(s, InitKey) # {}
          /\ Goto(c, "attach")
          /\ stack' = WithDep(c, Least(Found(s, InitKey)))
          /\ UNCHANGED creating
       \/ /\ WantsInit(c) /\ "init" \in may /\ Found(s, InitKey) = {}
          /\ IF creating[s] = NoCall
             THEN Goto(c, "make") /\ creating' = [creating EXCEPT ![s] = c]
             ELSE Goto(c, "wait") /\ UNCHANGED creating
          /\ UNCHANGED stack
  /\ UNCHANGED <<tasks, store, rows, recording, for, fresh, server>>

\* Nothing to initialize: the row says so.
MarkInitialized(c) ==
  /\ Event /\ pc[c] = "mark"
  /\ Goto(c, "attach")
  /\ initialized' = [initialized EXCEPT ![for[c]] = TRUE]
  /\ UNCHANGED <<tasks, store, creating, archived, closing, recording, for, fresh,
                 stack, server>>

\* The calls that get the init task c makes: c and those that wait for it
Sharers(c) ==
  {c} \cup {b \in Call : pc[b] = "wait" /\ for[b] = for[c]}

InitTask(s) == [session |-> s, key |-> InitKey, deps |-> {}, root |-> FALSE,
                hook |-> TRUE, begun |-> FALSE, status |-> "waiting"]

\* Mutant: the calls that wait go on without an init task.
MakeInitAlone(c) ==
  /\ Event /\ pc[c] = "make"
  /\ creating' = [creating EXCEPT ![for[c]] = NoCall]
  /\ Add(InitTask(for[c]))
  /\ pc' = [b \in Call |-> IF b \in Sharers(c) THEN "attach" ELSE pc[b]]
  /\ stack' = [b \in Call |->
       IF b = c THEN <<[Head(stack[b]) EXCEPT !.deps = @ \cup {Len(tasks) + 1}]>>
       ELSE stack[b]]
  /\ UNCHANGED <<rows, recording, for, fresh, server>>

\* The command of the init task is known: it is made, and every call that
\* waits for the promise goes on with it.
MakeInit(c) ==
  /\ Event /\ pc[c] = "make"
  /\ creating' = [creating EXCEPT ![for[c]] = NoCall]
  /\ Add(InitTask(for[c]))
  /\ pc' = [b \in Call |-> IF b \in Sharers(c) THEN "attach" ELSE pc[b]]
  /\ stack' = [b \in Call |->
       IF b \notin Sharers(c) THEN stack[b]
       ELSE <<[Head(stack[b]) EXCEPT !.deps = @ \cup {Len(tasks) + 1}]>>]
  /\ UNCHANGED <<rows, recording, for, fresh, server>>

\* Mutant: the calls that wait are not told.
FailInitAlone(c) ==
  /\ Event /\ "fail" \in may /\ pc[c] = "make"
  /\ creating' = [creating EXCEPT ![for[c]] = NoCall]
  /\ Goto(c, "failed")
  /\ UNCHANGED <<tasks, store, rows, recording, for, fresh, stack, server>>

\* Or the promise is rejected, for all of them.
FailInit(c) ==
  /\ Event /\ "fail" \in may /\ pc[c] = "make"
  /\ creating' = [creating EXCEPT ![for[c]] = NoCall]
  /\ pc' = [b \in Call |-> IF b \in Sharers(c) THEN "failed" ELSE pc[b]]
  /\ UNCHANGED <<tasks, store, rows, recording, for, fresh, stack, server>>

\* attachYamlDependsOn, as far as it goes without an await: the dependencies
\* that are active are taken, ...
Wanted(c)   == Needs[Frame1(c).key]
Chain(c)    == {stack[c][i].key : i \in 1 .. Len(stack[c])}
Refused(c, k) == k \in Chain(c) \/ k \notin Defined

\* the first that stops the loop, one past the end if there is none
Stop(c) ==
  Least({i \in Frame1(c).next .. Len(Wanted(c)) :
           Refused(c, Wanted(c)[i]) \/ Found(for[c], Wanted(c)[i]) = {}}
        \cup {Len(Wanted(c)) + 1})

Attached(c) ==
  Frame1(c).deps \cup
  {Least(Found(for[c], Wanted(c)[i])) : i \in Frame1(c).next .. Stop(c) - 1}

\* ... a circular or unknown one ends the call, which leaves what it has made, ...
Refuse(c) ==
  /\ pc[c] = "attach" /\ down # "exited"
  /\ Stop(c) <= Len(Wanted(c)) /\ Refused(c, Wanted(c)[Stop(c)])
  /\ Goto(c, "failed")
  /\ UNCHANGED <<tasks, store, creating, rows, recording, for, fresh, stack, server>>

\* ... one that is not active is created, ...
Descend(c) ==
  /\ pc[c] = "attach" /\ down # "exited"
  /\ Stop(c) <= Len(Wanted(c)) /\ ~Refused(c, Wanted(c)[Stop(c)])
  /\ Goto(c, "read")
  /\ stack' = [stack EXCEPT ![c] =
       <<[key |-> Wanted(c)[Stop(c)], next |-> 1, deps |-> {}],
         [Frame1(c) EXCEPT !.next = Stop(c), !.deps = Attached(c)]>> \o Tail(@)]
  /\ UNCHANGED <<tasks, store, creating, rows, recording, for, fresh, server>>

NewTask(c) ==
  [session |-> for[c], key |-> Frame1(c).key, deps |-> Attached(c),
   root |-> Len(stack[c]) = 1, hook |-> FALSE, begun |-> FALSE,
   status |-> "waiting"]

\* ... and after the last one the task is made.
Make(c) ==
  /\ pc[c] = "attach" /\ down # "exited"
  /\ Stop(c) > Len(Wanted(c))
  /\ Add(NewTask(c))
  /\ IF Len(stack[c]) = 1
     THEN Goto(c, "returned") /\ UNCHANGED stack
     ELSE /\ UNCHANGED pc
          /\ stack' = [stack EXCEPT ![c] =
               <<[stack[c][2] EXCEPT !.next = @ + 1, !.deps = @ \cup {Len(tasks) + 1}]>>
               \o Tail(Tail(@))]
  /\ UNCHANGED <<creating, rows, recording, for, fresh, server>>

-----------------------------------------------------------------------------
(* The tasks, see TaskTree *)

\* start() was called: for a panel task when it was made, for another when a
\* task that needs it was started
Started[t \in Id] ==
  tasks[t].root \/ \E u \in Id : u > t /\ t \in tasks[u].deps /\ Started[u]

Begin(t) ==
  /\ Event /\ tasks[t].status = "waiting" /\ Started[t]
  /\ tasks' = [tasks EXCEPT ![t].status = "running", ![t].begun = TRUE]
  /\ UNCHANGED <<store, creating, rows, recording, calls, server>>

\* With 0 or another code, which for the hook of an init task makes a
\* difference; a task that waits ends because one it needs has failed.
End(t) ==
  /\ Event /\ tasks[t].status \in Active /\ Started[t]
  /\ tasks' = [tasks EXCEPT ![t].status = "ended"]
  /\ \/ UNCHANGED recording
     \/ /\ tasks[t].hook /\ tasks[t].status = "running"
        /\ recording' = recording \cup {t}
  /\ UNCHANGED <<store, creating, rows, calls, server>>

\* onExit of an init task that has exited with 0
Record(t) ==
  /\ Event /\ t \in recording
  /\ recording' = recording \ {t}
  /\ initialized' = [initialized EXCEPT ![tasks[t].session] = TRUE]
  /\ UNCHANGED <<tasks, store, creating, archived, closing, calls, server>>

-----------------------------------------------------------------------------
(* Stopping and deleting *)

\* kill(): by a user, an agent, the dev proxy or a timer
Kill(t) ==
  /\ Event /\ "kill" \in may /\ tasks[t].status \in Stoppable
  /\ KillAll({t})
  /\ UNCHANGED <<store, creating, rows, calls, server>>

\* deleteTask
Delete(t) ==
  /\ Event /\ "kill" \in may /\ t \in store
  /\ KillAll({t}) /\ store' = store \ {t}
  /\ UNCHANGED <<creating, rows, calls, server>>

\* deleteSessionTasks, when a session is archived, ...
DeleteSession(s) ==
  /\ Event /\ "archive" \in may /\ ~closing[s]
  /\ closing' = [closing EXCEPT ![s] = TRUE]
  /\ LET gone == {t \in store : tasks[t].session = s} IN
       KillAll(gone) /\ store' = store \ gone
  /\ UNCHANGED <<creating, initialized, archived, calls, server>>

\* ... and the row that is marked after it.
MarkArchived(s) ==
  /\ Event /\ closing[s] /\ ~archived[s]
  /\ archived' = [archived EXCEPT ![s] = TRUE]
  /\ UNCHANGED <<tasks, store, creating, initialized, closing, recording, calls,
                 server>>

\* killAllTasks
Shutdown ==
  /\ Event /\ "shutdown" \in may /\ down = "up"
  /\ down' = "stopping"
  /\ awaited' = {t \in store : tasks[t].status \in Stoppable}
  /\ KillAll(awaited')
  /\ UNCHANGED <<may, store, creating, rows, calls>>

Exit ==
  /\ Event /\ down = "stopping"
  /\ \A t \in awaited : tasks[t].status = "ended"
  /\ down' = "exited" /\ store' = {}
  /\ UNCHANGED <<may, tasks, creating, rows, recording, calls, awaited>>

-----------------------------------------------------------------------------
Proceed(c) ==
  \/ ReadSession(c) \/ Resolve(c) \/ MarkInitialized(c) \/ MakeInit(c) \/ FailInit(c)
  \/ Refuse(c) \/ Descend(c) \/ Make(c)

Next ==
  \/ \E c \in Call : Start(c) \/ Proceed(c)
  \/ \E t \in Id : Begin(t) \/ End(t) \/ Record(t) \/ Kill(t) \/ Delete(t)
  \/ \E s \in Session : DeleteSession(s) \/ MarkArchived(s)
  \/ Shutdown \/ Exit

Spec == Init /\ [][Next]_vars

\* Calls go on; a task that is killed ends (SIGKILL, see TaskTree).
Fairness ==
  /\ \A c \in Call : WF_vars(Proceed(c))
  /\ WF_vars(\E t \in Id : tasks[t].status = "exiting" /\ End(t))
  /\ WF_vars(Exit)

FairSpec == Spec /\ Fairness

-----------------------------------------------------------------------------
(* Properties *)

\* Overlapping calls share the init task of their session: the store never holds
\* a second one that is active (_findRunningTask and _sessionInitCreation).  It
\* says nothing of one that has left the store, which another call may replace
\* while it is still being killed, or running if it was evicted: LeavesDying.
OneInit ==
  \A t, u \in store :
    /\ tasks[t].key = InitKey /\ tasks[t].status \in Active
    /\ tasks[u].key = InitKey /\ tasks[u].status \in Active
    /\ tasks[t].session = tasks[u].session
    => t = u

\* A task depends on older tasks of its own session (what TaskTree assumes of
\* DependsOn: AcyclicAssumption), on one of every key its depends_on names, and,
\* when a panel asked for it and its session has an init and has not been
\* initialized, on an init task.
DepsComplete ==
  \A t \in Id :
    /\ \A d \in tasks[t].deps : d < t /\ tasks[d].session = tasks[t].session
    /\ \A i \in 1 .. Len(Needs[tasks[t].key]) :
         \E d \in tasks[t].deps : tasks[d].key = Needs[tasks[t].key][i]
    /\ tasks[t].root /\ tasks[t].key # InitKey /\ "init" \in may
         => \/ initialized[tasks[t].session]
            \/ \E d \in tasks[t].deps : tasks[d].key = InitKey

\* A task that leaves the store has ended or is being killed, unless it is the
\* oldest of a store that is full of active tasks (MAX_TASKS), which goes on
\* outside it, or the server exits.
LeavesDying ==
  [][down' # "exited" => \A t \in store \ store' :
       \/ tasks'[t].status \in {"exiting", "ended"}
       \/ /\ Cardinality(store) >= MaxTasks
          /\ \A u \in store : t <= u /\ tasks[u].status \in Active]_vars

\* A call returns or throws, also one that waits for another to make the init
\* task; and the server exits when it is told to, whatever it is doing.
CallsAndServerEnd ==
  /\ \A c \in Call :
       pc[c] # "idle" ~> pc[c] \in {"returned", "failed"} \/ down = "exited"
  /\ down = "stopping" ~> down = "exited"

\* Refuted: a session is initialized only by an init task that has run.  An
\* init task that is killed while it waits exits with 0.
InitializedByRun ==
  \A s \in Session : "init" \in may /\ initialized[s] =>
    \E t \in Id : tasks[t].session = s /\ tasks[t].key = InitKey /\ tasks[t].begun

\* Refuted: an archived session has no task.  A call that read the session
\* before makes one.
ArchivedEmpty == \A t \in store : ~archived[tasks[t].session]

\* Refuted: the server leaves no child.  One that is exiting already, was
\* dropped by createTask or is made during the shutdown is not waited for.
NoChildLeft ==
  down = "exited" => \A t \in Id : tasks[t].status \notin {"running", "exiting"}
=============================================================================
