------------------------------- MODULE TaskTree -------------------------------
(***************************************************************************)
(* The life of the tasks of server/services/task.js: a task waits for the  *)
(* tasks it depends on, one after the other, spawns a child process, and   *)
(* is ended by its child, by a kill (a user, the idle TTL, the run-time    *)
(* cap) or because the last task that needed it has ended.                 *)
(*                                                                         *)
(* JavaScript runs one callback to completion.  What a callback calls      *)
(* synchronously is unfolded here into small steps that nothing else can   *)
(* interleave with: `calls' is the stack of exit() calls in progress, and  *)
(* a task whose pc is "next" is running the synchronous part of start().   *)
(* Promise reactions (an awaited dependency has ended) run before the next *)
(* timer or I/O event; every action of the second kind requires `Quiet'.   *)
(***************************************************************************)
EXTENDS Naturals, Sequences, FiniteSets

CONSTANTS
  Task,        \* the task objects that may be created
  DependsOn,   \* _dependsOn: for each task the sequence of tasks it needs
  Root,        \* _isRoot: started for its own sake, not as a dependency
  AutoStart,   \* started by the create() call that makes them
  Lazy,        \* created first and started later, by the dev proxy
  PortTask,    \* ready when listening (ports or docker), not when it exits 0
  SlowSpawn,   \* _startProcess() awaits (ports, script file, docker) first
  TtlTask,     \* tasks with an idle TTL
  CappedTask   \* tasks with a wall-clock cap

Deps(t) == {DependsOn[t][i] : i \in 1 .. Len(DependsOn[t])}

ASSUME DependsOnAssumption == DependsOn \in [Task -> Seq(Task)]

\* create() refuses a circular dependency.
ASSUME AcyclicAssumption ==
  \E rank \in [Task -> 1 .. Cardinality(Task)] :
    \A t \in Task : \A d \in Deps(t) : rank[d] < rank[t]

ASSUME KindAssumption ==
  /\ Root \subseteq Task
  /\ AutoStart \subseteq Root
  /\ Lazy \subseteq Task \ AutoStart
  /\ PortTask \subseteq SlowSpawn
  /\ SlowSpawn \subseteq Task
  /\ TtlTask \subseteq Task
  /\ CappedTask \subseteq Task \ TtlTask

\* The dev proxy starts a panel task or the shared code server, which no
\* configured task can name in depends_on.
ASSUME LazyAssumption ==
  \A t \in Lazy \ Root : \A p \in Task : t \notin Deps(p)

Active   == {"waiting", "running", "exiting"}   \* isTaskActive
Stoppable == {"waiting", "running"}             \* isTaskStoppable
Terminal == {"exited", "stopped"}               \* isTaskTerminal
Status   == {"uncreated"} \cup Active \cup Terminal

KillReason == {"stopped", "ttl", "max_runtime"}
NoReason   == "none"
Code       == {0, 1}      \* 1 stands for every non-zero exit code
NoCode     == 2           \* exit_code is null

\* Where the async body of start() is: not called, running synchronously
\* at the head of the loop, awaiting dependency number dep, awaiting the
\* ports, awaiting the script file or the container, returned.
Pc == {"unstarted", "next", "await", "ports", "prepare", "done"}

VARIABLES
  status, exitCode, killReason,
  dependents,   \* _dependents: who still needs this task
  pc, dep,
  pid,          \* a child has been spawned at some time (pid is never reset)
  live,         \* #process: the child runs and its exit event is to come
  sig,          \* the last signal sent to the child
  idle, cap,    \* the idle TTL timer and the max run-time timer are armed
  loop,         \* the interval that heartbeats the dependencies is armed
  calls         \* the exit() calls in progress, innermost first

vars == <<status, exitCode, killReason, dependents, pc, dep, pid, live, sig,
          idle, cap, loop, calls>>

\* left: how many dependencies exit() has still to release
Call == {c \in [task : Task, code : Code, left : Nat] :
          c.left <= Len(DependsOn[c.task])}

TypeOK ==
  /\ status \in [Task -> Status]
  /\ exitCode \in [Task -> Code \cup {NoCode}]
  /\ killReason \in [Task -> KillReason \cup {NoReason}]
  /\ dependents \in [Task -> SUBSET Task]
  /\ pc \in [Task -> Pc]
  /\ dep \in [Task -> Nat \ {0}]
  /\ pid \in [Task -> BOOLEAN]
  /\ live \in [Task -> BOOLEAN]
  /\ sig \in [Task -> {"none", "TERM", "KILL"}]
  /\ idle \in [Task -> BOOLEAN]
  /\ cap \in [Task -> BOOLEAN]
  /\ loop \in [Task -> BOOLEAN]
  /\ calls \in Seq(Call)

Init ==
  /\ status = [t \in Task |-> "uncreated"]
  /\ exitCode = [t \in Task |-> NoCode]
  /\ killReason = [t \in Task |-> NoReason]
  /\ dependents = [t \in Task |-> {}]
  /\ pc = [t \in Task |-> "unstarted"]
  /\ dep = [t \in Task |-> 1]
  /\ pid = [t \in Task |-> FALSE]
  /\ live = [t \in Task |-> FALSE]
  /\ sig = [t \in Task |-> "none"]
  /\ idle = [t \in Task |-> FALSE]
  /\ cap = [t \in Task |-> FALSE]
  /\ loop = [t \in Task |-> FALSE]
  /\ calls = <<>>

-----------------------------------------------------------------------------
(* What the code reads of the state. *)

Created(t)    == status[t] # "uncreated"
Started(t)    == pc[t] # "unstarted"
Continuing(t) == status[t] \in Stoppable     \* isTaskStartupContinuing

Current(t)      == DependsOn[t][dep[t]]
LastDepPassed(t) == dep[t] > Len(DependsOn[t])

\* Mutants: p itself is counted; dependents that still wait are not counted.
HeldByAny(t, p) == \E q \in dependents[t] : status[q] \in Active
HeldByRunning(t, p) == \E q \in dependents[t] \ {p} : status[q] = "running"

\* #hasActiveDependents of t, once p has been removed
HeldByOther(t, p) == \E q \in dependents[t] \ {p} : status[q] \in Active

\* A reaction to the end of an awaited dependency is in the microtask queue.
ReactionPending(t) == pc[t] = "await" /\ status[Current(t)] \in Terminal

InStart == \E t \in Task : pc[t] = "next"

Quiet ==
  /\ calls = <<>>
  /\ ~InStart
  /\ \A t \in Task : ~ReactionPending(t)

-----------------------------------------------------------------------------
(* The synchronous calls that several handlers share. *)

\* heartbeat() of every task of S
Heartbeat(S) ==
  idle' = [t \in Task |-> idle[t] \/ (t \in S /\ t \in TtlTask /\ Continuing(t))]

\* Mutant: the release loop is entered one index short.
ExitCallShort(t, code) ==
  [task |-> t, code |-> code, left |-> Len(DependsOn[t]) - 1]

ExitCall(t, code) == [task |-> t, code |-> code, left |-> Len(DependsOn[t])]

\* The call exit(code), which returns at once for a terminal task.
ExitCalled(t, code) ==
  IF status[t] \in Terminal
  THEN UNCHANGED calls
  ELSE calls' = <<ExitCall(t, code)>> \o calls

\* Mutant: start() does not arm the max run-time timer.
StartCalledUncapped(t) ==
  /\ pc' = [pc EXCEPT ![t] = "next"]
  /\ loop' = [loop EXCEPT ![t] = DependsOn[t] # <<>>]
  /\ Heartbeat(Deps(t))
  /\ UNCHANGED cap

\* start() of a task that has not been started, up to its first loop head
StartCalled(t) ==
  /\ pc' = [pc EXCEPT ![t] = "next"]
  /\ cap' = [cap EXCEPT ![t] = t \in CappedTask /\ status[t] \notin Terminal]
  /\ loop' = [loop EXCEPT ![t] = DependsOn[t] # <<>>]
  /\ Heartbeat(Deps(t))

-----------------------------------------------------------------------------
(* Creation and start. *)

\* createTask and the constructor; create() of a panel task goes on to start.
Create(t) ==
  /\ Quiet
  /\ ~Created(t)
  /\ \A d \in Deps(t) : Created(d)
  /\ status' = [status EXCEPT ![t] = "waiting"]
  /\ dependents' = [d \in Task |-> IF d \in Deps(t) THEN dependents[d] \cup {t}
                                                    ELSE dependents[d]]
  /\ IF t \in AutoStart
     THEN StartCalled(t)
     ELSE UNCHANGED <<pc, cap, loop, idle>>
  /\ UNCHANGED <<exitCode, killReason, dep, pid, live, sig, calls>>

\* The dev proxy starts the task it has created before.
StartLazy(t) ==
  /\ Quiet
  /\ t \in Lazy
  /\ Created(t) /\ ~Started(t)
  /\ StartCalled(t)
  /\ UNCHANGED <<status, exitCode, killReason, dependents, dep, pid, live, sig,
                 calls>>

\* The loop of start() finds that the task is no longer to be started.
GiveUp(t) ==
  /\ calls = <<>>
  /\ pc[t] = "next" /\ DependsOn[t] # <<>> /\ ~Continuing(t)
  /\ pc' = [pc EXCEPT ![t] = "done"]
  /\ UNCHANGED <<status, exitCode, killReason, dependents, dep, pid, live, sig,
                 idle, cap, loop, calls>>

\* The loop of start() starts its next dependency, or re-arms the heartbeat
\* loop of one that has been started already, and awaits it.
StartDep(t) ==
  /\ calls = <<>>
  /\ pc[t] = "next" /\ ~LastDepPassed(t) /\ Continuing(t)
  /\ LET d == Current(t) IN
       IF Started(d)
       THEN /\ pc' = [pc EXCEPT ![t] = "await"]
            /\ loop' = [loop EXCEPT ![d] = DependsOn[d] # <<>>]
            /\ IF loop[d] THEN UNCHANGED idle ELSE Heartbeat(Deps(d))
            /\ UNCHANGED cap
       ELSE /\ pc' = [pc EXCEPT ![t] = "await", ![d] = "next"]
            /\ cap' = [cap EXCEPT ![d] = d \in CappedTask
                                           /\ status[d] \notin Terminal]
            /\ loop' = [loop EXCEPT ![d] = DependsOn[d] # <<>>]
            /\ Heartbeat(Deps(d))
  /\ UNCHANGED <<status, exitCode, killReason, dependents, dep, pid, live, sig,
                 calls>>

\* waitForReady: the awaited task listens on its ports (or its container runs).
DepListens(t) ==
  /\ Quiet
  /\ pc[t] = "await"
  /\ Current(t) \in PortTask /\ live[Current(t)]
  /\ pc' = [pc EXCEPT ![t] = "next"]
  /\ dep' = [dep EXCEPT ![t] = @ + 1]
  /\ UNCHANGED <<status, exitCode, killReason, dependents, pid, live, sig,
                 idle, cap, loop, calls>>

\* Mutant: the exit code of the awaited task is not looked at.
DepCompletedAnyCode(t) ==
  /\ calls = <<>> /\ ~InStart
  /\ ReactionPending(t)
  /\ Current(t) \notin PortTask
  /\ pc' = [pc EXCEPT ![t] = "next"]
  /\ dep' = [dep EXCEPT ![t] = @ + 1]
  /\ UNCHANGED <<status, exitCode, killReason, dependents, pid, live, sig,
                 idle, cap, loop, calls>>

\* waitForReady: the awaited task did what it is for and exited with 0.
DepCompleted(t) ==
  /\ calls = <<>> /\ ~InStart
  /\ ReactionPending(t)
  /\ Current(t) \notin PortTask /\ exitCode[Current(t)] = 0
  /\ pc' = [pc EXCEPT ![t] = "next"]
  /\ dep' = [dep EXCEPT ![t] = @ + 1]
  /\ UNCHANGED <<status, exitCode, killReason, dependents, pid, live, sig,
                 idle, cap, loop, calls>>

\* waitForReady: the awaited task ended before it was ready.  The error
\* carries its exit code, with which this task exits too.
DepFailed(t) ==
  /\ calls = <<>> /\ ~InStart
  /\ ReactionPending(t)
  /\ Current(t) \in PortTask \/ exitCode[Current(t)] # 0
  /\ pc' = [pc EXCEPT ![t] = "done"]
  /\ ExitCalled(t, IF exitCode[Current(t)] = 0 THEN 0 ELSE 1)
  /\ UNCHANGED <<status, exitCode, killReason, dependents, dep, pid, live, sig,
                 idle, cap, loop>>

\* waitForReady: the ports are allocated but nothing listened in time.
DepTimesOut(t) ==
  /\ Quiet
  /\ pc[t] = "await"
  /\ Current(t) \in PortTask /\ pc[Current(t)] \in {"prepare", "done"}
  /\ pc' = [pc EXCEPT ![t] = "done"]
  /\ ExitCalled(t, 1)
  /\ UNCHANGED <<status, exitCode, killReason, dependents, dep, pid, live, sig,
                 idle, cap, loop>>

-----------------------------------------------------------------------------
(* The process. *)

Spawn(t) ==
  /\ pid' = [pid EXCEPT ![t] = TRUE]
  /\ live' = [live EXCEPT ![t] = TRUE]
  /\ pc' = [pc EXCEPT ![t] = "done"]

\* start() of a task without dependencies enters "running" without looking
\* at the status.
EnterRunning(t) ==
  /\ calls = <<>>
  /\ pc[t] = "next" /\ DependsOn[t] = <<>> /\ status[t] # "running"
  /\ status' = [status EXCEPT ![t] = "running"]
  /\ UNCHANGED <<exitCode, killReason, dependents, pc, dep, pid, live, sig,
                 idle, cap, loop, calls>>

MayLaunch(t) ==
  /\ calls = <<>>
  /\ pc[t] = "next" /\ LastDepPassed(t) /\ Continuing(t)
  /\ DependsOn[t] = <<>> => status[t] = "running"

\* Every dependency is ready: #enterRunning, then the part of _startProcess
\* before its first await, which for a one-line command without ports is all
\* of it.
Launch(t) ==
  /\ MayLaunch(t)
  /\ status' = [status EXCEPT ![t] = "running"]
  /\ IF t \in SlowSpawn
     THEN /\ pc' = [pc EXCEPT ![t] = "ports"]
          /\ UNCHANGED <<pid, live, idle>>
     ELSE /\ Spawn(t)
          /\ idle' = [idle EXCEPT ![t] = @ \/ t \in TtlTask]
  /\ UNCHANGED <<exitCode, killReason, dependents, dep, sig, cap, loop, calls>>

\* The environment of the task refers to something that does not exist.
EnvFails(t) ==
  /\ MayLaunch(t)
  /\ pc' = [pc EXCEPT ![t] = "done"]
  /\ ExitCalled(t, 1)
  /\ UNCHANGED <<status, exitCode, killReason, dependents, dep, pid, live, sig,
                 idle, cap, loop>>

PortsAllocated(t) ==
  /\ Quiet
  /\ pc[t] = "ports"
  /\ pc' = [pc EXCEPT ![t] = "prepare"]
  /\ UNCHANGED <<status, exitCode, killReason, dependents, dep, pid, live, sig,
                 idle, cap, loop, calls>>

\* The script is written or the image built: the child is spawned, whatever
\* has become of the task in the meantime.
Prepared(t) ==
  /\ Quiet
  /\ pc[t] = "prepare"
  /\ Spawn(t)
  /\ Heartbeat({t})
  /\ UNCHANGED <<status, exitCode, killReason, dependents, dep, sig, cap, loop,
                 calls>>

\* getFreePort, writeScriptFile or docker throws: #failStart
StartFails(t) ==
  /\ Quiet
  /\ pc[t] \in {"ports", "prepare"}
  /\ pc' = [pc EXCEPT ![t] = "done"]
  /\ ExitCalled(t, 1)
  /\ UNCHANGED <<status, exitCode, killReason, dependents, dep, pid, live, sig,
                 idle, cap, loop>>

\* The child's exit event.  A child that traps SIGTERM may report any code;
\* SIGKILL cannot be trapped and yields no code, which counts as 1.
ChildExit(t, code) ==
  /\ Quiet
  /\ live[t]
  /\ sig[t] = "KILL" => code = 1
  /\ live' = [live EXCEPT ![t] = FALSE]
  /\ ExitCalled(t, code)
  /\ UNCHANGED <<status, exitCode, killReason, dependents, pc, dep, pid, sig,
                 idle, cap, loop>>

-----------------------------------------------------------------------------
(* Timers and kills. *)

\* Mutant: kill() ends the task without waiting for its child.
KillCalledNoWait(t, reason) ==
  /\ Continuing(t)
  /\ killReason' = [killReason EXCEPT ![t] = reason]
  /\ status' = [status EXCEPT ![t] = "exiting"]
  /\ sig' = [sig EXCEPT ![t] = IF live[t] THEN "TERM" ELSE @]
  /\ ExitCalled(t, 0)

\* kill(): a task without a child exits on the spot, with code 0.
KillCalled(t, reason) ==
  /\ Continuing(t)
  /\ killReason' = [killReason EXCEPT ![t] = reason]
  /\ status' = [status EXCEPT ![t] = "exiting"]
  /\ IF live[t]
     THEN sig' = [sig EXCEPT ![t] = "TERM"] /\ UNCHANGED calls
     ELSE ExitCalled(t, 0) /\ UNCHANGED sig

UserKill(t) ==
  /\ Quiet
  /\ KillCalled(t, "stopped")
  /\ UNCHANGED <<exitCode, dependents, pc, dep, pid, live, idle, cap, loop>>

IdleExpires(t) ==
  /\ Quiet
  /\ idle[t]
  /\ idle' = [idle EXCEPT ![t] = FALSE]
  /\ \/ KillCalled(t, "ttl")
     \/ ~Continuing(t) /\ UNCHANGED <<status, killReason, sig, calls>>
  /\ UNCHANGED <<exitCode, dependents, pc, dep, pid, live, cap, loop>>

CapExpires(t) ==
  /\ Quiet
  /\ cap[t]
  /\ cap' = [cap EXCEPT ![t] = FALSE]
  /\ \/ KillCalled(t, "max_runtime")
     \/ ~Continuing(t) /\ UNCHANGED <<status, killReason, sig, calls>>
  /\ UNCHANGED <<exitCode, dependents, pc, dep, pid, live, idle, loop>>

\* Mutant: the escalation looks for a task that is not yet being stopped.
EscalateRunning(t) ==
  /\ Quiet
  /\ status[t] = "running" /\ live[t] /\ sig[t] = "TERM"
  /\ sig' = [sig EXCEPT ![t] = "KILL"]
  /\ UNCHANGED <<status, exitCode, killReason, dependents, pc, dep, pid, live,
                 idle, cap, loop, calls>>

\* The grace period of kill() is over and the child still runs.
Escalate(t) ==
  /\ Quiet
  /\ status[t] = "exiting" /\ live[t] /\ sig[t] = "TERM"
  /\ sig' = [sig EXCEPT ![t] = "KILL"]
  /\ UNCHANGED <<status, exitCode, killReason, dependents, pc, dep, pid, live,
                 idle, cap, loop, calls>>

\* One tick of the interval with which t keeps its dependencies alive.
HeartbeatTick(t) ==
  /\ Quiet
  /\ loop[t]
  /\ Heartbeat(Deps(t))
  /\ UNCHANGED <<status, exitCode, killReason, dependents, pc, dep, pid, live,
                 sig, cap, loop, calls>>

\* A request through the dev proxy keeps the task it serves alive.
ProxyHeartbeat(t) ==
  /\ Quiet
  /\ t \in Lazy /\ Created(t)
  /\ Heartbeat({t})
  /\ UNCHANGED <<status, exitCode, killReason, dependents, pc, dep, pid, live,
                 sig, cap, loop, calls>>

-----------------------------------------------------------------------------
(* exit(), unfolded: release the dependencies, last one first, then end. *)

Top == calls[1]

\* #releaseDependsOn: one dependency loses this dependent and, when nothing
\* else needs it, is stopped (#tryStopIfOrphan) or, when it was never
\* started, cancelled (#cancelUnstartedDependsOnSubtree).
Release ==
  /\ calls # <<>> /\ Top.left > 0
  /\ LET p       == Top.task
         d       == DependsOn[p][Top.left]
         reason  == killReason[p]
         orphan  == d \notin Root /\ ~HeldByOther(d, p)
         cancel  == orphan /\ ~Started(d) /\ status[d] \notin Terminal
         stop    == orphan /\ Started(d) /\ Continuing(d)
         rest    == [calls EXCEPT ![1].left = @ - 1]
     IN
       /\ dependents' = [dependents EXCEPT ![d] = @ \ {p}]
       /\ killReason' = [killReason EXCEPT ![d] =
            IF stop THEN (IF reason = NoReason THEN "stopped" ELSE reason)
            ELSE IF cancel /\ reason # NoReason THEN reason
            ELSE @]
       /\ status' = [status EXCEPT ![d] = IF stop THEN "exiting" ELSE @]
       /\ sig' = [sig EXCEPT ![d] = IF stop /\ live[d] THEN "TERM" ELSE @]
       /\ calls' = IF cancel \/ (stop /\ ~live[d]) THEN <<ExitCall(d, 0)>> \o rest
                                                  ELSE rest
  /\ UNCHANGED <<exitCode, pc, dep, pid, live, idle, cap, loop>>

\* The rest of exit(): the timers are cleared and the task is terminal.
Finish ==
  /\ calls # <<>> /\ Top.left = 0
  /\ LET t == Top.task IN
       /\ idle' = [idle EXCEPT ![t] = FALSE]
       /\ cap' = [cap EXCEPT ![t] = FALSE]
       /\ loop' = [loop EXCEPT ![t] = FALSE]
       /\ exitCode' = [exitCode EXCEPT ![t] = Top.code]
       /\ status' = [status EXCEPT ![t] =
            IF killReason[t] = "stopped" THEN "stopped" ELSE "exited"]
  /\ calls' = Tail(calls)
  /\ UNCHANGED <<killReason, dependents, pc, dep, pid, live, sig>>

-----------------------------------------------------------------------------
StartStep(t) ==
  \/ Create(t) \/ StartLazy(t) \/ GiveUp(t) \/ StartDep(t)
  \/ DepListens(t) \/ DepCompleted(t) \/ DepFailed(t) \/ DepTimesOut(t)
  \/ EnterRunning(t) \/ Launch(t) \/ EnvFails(t) \/ PortsAllocated(t)
  \/ Prepared(t) \/ StartFails(t)

StopStep(t) ==
  \/ UserKill(t) \/ IdleExpires(t) \/ CapExpires(t) \/ Escalate(t)
  \/ \E code \in Code : ChildExit(t, code)

AliveStep(t) == HeartbeatTick(t) \/ ProxyHeartbeat(t)

Next ==
  \/ \E t \in Task : StartStep(t) \/ StopStep(t) \/ AliveStep(t)
  \/ Release
  \/ Finish

Spec == Init /\ [][Next]_vars

\* The event loop keeps running callbacks, the caps expire, a child that got
\* SIGKILL dies, and the create() call that made the dependencies of a task
\* goes on to make the task (when it throws half-way, its dependencies stay
\* behind, waiting).  Nothing is assumed of a child that got SIGTERM, of users,
\* of idle timers, nor of how long ports, images and scripts take.
Fairness ==
  /\ WF_vars(Release) /\ WF_vars(Finish)
  /\ \A t \in Task :
       /\ WF_vars(Create(t))
       /\ WF_vars(GiveUp(t)) /\ WF_vars(StartDep(t))
       /\ WF_vars(DepCompleted(t)) /\ WF_vars(DepFailed(t))
       /\ WF_vars(EnterRunning(t)) /\ WF_vars(Launch(t))
       /\ WF_vars(CapExpires(t)) /\ WF_vars(Escalate(t))
       /\ WF_vars(sig[t] = "KILL" /\ ChildExit(t, 1))

FairSpec == Spec /\ Fairness

-----------------------------------------------------------------------------
(* What makes the component correct. *)

\* exit() of t is in progress
Ending(t) == \E i \in 1 .. Len(calls) : calls[i].task = t

Dependents(d) == {p \in Task : Created(p) /\ d \in Deps(p)}

\* A dependency that was only started for others does not survive them: when
\* all tasks that need it have ended, it has been told to stop or was
\* cancelled, whatever order they ended in (exit, #tryStopIfOrphan).
OrphansStopped ==
  calls = <<>> =>
    \A d \in Task \ Root :
      Dependents(d) # {} /\ (\A p \in Dependents(d) : status[p] \in Terminal)
        => ~Continuing(d)

\* The other way round: while exit() unwinds a tree it stops or cancels a
\* dependency only if it is no panel task and every task that needs it has
\* ended or is itself in the course of ending (#hasActiveDependents).
Stops(d) == Continuing(d) /\ ~Ending(d) /\ (status'[d] = "exiting" \/ Ending(d)')

SparedWhileNeeded ==
  [][\A d \in Task : calls # <<>> /\ Stops(d) =>
        /\ d \notin Root
        /\ \A p \in Dependents(d) : status[p] \in Terminal \/ Ending(p)]_vars

\* A child is spawned only after the whole depends_on list has been waited
\* for: each dependency with ports has a process of its own, every other one
\* has been started, has ended, and with code 0 (start, waitForReady).
DepsReadyBeforeSpawn ==
  \A t \in Task : pid[t] =>
    \A d \in Deps(t) :
      IF d \in PortTask
      THEN pid[d]
      ELSE Started(d) /\ status[d] \in Terminal /\ exitCode[d] = 0

\* A child whose task has ended, and which kill() can therefore not reach any
\* more, has only one possible origin: a kill while _startProcess() was
\* awaiting something.  No other path loses a child.
ChildOwned ==
  \A t \in Task : live[t] /\ status[t] \in Terminal =>
    t \in SlowSpawn /\ killReason[t] # NoReason

\* A task that is being stopped ends, even if its child ignores SIGTERM.
KilledEnds == \A t \in Task : status[t] = "exiting" ~> status[t] \in Terminal

\* A panel task ends when its cap expires at the latest, and takes with it the
\* dependencies that have no cap of their own, started or not.
TreeEnds ==
  \A t \in Task :
    (t \in CappedTask /\ Started(t)) \/ (t \notin Root /\ Dependents(t) # {})
      ~> status[t] \in Terminal

-----------------------------------------------------------------------------
(* The abstract view: every task holds a lease on what it depends on. *)

LeasePhase(t) ==
  IF ~Created(t) THEN "absent"
  ELSE IF status[t] \in Terminal THEN "down"
  ELSE IF status[t] = "exiting" \/ Ending(t) THEN "ending"
  ELSE "up"

Lease == INSTANCE DependencyLease
  WITH Needs <- [t \in Task |-> Deps(t)],
       phase <- [t \in Task |-> LeasePhase(t)],
       holders <- dependents

\* Whatever starts, kills and timeouts do, every step of the task tree is a
\* step of the lease protocol: the kill cascade of exit() never takes a task
\* that is still needed and never forgets one that is not.
LeaseKept == Lease!LeaseSpec

-----------------------------------------------------------------------------
(* What the comments, documents and tests of the repository say and the code *)
(* does not do: each is refuted by a run.                                    *)

\* start() spawns only while the task is not shutting down, so no task that
\* has ended has a running child.
NoChildOfEndedTask == \A t \in Task : live[t] => status[t] \in Active

\* kill() cancels a task that has no child yet: it does not run afterwards.
CancelledStaysDown ==
  calls = <<>> =>
    \A t \in Task : killReason[t] # NoReason => ~Continuing(t)

\* A dependency without ports is ready when its process has exited 0: it has
\* had a process when the dependent task is spawned.
CompletedMeansRan ==
  \A t \in Task : pid[t] => \A d \in Deps(t) : pid[d]

\* A task heartbeats its dependencies every minute until it exits.
NoHeartbeatAfterExit == \A t \in Task : loop[t] => status[t] \in Active

=============================================================================
