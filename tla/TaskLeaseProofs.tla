---------------------------- MODULE TaskLeaseProofs ----------------------------
(***************************************************************************)
(* Proofs about the processes of TaskTree, for every dependency graph: a   *)
(* child is spawned after all its task depends on, and no path but a kill  *)
(* during an awaited spawn leaves a child behind whose task has ended; and *)
(* the proof that TaskTree implements DependencyLease, which rests on it.  *)
(***************************************************************************)
EXTENDS TaskTreeProofs

-----------------------------------------------------------------------------
(* The inductive invariant, in named parts. *)

Rank ==
  CHOOSE rank \in [Task -> 1 .. Cardinality(Task)] :
    \A t \in Task : \A d \in Deps(t) : rank[d] < rank[t]

\* The tasks of a stack of exit() calls have not ended, and each depends on the
\* next, directly or not: none of them is there twice.
Ordered(s, st) ==
  /\ \A i \in 1 .. Len(s) : st[s[i].task] \notin Terminal
  /\ \A i, j \in 1 .. Len(s) : i < j => Rank[s[i].task] < Rank[s[j].task]

StackOrdered == Ordered(calls, status)

\* What waitForReady has found of a dependency stays so: a task that has ended
\* is not started a second time once it has left the head of its loop.
Served(d) ==
  IF d \in PortTask THEN pid[d]
  ELSE /\ Started(d) /\ status[d] \in Terminal /\ exitCode[d] = 0
       /\ DependsOn[d] = <<>> => pc[d] # "next"

\* start() awaits a dependency it has started, ...
Awaited == \A t \in Task : pc[t] = "await" => ~LastDepPassed(t) /\ Started(Current(t))

\* ... has left behind only those that are ready, ...
Passed ==
  \A t \in Task : \A i \in 1 .. Len(DependsOn[t]) :
    i < dep[t] => Served(DependsOn[t][i])

\* ... and goes on to the process after the last one.
SpawnedAfter ==
  \A t \in Task : pid[t] \/ pc[t] \in {"ports", "prepare"} => LastDepPassed(t)

\* A task has one child, spawned at the end of start(); exit() is called when
\* it is gone, or before it is there.
OneChild ==
  \A t \in Task :
    /\ live[t] => pid[t]
    /\ pid[t] => pc[t] = "done"
    /\ Ending(t) => ~live[t]
    /\ pc[t] \in {"ports", "prepare"} => t \in SlowSpawn

\* A task that ends while its process is being prepared was killed.
KilledEarly ==
  \A t \in Task :
    pc[t] \in {"ports", "prepare"} /\ (Ending(t) \/ status[t] \in Terminal)
      => killReason[t] # NoReason

SpawnInv == StackOrdered /\ Awaited /\ Passed /\ SpawnedAfter /\ OneChild
            /\ KilledEarly /\ ChildOwned

-----------------------------------------------------------------------------
(* The stack of exit() calls. *)

LEMMA RankLess ==
  /\ \A t \in Task : Rank[t] \in Int
  /\ \A t \in Task : \A d \in Deps(t) : Rank[d] < Rank[t]
<1>1. /\ Rank \in [Task -> 1 .. Cardinality(Task)]
      /\ \A t \in Task : \A d \in Deps(t) : Rank[d] < Rank[t]
  BY AcyclicAssumption, Zenon DEF Rank
<1> QED
  BY <1>1

\* Outside of exit() nothing happens while a call of it is in progress.
LEMMA EmptyStack ==
  ASSUME NEW t \in Task, StartStep(t) \/ StopStep(t) \/ AliveStep(t)
  PROVE  calls = <<>>
<1>1. CASE StartStep(t)
  BY <1>1 DEF StartStep, Create, StartLazy, GiveUp, StartDep, DepListens,
              DepCompleted, DepFailed, DepTimesOut, EnterRunning, Launch, EnvFails,
              MayLaunch, PortsAllocated, Prepared, StartFails, Quiet
<1>2. CASE StopStep(t)
  BY <1>2 DEF StopStep, UserKill, IdleExpires, CapExpires, Escalate, ChildExit, Quiet
<1>3. CASE AliveStep(t)
  BY <1>3 DEF AliveStep, HeartbeatTick, ProxyHeartbeat, Quiet
<1> QED
  BY <1>1, <1>2, <1>3

LEMMA PushOrdered ==
  ASSUME NEW s \in Seq(Call), NEW c \in Call, NEW st,
         Ordered(s, st), st[c.task] \notin Terminal,
         \A i \in 1 .. Len(s) : Rank[c.task] < Rank[s[i].task]
  PROVE  Ordered(<<c>> \o s, st)
<1> DEFINE r == <<c>> \o s
<1>1. /\ Len(r) = Len(s) + 1 /\ Len(s) \in Nat
      /\ r[1] = c
      /\ \A i \in 1 .. Len(s) : r[i + 1] = s[i]
  BY PushLemma
<1> HIDE DEF r
<1>2. \A i \in 1 .. Len(r) : i # 1 => i - 1 \in 1 .. Len(s) /\ r[i] = s[i - 1]
  <2> TAKE i \in 1 .. Len(r)
  <2> HAVE i # 1
  <2>1. i - 1 \in 1 .. Len(s) /\ (i - 1) + 1 = i
    BY <1>1
  <2> QED
    BY <1>1, <2>1
<1>3. \A i \in 1 .. Len(r) : st[r[i].task] \notin Terminal
  BY <1>1, <1>2 DEF Ordered
<1>4. ASSUME NEW i \in 1 .. Len(r), NEW j \in 1 .. Len(r), i < j
      PROVE  Rank[r[i].task] < Rank[r[j].task]
  <2>1. j # 1 /\ j - 1 \in 1 .. Len(s) /\ r[j] = s[j - 1]
    BY <1>1, <1>2, <1>4
  <2>2. CASE i = 1
    BY <1>1, <2>1, <2>2
  <2>3. CASE i # 1
    <3>1. i - 1 \in 1 .. Len(s) /\ r[i] = s[i - 1] /\ i - 1 < j - 1
      BY <1>1, <1>2, <1>4, <2>3
    <3> QED
      BY <2>1, <3>1 DEF Ordered
  <2> QED
    BY <2>2, <2>3
<1> QED
  BY <1>3, <1>4 DEF Ordered, r

LEMMA EmptyOrdered == \A st : Ordered(<<>>, st)
  BY DEF Ordered

\* A step outside of exit() pushes at most one call, on an empty stack.
LEMMA FirstCall ==
  ASSUME TypeOK, NEW t \in Task, NEW code \in Code, calls = <<>>,
         ExitCalled(t, code), status'[t] \notin Terminal \/ status[t] \in Terminal
  PROVE  Ordered(calls', status')
<1>1. CASE status[t] \in Terminal
  BY <1>1, EmptyOrdered DEF ExitCalled
<1>2. CASE status[t] \notin Terminal
  <2>1. calls' = <<ExitCall(t, code)>> \o <<>>
    BY <1>2 DEF ExitCalled
  <2>2. ExitCall(t, code) \in Call /\ ExitCall(t, code).task = t
    BY ExitCallType DEF ExitCall
  <2>3. <<>> \in Seq(Call) /\ Len(<<>>) = 0
    OBVIOUS
  <2> HIDE DEF Ordered
  <2>4. status'[ExitCall(t, code).task] \notin Terminal
    BY <1>2, <2>2
  <2>5. \A i \in 1 .. Len(<<>>) : Rank[ExitCall(t, code).task] < Rank[<<>>[i].task]
    BY <2>3
  <2> QED
    BY <2>1, <2>2, <2>3, <2>4, <2>5, EmptyOrdered, PushOrdered
<1> QED
  BY <1>1, <1>2

LEMMA StackOrderedStep ==
  ASSUME TypeOK, StackOrdered, [Next]_vars
  PROVE  StackOrdered'
<1>1. CASE Still
  BY <1>1 DEF Still, StackOrdered, Ordered
<1>2. CASE Release
  <2>1. /\ Releaser \in Task /\ Released \in Task /\ Released \in Deps(Releaser)
        /\ Len(calls) \in Nat \ {0} /\ Releaser = calls[1].task
    BY <1>2, ReleaseTasks DEF Releaser, Top
  <2>2. /\ Unwound \in Seq(Call) /\ Len(Unwound) = Len(calls)
        /\ \A i \in 1 .. Len(calls) : Unwound[i].task = calls[i].task
    BY <1>2, <2>1, UnwoundCalls
  <2>3. \A u \in Task : status[u] \notin Terminal => status'[u] \notin Terminal
    BY <1>2, ReleaseEffect DEF Terminal
  <2>4. \A i \in 1 .. Len(calls) : calls[i].task \in Task
    BY DEF TypeOK, Call
  <2>5. Ordered(Unwound, status')
    BY <2>2, <2>3, <2>4 DEF StackOrdered, Ordered
  <2>6. CASE calls' = Unwound
    BY <2>5, <2>6 DEF StackOrdered
  <2>7. CASE calls' = <<ExitCall(Released, 0)>> \o Unwound
            /\ status[Released] \notin Terminal
    <3>1. ExitCall(Released, 0) \in Call /\ ExitCall(Released, 0).task = Released
      BY <2>1, ExitCallType DEF ExitCall, Code
    <3>2. \A i \in 1 .. Len(Unwound) : Rank[Released] < Rank[Unwound[i].task]
      <4> TAKE i \in 1 .. Len(Unwound)
      <4>1. Rank[Released] < Rank[calls[1].task]
        BY <2>1, RankLess
      <4>2. i # 1 => Rank[calls[1].task] < Rank[calls[i].task]
        BY <2>1, <2>2 DEF StackOrdered, Ordered
      <4>3. Rank[Released] \in Int /\ Rank[calls[1].task] \in Int
            /\ Rank[calls[i].task] \in Int
        BY <2>1, <2>2, <2>4, RankLess
      <4> QED
        BY <2>2, <4>1, <4>2, <4>3
    <3>3. status'[Released] \notin Terminal
      BY <2>1, <2>3, <2>7
    <3> QED
      BY <2>2, <2>5, <2>7, <3>1, <3>2, <3>3, PushOrdered DEF StackOrdered
  <2> QED
    BY <1>2, <2>6, <2>7, ReleaseEffect
<1>3. CASE Finish
  <2>1. /\ Releaser = calls[1].task /\ Len(calls) \in Nat \ {0}
        /\ Len(calls') = Len(calls) - 1
        /\ \A i \in 1 .. Len(calls') : calls'[i] = calls[i + 1]
        /\ \A u \in Task : u # Releaser => status'[u] = status[u]
    BY <1>3, FinishEffect DEF Releaser, Top
  <2>2. \A i \in 1 .. Len(calls) : calls[i].task \in Task
    BY DEF TypeOK, Call
  <2>3. ASSUME NEW i \in 1 .. Len(calls')
        PROVE  /\ i + 1 \in 1 .. Len(calls)
               /\ status'[calls[i + 1].task] \notin Terminal
    <3>1. i + 1 \in 1 .. Len(calls) /\ 1 \in 1 .. Len(calls) /\ 1 < i + 1
      BY <2>1
    <3>2. Rank[calls[1].task] < Rank[calls[i + 1].task]
      BY <3>1 DEF StackOrdered, Ordered
    <3>3. calls[1].task \in Task /\ calls[i + 1].task \in Task
      BY <2>2, <3>1
    <3>4. calls[i + 1].task # calls[1].task
      BY <3>2, <3>3, RankLess
    <3>5. status[calls[i + 1].task] \notin Terminal
      BY <3>1 DEF StackOrdered, Ordered
    <3> QED
      BY <2>1, <3>1, <3>3, <3>4, <3>5
  <2>4. \A i \in 1 .. Len(calls') : status'[calls'[i].task] \notin Terminal
    BY <2>1, <2>3
  <2>5. ASSUME NEW i \in 1 .. Len(calls'), NEW j \in 1 .. Len(calls'), i < j
        PROVE  Rank[calls'[i].task] < Rank[calls'[j].task]
    <3>1. i + 1 \in 1 .. Len(calls) /\ j + 1 \in 1 .. Len(calls) /\ i + 1 < j + 1
      BY <2>1, <2>3, <2>5
    <3> QED
      BY <2>1, <3>1 DEF StackOrdered, Ordered
  <2> QED
    BY <2>4, <2>5 DEF StackOrdered, Ordered
<1>4. ASSUME NEW t \in Task, Create(t) \/ Enters(t)
      PROVE  StackOrdered'
  <2>1. calls = <<>> /\ calls' = calls
    BY <1>4 DEF Create, Enters, EnterRunning, Launch, MayLaunch, Quiet
  <2> QED
    BY <2>1, EmptyOrdered DEF StackOrdered
<1>5. ASSUME NEW t \in Task, Exits(t) \/ Kills(t), calls = <<>>
      PROVE  StackOrdered'
  <2>1. CASE Exits(t)
    <3>1. PICK code \in Code : ExitCalled(t, code)
      BY <2>1 DEF Exits
    <3>2. status'[t] \notin Terminal \/ status[t] \in Terminal
      BY <2>1 DEF Exits
    <3> QED
      BY <1>5, <3>1, <3>2, FirstCall DEF StackOrdered
  <2>2. CASE Kills(t)
    <3>1. status'[t] = "exiting"
      BY <2>2 DEF Kills, KillCalled, TypeOK
    <3>2. (\E code \in Code : ExitCalled(t, code)) \/ UNCHANGED calls
      BY <2>2 DEF Kills, KillCalled, Code
    <3> QED
      BY <1>5, <3>1, <3>2, FirstCall, EmptyOrdered DEF StackOrdered, Terminal
  <2> QED
    BY <1>5, <2>1, <2>2
<1>6. Release \/ Finish \/ Still \/ calls = <<>>
  BY EmptyStack DEF Next, vars, Still
<1> QED
  BY <1>1, <1>2, <1>3, <1>4, <1>5, <1>6, StepKinds

-----------------------------------------------------------------------------
(* What a step does to one task's start() and child.                        *)

Rests(u)   == UNCHANGED <<pc[u], dep[u], pid[u]>> /\ (live'[u] => live[u])
Begins(u)  == pc[u] = "unstarted" /\ pc'[u] = "next" /\ UNCHANGED <<dep[u], pid[u], live[u]>>
Awaits(u)  == /\ pc'[u] = "await" /\ ~LastDepPassed(u) /\ Started(Current(u))'
              /\ pc[u] = "next" /\ UNCHANGED <<dep[u], pid[u], live[u]>>
GoesOn(u)  == /\ pc[u] = "await" /\ pc'[u] = "next" /\ dep'[u] = dep[u] + 1
              /\ IF Current(u) \in PortTask
                 THEN live[Current(u)]
                 ELSE /\ status[Current(u)] \in Terminal /\ exitCode[Current(u)] = 0
                      /\ pc[Current(u)] # "next"
              /\ UNCHANGED <<pid[u], live[u]>>
Returns(u) == /\ pc[u] \in {"next", "await", "ports", "prepare"} /\ pc'[u] = "done"
              /\ UNCHANGED <<dep[u], pid[u], live[u]>>
Readies(u) == /\ \/ /\ pc[u] = "next" /\ LastDepPassed(u) /\ u \in SlowSpawn
                    /\ status'[u] = "running"
                 \/ pc[u] = "ports" /\ UNCHANGED status[u]
              /\ pc'[u] \in {"ports", "prepare"}
              /\ calls' = <<>>
              /\ UNCHANGED <<dep[u], pid[u], live[u], killReason[u]>>
Spawns(u)  == /\ \/ pc[u] = "next" /\ LastDepPassed(u) /\ status'[u] = "running"
                 \/ pc[u] = "prepare" /\ UNCHANGED status[u]
              /\ pc'[u] = "done" /\ pid'[u] /\ live'[u]
              /\ calls' = <<>>
              /\ UNCHANGED <<dep[u], killReason[u]>>

LEMMA MoveKinds ==
  ASSUME TypeOK, OneThread, Awaited, [Next]_vars, NEW u \in Task
  PROVE  \/ Rests(u) \/ Begins(u) \/ Awaits(u) \/ GoesOn(u)
         \/ Returns(u) \/ Readies(u) \/ Spawns(u)
<1> USE DEF TypeOK
<1>1. CASE UNCHANGED vars
  BY <1>1 DEF vars, Rests
<1>2. ASSUME NEW t \in Task, StartStep(t)
      PROVE  \/ Rests(u) \/ Begins(u) \/ Awaits(u) \/ GoesOn(u)
             \/ Returns(u) \/ Readies(u) \/ Spawns(u)
  <2>1. CASE Create(t)
    BY <2>1 DEF Create, StartCalled, OneThread, Started, Rests, Begins
  <2>2. CASE StartLazy(t)
    BY <2>2 DEF StartLazy, StartCalled, Started, Rests, Begins
  <2>3. CASE GiveUp(t)
    BY <2>3 DEF GiveUp, Rests, Returns
  <2>4. CASE StartDep(t)
    <3>1. PICK d \in Task : d = Current(t) /\ d # t
      BY <2>4, CurrentType DEF StartDep
    <3>2. /\ pc[t] = "next" /\ ~LastDepPassed(t)
          /\ UNCHANGED <<dep, pid, live>>
          /\ \/ Started(d) /\ pc' = [pc EXCEPT ![t] = "await"]
             \/ ~Started(d) /\ pc' = [pc EXCEPT ![t] = "await", ![d] = "next"]
      BY <2>4, <3>1 DEF StartDep
    <3>3. Started(Current(t))'
      BY <3>1, <3>2 DEF Started, Current
    <3>4. CASE u = t
      BY <3>1, <3>2, <3>3, <3>4 DEF Awaits
    <3>5. CASE u # t
      BY <3>1, <3>2, <3>5 DEF Rests, Begins, Started
    <3> QED
      BY <3>4, <3>5
  <2>5. CASE DepListens(t)
    BY <2>5 DEF DepListens, Rests, GoesOn
  <2>6. CASE DepCompleted(t)
    <3>1. pc[t] = "await"
      BY <2>6 DEF DepCompleted, ReactionPending
    <3>2. Current(t) \in Task
      BY <3>1, CurrentType DEF Awaited
    <3> QED
      BY <2>6, <3>2 DEF DepCompleted, ReactionPending, InStart, Rests, GoesOn
  <2>7. CASE DepFailed(t) \/ DepTimesOut(t) \/ StartFails(t) \/ EnvFails(t)
    BY <2>7 DEF DepFailed, DepTimesOut, StartFails, EnvFails, MayLaunch, ReactionPending,
                Rests, Returns
  <2>8. CASE EnterRunning(t)
    BY <2>8 DEF EnterRunning, Rests
  <2>9. CASE Launch(t)
    BY <2>9 DEF Launch, MayLaunch, Spawn, Rests, Readies, Spawns
  <2>10. CASE PortsAllocated(t)
    BY <2>10 DEF PortsAllocated, Quiet, Rests, Readies
  <2>11. CASE Prepared(t)
    BY <2>11 DEF Prepared, Quiet, Spawn, Rests, Spawns
  <2> QED
    BY <1>2, <2>1, <2>2, <2>3, <2>4, <2>5, <2>6, <2>7, <2>8, <2>9, <2>10, <2>11
       DEF StartStep
<1>3. ASSUME NEW t \in Task, StopStep(t)
      PROVE  Rests(u)
  BY <1>3 DEF StopStep, UserKill, IdleExpires, CapExpires, Escalate, ChildExit, Rests
<1>4. ASSUME NEW t \in Task, AliveStep(t)
      PROVE  Rests(u)
  BY <1>4 DEF AliveStep, HeartbeatTick, ProxyHeartbeat, Rests
<1>5. CASE Release \/ Finish
  BY <1>5 DEF Release, Finish, Rests
<1> QED
  BY <1>1, <1>2, <1>3, <1>4, <1>5 DEF Next

\* Once a task was killed it stays marked as killed.
LEMMA KillReasonStays ==
  ASSUME TypeOK, [Next]_vars, NEW u \in Task, killReason[u] # NoReason
  PROVE  killReason'[u] # NoReason
<1> USE DEF TypeOK, NoReason, KillReason
<1>1. CASE UNCHANGED vars
  BY <1>1 DEF vars
<1>2. ASSUME NEW t \in Task, StartStep(t)
      PROVE  UNCHANGED killReason
  BY <1>2 DEF StartStep, Create, StartLazy, GiveUp, StartDep, DepListens,
              DepCompleted, DepFailed, DepTimesOut, EnterRunning, Launch, EnvFails,
              PortsAllocated, Prepared, StartFails
<1>3. ASSUME NEW t \in Task, StopStep(t)
      PROVE  killReason'[u] # NoReason
  BY <1>3 DEF StopStep, UserKill, IdleExpires, CapExpires, Escalate, ChildExit, KillCalled
<1>4. ASSUME NEW t \in Task, AliveStep(t)
      PROVE  UNCHANGED killReason
  BY <1>4 DEF AliveStep, HeartbeatTick, ProxyHeartbeat
<1>5. CASE Release
  BY <1>5 DEF Release
<1>6. CASE Finish
  BY <1>6 DEF Finish
<1> QED
  BY <1>1, <1>2, <1>3, <1>4, <1>5, <1>6 DEF Next

\* A task that has ended changes only when a start() that was under way
\* all along enters "running".
LEMMA EndedStays ==
  ASSUME TypeOK, OneThread, StackOrdered, [Next]_vars, NEW u \in Task,
         status[u] \in Terminal, DependsOn[u] = <<>> => pc[u] # "next"
  PROVE  status'[u] = status[u] /\ exitCode'[u] = exitCode[u]
<1>0. Finish => Len(calls) \in Nat \ {0}
  BY FinishEffect
<1> USE DEF TypeOK
<1>1. CASE UNCHANGED vars
  BY <1>1 DEF vars
<1>2. ~Continuing(u) /\ Created(u)
  BY DEF Continuing, Stoppable, Terminal, Created
<1>3. ASSUME NEW t \in Task, StartStep(t)
      PROVE  status'[u] = status[u] /\ exitCode'[u] = exitCode[u]
  <2>1. CASE Create(t)
    BY <1>2, <2>1 DEF Create
  <2>2. CASE EnterRunning(t)
    BY <2>2 DEF EnterRunning
  <2>3. CASE Launch(t)
    BY <1>2, <2>3 DEF Launch, MayLaunch
  <2>4. CASE ~Create(t) /\ ~EnterRunning(t) /\ ~Launch(t)
    <3>1. UNCHANGED <<status, exitCode>>
      BY <1>3, <2>4 DEF StartStep, StartLazy, GiveUp, StartDep, DepListens,
                DepCompleted, DepFailed, DepTimesOut, EnvFails,
                PortsAllocated, Prepared, StartFails
    <3> QED
      BY <3>1
  <2> QED
    BY <2>1, <2>2, <2>3, <2>4
<1>4. ASSUME NEW t \in Task, StopStep(t)
      PROVE  status'[u] = status[u] /\ exitCode'[u] = exitCode[u]
  BY <1>2, <1>4 DEF StopStep, UserKill, IdleExpires, CapExpires, Escalate, ChildExit,
                    KillCalled
<1>5. ASSUME NEW t \in Task, AliveStep(t)
      PROVE  UNCHANGED <<status, exitCode>>
  BY <1>5 DEF AliveStep, HeartbeatTick, ProxyHeartbeat
<1>6. CASE Release
  BY <1>2, <1>6 DEF Release
<1>7. CASE Finish
  <2>1. 1 \in 1 .. Len(calls)
    BY <1>0, <1>7
  <2>2. Top.task # u
    BY <2>1 DEF StackOrdered, Ordered, Top
  <2> QED
    BY <1>7, <2>2 DEF Finish
<1> QED
  BY <1>1, <1>3, <1>4, <1>5, <1>6, <1>7 DEF Next

\* A task ends only in its own exit().
LEMMA EndsInExit ==
  ASSUME TypeOK, [Next]_vars, NEW u \in Task,
         status'[u] \in Terminal, status[u] \notin Terminal
  PROVE  /\ Ending(u)
         /\ UNCHANGED <<pc, live, killReason>>
<1> USE DEF TypeOK
<1>1. CASE Finish
  <2>1. u = Releaser
    BY <1>1, FinishEffect
  <2> QED
    BY <1>1, <2>1, FinishEffect DEF Finish
<1>2. CASE Release
  BY <1>2, ReleaseEffect, ReleaseTasks DEF Terminal
<1>3. CASE Still
  BY <1>3 DEF Still
<1>4. ASSUME NEW t \in Task, Create(t) \/ Enters(t) \/ Exits(t) \/ Kills(t)
      PROVE  FALSE
  BY <1>4 DEF Create, Enters, EnterRunning, Launch, Exits, Kills, KillCalled, Terminal
<1> QED
  BY <1>1, <1>2, <1>3, <1>4, StepKinds

\* A step outside of exit() makes only its own task ending.
LEMMA PushedTask ==
  ASSUME TypeOK, NEW t \in Task, NEW u \in Task, Ending(u)', ~Ending(u),
         \E code \in Code : ExitCalled(t, code)
  PROVE  u = t
<1>1. PICK code \in Code : ExitCalled(t, code)
  OBVIOUS
<1>2. CASE UNCHANGED calls
  BY <1>2 DEF Ending
<1>3. CASE calls' = <<ExitCall(t, code)>> \o calls
  <2>1. ExitCall(t, code) \in Call /\ ExitCall(t, code).task = t
    BY ExitCallType DEF ExitCall
  <2> QED
    BY <1>3, <2>1, EndingPush
<1> QED
  BY <1>1, <1>2, <1>3 DEF ExitCalled

\* exit() is called for a task without a child; and if its process is being
\* prepared, the task has been killed.
LEMMA ExitBegins ==
  ASSUME TypeOK, OneThread, Awaited, OneChild, [Next]_vars, NEW u \in Task,
         Ending(u)', ~Ending(u)
  PROVE  /\ ~live'[u]
         /\ pc'[u] \in {"ports", "prepare"} => killReason'[u] # NoReason
<1> USE DEF TypeOK
<1>1. calls' # calls
  BY DEF Ending
<1>2. ASSUME NEW t \in Task, StartStep(t)
      PROVE  /\ u = t /\ ~live'[u]
             /\ pc'[u] = "done"
  <2>1. DepFailed(t) \/ DepTimesOut(t) \/ StartFails(t) \/ EnvFails(t)
    BY <1>1, <1>2 DEF StartStep, Create, StartLazy, GiveUp, StartDep, DepListens,
              DepCompleted, EnterRunning, Launch, PortsAllocated, Prepared
  <2>2. /\ pc[t] \in {"next", "await", "ports", "prepare"} /\ pc' = [pc EXCEPT ![t] = "done"]
        /\ UNCHANGED live
        /\ \E code \in Code : ExitCalled(t, code)
    BY <2>1 DEF DepFailed, DepTimesOut, StartFails, EnvFails, MayLaunch, ReactionPending, Code
  <2>3. u = t
    BY <1>1, <2>2, PushedTask
  <2> QED
    BY <2>2, <2>3 DEF OneChild
<1>3. ASSUME NEW t \in Task, StopStep(t)
      PROVE  /\ ~live'[u]
             /\ pc'[u] \in {"ports", "prepare"} => killReason'[u] # NoReason
  <2>1. CASE \E code \in Code : ChildExit(t, code)
    <3>1. live[t] /\ live' = [live EXCEPT ![t] = FALSE] /\ UNCHANGED pc
          /\ \E code \in Code : ExitCalled(t, code)
      BY <2>1 DEF ChildExit
    <3>2. u = t
      BY <3>1, PushedTask
    <3> QED
      BY <3>1, <3>2 DEF OneChild
  <2>2. CASE UserKill(t) \/ IdleExpires(t) \/ CapExpires(t)
    <3>1. PICK reason \in KillReason : KillCalled(t, reason)
      BY <1>1, <2>2 DEF UserKill, IdleExpires, CapExpires, KillReason
    <3>2. ~live[t] /\ UNCHANGED live /\ ExitCalled(t, 0) /\ killReason'[t] = reason
      BY <1>1, <2>2, <3>1 DEF KillCalled, UserKill, IdleExpires, CapExpires
    <3>3. u = t
      BY <3>2, PushedTask DEF Code
    <3> QED
      BY <3>2, <3>3 DEF KillReason, NoReason
  <2> QED
    BY <1>1, <1>3, <2>1, <2>2 DEF StopStep, Escalate
<1>4. ASSUME NEW t \in Task, AliveStep(t)
      PROVE  FALSE
  BY <1>1, <1>4 DEF AliveStep, HeartbeatTick, ProxyHeartbeat
<1>5. CASE Release
  <2> DEFINE orphan == Released \notin Root /\ ~HeldByOther(Released, Releaser)
             cancel == orphan /\ ~Started(Released) /\ status[Released] \notin Terminal
             stop   == orphan /\ Started(Released) /\ Continuing(Released)
  <2>1. /\ u = Released /\ calls' # Unwound
    BY <1>5, ReleaseEffect
  <2>2. /\ calls' = IF cancel \/ (stop /\ ~live[Released])
                    THEN <<ExitCall(Released, 0)>> \o Unwound
                    ELSE Unwound
        /\ UNCHANGED <<pc, live>>
        /\ killReason' = [killReason EXCEPT ![Released] =
             IF stop THEN (IF killReason[Releaser] = NoReason
                           THEN "stopped" ELSE killReason[Releaser])
             ELSE IF cancel /\ killReason[Releaser] # NoReason THEN killReason[Releaser]
             ELSE @]
    BY <1>5, Zenon DEF Release, Releaser, Released, Unwound
  <2>3. cancel \/ (stop /\ ~live[Released])
    BY <2>1, <2>2
  <2>4. CASE cancel
    BY <2>1, <2>2, <2>4 DEF OneThread, Started
  <2>5. CASE stop /\ ~live[Released]
    <3>1. killReason'[Released] # NoReason
      BY <2>1, <2>2, <2>5 DEF NoReason
    <3> QED
      BY <2>1, <2>2, <2>5, <3>1
  <2> QED
    BY <2>3, <2>4, <2>5
<1>6. CASE Finish
  BY <1>6, FinishEffect
<1> QED
  BY <1>1, <1>2, <1>3, <1>4, <1>5, <1>6 DEF Next, vars

-----------------------------------------------------------------------------
(* Preservation of the invariant, one part after the other. *)

LEMMA StartedStays ==
  ASSUME TypeOK, OneThread, Awaited, [Next]_vars, NEW u \in Task
  PROVE  /\ Started(u) => Started(u)'
         /\ pid[u] => pid'[u]
  BY MoveKinds DEF Rests, Begins, Awaits, GoesOn, Returns, Readies, Spawns, Started

LEMMA AwaitedStep ==
  ASSUME TypeOK, OneThread, Awaited, [Next]_vars
  PROVE  Awaited'
<1> SUFFICES ASSUME NEW u \in Task, pc'[u] = "await"
             PROVE  ~LastDepPassed(u)' /\ Started(Current(u))'
  BY DEF Awaited
<1>1. CASE Awaits(u)
  BY <1>1 DEF Awaits, LastDepPassed
<1>2. CASE Rests(u)
  <2>1. ~LastDepPassed(u) /\ Started(Current(u)) /\ dep'[u] = dep[u]
    BY <1>2 DEF Rests, Awaited
  <2>2. Current(u) \in Task /\ Current(u)' = Current(u)
    BY <2>1, CurrentType DEF Current
  <2>3. Started(Current(u))'
    BY <2>1, <2>2, StartedStays DEF Started
  <2> QED
    BY <2>1, <2>3 DEF LastDepPassed
<1> QED
  BY <1>1, <1>2, MoveKinds DEF Begins, GoesOn, Returns, Readies, Spawns

LEMMA ServedStays ==
  ASSUME TypeOK, OneThread, StartedByHolder, StackOrdered, Awaited, [Next]_vars,
         NEW d \in Task, Served(d)
  PROVE  Served(d)'
<1>1. CASE d \in PortTask
  BY <1>1, StartedStays DEF Served
<1>2. CASE d \notin PortTask
  <2>1. status'[d] = status[d] /\ exitCode'[d] = exitCode[d]
    BY <1>2, EndedStays DEF Served
  <2>2. Started(d) => Started(d)'
    BY StartedStays
  <2>3. DependsOn[d] = <<>> => pc'[d] # "next"
    BY <1>2, MoveKinds DEF Served, StartedByHolder, Started,
       Rests, Begins, Awaits, GoesOn, Returns, Readies, Spawns
  <2> QED
    BY <1>2, <2>1, <2>2, <2>3 DEF Served
<1> QED
  BY <1>1, <1>2

LEMMA PassedStep ==
  ASSUME TypeOK, OneThread, StartedByHolder, StackOrdered, Awaited, OneChild, Passed,
         [Next]_vars
  PROVE  Passed'
<1> SUFFICES ASSUME NEW u \in Task, NEW i \in 1 .. Len(DependsOn[u]), i < dep'[u]
             PROVE  Served(DependsOn[u][i])'
  BY DEF Passed
<1>1. DependsOn[u][i] \in Task /\ Len(DependsOn[u]) \in Nat /\ dep[u] \in Nat
  BY DepType DEF TypeOK
<1>2. CASE i < dep[u]
  BY <1>1, <1>2, ServedStays DEF Passed
<1>3. CASE ~(i < dep[u])
  <2>1. GoesOn(u)
    BY <1>3, MoveKinds DEF Rests, Begins, Awaits, Returns, Readies, Spawns
  <2>2. i = dep[u] /\ Current(u) = DependsOn[u][i]
    BY <1>1, <1>3, <2>1 DEF GoesOn, Current
  <2>3. Started(Current(u))
    BY <2>1 DEF GoesOn, Awaited
  <2>4. Served(Current(u))
    BY <1>1, <2>1, <2>2, <2>3 DEF GoesOn, Served, OneChild
  <2> QED
    BY <1>1, <2>2, <2>4, ServedStays
<1> QED
  BY <1>2, <1>3

LEMMA SpawnedAfterStep ==
  ASSUME TypeOK, OneThread, Awaited, OneChild, SpawnedAfter, [Next]_vars
  PROVE  SpawnedAfter'
<1> SUFFICES ASSUME NEW u \in Task, pid'[u] \/ pc'[u] \in {"ports", "prepare"}
             PROVE  LastDepPassed(u)'
  BY DEF SpawnedAfter
<1>1. LastDepPassed(u) /\ dep'[u] = dep[u]
  BY MoveKinds DEF SpawnedAfter, OneChild, Rests, Begins, Awaits, GoesOn, Returns,
                   Readies, Spawns
<1> QED
  BY <1>1 DEF LastDepPassed

LEMMA OneChildStep ==
  ASSUME TypeOK, OneThread, Awaited, OneChild, [Next]_vars
  PROVE  OneChild'
<1> SUFFICES ASSUME NEW u \in Task
             PROVE  /\ live'[u] => pid'[u]
                    /\ pid'[u] => pc'[u] = "done"
                    /\ Ending(u)' => ~live'[u]
                    /\ pc'[u] \in {"ports", "prepare"} => u \in SlowSpawn
  BY DEF OneChild
<1>1. /\ live'[u] => pid'[u]
      /\ pid'[u] => pc'[u] = "done"
      /\ pc'[u] \in {"ports", "prepare"} => u \in SlowSpawn
  BY MoveKinds DEF TypeOK, OneChild, Rests, Begins, Awaits, GoesOn, Returns, Readies, Spawns
<1>2. ASSUME Ending(u)'
      PROVE  ~live'[u]
  <2>1. CASE ~Ending(u)
    BY <1>2, <2>1, ExitBegins
  <2>2. CASE Ending(u)
    <3>1. ~live[u]
      BY <2>2 DEF OneChild
    <3>2. calls' # <<>>
      BY <1>2 DEF Ending
    <3> QED
      BY <3>1, <3>2, MoveKinds
         DEF Rests, Begins, Awaits, GoesOn, Returns, Readies, Spawns
  <2> QED
    BY <2>1, <2>2
<1> QED
  BY <1>1, <1>2

LEMMA KilledEarlyStep ==
  ASSUME TypeOK, OneThread, Awaited, OneChild, KilledEarly, [Next]_vars
  PROVE  KilledEarly'
<1> SUFFICES ASSUME NEW u \in Task, pc'[u] \in {"ports", "prepare"},
                    Ending(u)' \/ status'[u] \in Terminal
             PROVE  killReason'[u] # NoReason
  BY DEF KilledEarly
<1>1. CASE pc[u] \in {"ports", "prepare"} /\ (Ending(u) \/ status[u] \in Terminal)
  BY <1>1, KillReasonStays DEF KilledEarly
<1>2. CASE Ending(u)' /\ ~Ending(u)
  BY <1>2, ExitBegins
<1>3. CASE status'[u] \in Terminal /\ status[u] \notin Terminal
  BY <1>1, <1>3, EndsInExit
<1>4. CASE pc[u] \notin {"ports", "prepare"}
  <2>1. Readies(u) /\ pc[u] = "next" /\ status'[u] = "running"
    BY <1>4, MoveKinds DEF Rests, Begins, Awaits, GoesOn, Returns, Readies, Spawns
  <2> QED
    BY <2>1 DEF Readies, Ending, Terminal
<1> QED
  BY <1>1, <1>2, <1>3, <1>4

LEMMA ChildOwnedStep ==
  ASSUME TypeOK, OneThread, Awaited, OneChild, KilledEarly, ChildOwned, [Next]_vars
  PROVE  ChildOwned'
<1> SUFFICES ASSUME NEW u \in Task, live'[u], status'[u] \in Terminal
             PROVE  u \in SlowSpawn /\ killReason'[u] # NoReason
  BY DEF ChildOwned
<1>1. CASE live[u] /\ status[u] \in Terminal
  BY <1>1, KillReasonStays DEF ChildOwned
<1>2. CASE live[u] /\ status[u] \notin Terminal
  BY <1>2, EndsInExit DEF OneChild
<1>3. CASE ~live[u]
  <2>1. Spawns(u)
    BY <1>3, MoveKinds DEF Rests, Begins, Awaits, GoesOn, Returns, Readies
  <2>2. pc[u] = "prepare" /\ status[u] \in Terminal
    BY <2>1 DEF Spawns, Terminal
  <2> QED
    BY <2>1, <2>2, KillReasonStays DEF OneChild, KilledEarly
<1> QED
  BY <1>1, <1>2, <1>3

LEMMA SpawnInvCorrect == Spec => []SpawnInv
<1>1. Init => SpawnInv
  BY DEF Init, SpawnInv, StackOrdered, Ordered, Awaited, Passed, SpawnedAfter, OneChild,
         KilledEarly, ChildOwned, Ending, Terminal
<1>2. TypeOK /\ OrphanInv /\ SpawnInv /\ [Next]_vars => SpawnInv'
  BY StackOrderedStep, AwaitedStep, PassedStep, SpawnedAfterStep, OneChildStep,
     KilledEarlyStep, ChildOwnedStep DEF OrphanInv, SpawnInv
<1> QED
  BY <1>1, <1>2, OrphanInvCorrect, PTL DEF Spec

\* Whatever the dependency graph, the kills and the time-outs, a child is
\* spawned only after every task it depends on listens or has completed.
THEOREM DependenciesReady == Spec => []DepsReadyBeforeSpawn
<1>1. TypeOK /\ SpawnInv => DepsReadyBeforeSpawn
  <2> SUFFICES ASSUME TypeOK, SpawnInv, NEW t \in Task, pid[t], NEW d \in Deps(t)
               PROVE  IF d \in PortTask
                      THEN pid[d]
                      ELSE Started(d) /\ status[d] \in Terminal /\ exitCode[d] = 0
    BY DEF DepsReadyBeforeSpawn
  <2>1. PICK i \in 1 .. Len(DependsOn[t]) : d = DependsOn[t][i]
    BY DEF Deps
  <2>2. i < dep[t]
    BY DepType DEF SpawnInv, SpawnedAfter, LastDepPassed, TypeOK
  <2> QED
    BY <2>1, <2>2 DEF SpawnInv, Passed, Served
<1> QED
  BY <1>1, OrphanInvCorrect, SpawnInvCorrect, PTL

\* The one way a child gets out of reach, for every graph: its task was killed
\* while its process was being prepared.
THEOREM ChildrenOwned == Spec => []ChildOwned
<1>1. SpawnInv => ChildOwned
  BY DEF SpawnInv
<1> QED
  BY <1>1, SpawnInvCorrect, PTL

-----------------------------------------------------------------------------
(* What the mapping needs beyond the other invariants. *)

\* A task that is being stopped has a child that is still to exit, or exit()
\* is in progress: it is not left half-way.
ExitingEnds == \A t \in Task : status[t] = "exiting" => live[t] \/ Ending(t)

\* A task that is no panel task enters "running" when nothing depends on it
\* (the code server) or on behalf of a task that goes on.
StartedInTurn ==
  \A t \in Task \ Root :
    pc[t] = "next" /\ DependsOn[t] = <<>> =>
      \/ \A p \in Task : t \notin Deps(p)
      \/ \E p \in dependents[t] : Continuing(p)

LeaseInv == ExitingEnds /\ StartedInTurn

LEMMA ExitCalledEnds ==
  ASSUME TypeOK, NEW t \in Task, NEW code \in Code, ExitCalled(t, code),
         status[t] \notin Terminal
  PROVE  Ending(t)'
<1>1. ExitCall(t, code) \in Call /\ ExitCall(t, code).task = t
  BY ExitCallType DEF ExitCall
<1>2. calls' = <<ExitCall(t, code)>> \o calls
  BY DEF ExitCalled
<1> QED
  BY <1>1, <1>2, EndingPush

LEMMA ExitingEndsStep ==
  ASSUME TypeOK, OneThread, OneChild, ExitingEnds, [Next]_vars
  PROVE  ExitingEnds'
<1> SUFFICES ASSUME NEW u \in Task, status'[u] = "exiting"
             PROVE  live'[u] \/ Ending(u)'
  BY DEF ExitingEnds
<1>1. CASE UNCHANGED vars
  BY <1>1 DEF vars, ExitingEnds, Ending
<1>2. ASSUME NEW t \in Task, StartStep(t)
      PROVE  live'[u]
  <2>1. status[u] = "exiting"
    BY <1>2 DEF StartStep, Create, StartLazy, GiveUp, StartDep, DepListens,
       DepCompleted, DepFailed, DepTimesOut, EnterRunning, Launch, EnvFails,
       PortsAllocated, Prepared, StartFails, TypeOK
  <2>2. live[u]
    BY <1>2, <2>1, EmptyStack DEF ExitingEnds, Ending
  <2> QED
    BY <1>2, <2>2, MoveKinds
       DEF StartStep, Create, StartLazy, GiveUp, StartDep, DepListens,
       DepCompleted, DepFailed, DepTimesOut, EnterRunning, Launch, EnvFails, Spawn,
       PortsAllocated, Prepared, StartFails, TypeOK
<1>3. ASSUME NEW t \in Task, StopStep(t)
      PROVE  live'[u] \/ Ending(u)'
  <2>1. calls = <<>>
    BY <1>3, EmptyStack
  <2>2. CASE \E reason \in KillReason : KillCalled(t, reason) /\ UNCHANGED live
    <3>1. CASE u = t
      BY <2>2, <3>1, ExitCalledEnds DEF KillCalled, Code, Continuing, Stoppable, Terminal
    <3>2. CASE u # t
      BY <2>1, <2>2, <3>2 DEF KillCalled, ExitingEnds, Ending, TypeOK
    <3> QED
      BY <3>1, <3>2
  <2>3. CASE UNCHANGED <<status, live>>
    BY <2>1, <2>3 DEF ExitingEnds, Ending
  <2>4. ASSUME NEW code \in Code, ChildExit(t, code)
        PROVE  live'[u] \/ Ending(u)'
    <3>1. status[u] = "exiting" /\ live[u]
      BY <2>1, <2>4 DEF ChildExit, ExitingEnds, Ending
    <3>2. CASE u = t
      BY <2>4, <3>1, <3>2, ExitCalledEnds DEF ChildExit, Terminal
    <3>3. CASE u # t
      BY <2>4, <3>1, <3>3 DEF ChildExit, TypeOK
    <3> QED
      BY <3>2, <3>3
  <2> QED
    BY <1>3, <2>2, <2>3, <2>4 DEF StopStep, UserKill, IdleExpires, CapExpires, Escalate,
                                 KillReason
<1>4. ASSUME NEW t \in Task, AliveStep(t)
      PROVE  live'[u] \/ Ending(u)'
  BY <1>4 DEF AliveStep, HeartbeatTick, ProxyHeartbeat, ExitingEnds, Ending
<1>5. CASE Release
  <2> DEFINE orphan == Released \notin Root /\ ~HeldByOther(Released, Releaser)
             cancel == orphan /\ ~Started(Released) /\ status[Released] \notin Terminal
             stop   == orphan /\ Started(Released) /\ Continuing(Released)
  <2>1. /\ calls' = IF cancel \/ (stop /\ ~live[Released])
                    THEN <<ExitCall(Released, 0)>> \o Unwound
                    ELSE Unwound
        /\ UNCHANGED live
        /\ status' = [status EXCEPT ![Released] = IF stop THEN "exiting" ELSE @]
    BY <1>5, Zenon DEF Release, Releaser, Released, Unwound
  <2>2. Ending(u) => Ending(u)'
    BY <1>5, ReleaseEffect
  <2>3. CASE status[u] = "exiting"
    BY <2>1, <2>2, <2>3 DEF ExitingEnds
  <2>4. CASE status[u] # "exiting"
    <3>1. u = Released /\ stop
      BY <2>1, <2>4 DEF TypeOK
    <3>2. CASE live[Released]
      BY <2>1, <3>1, <3>2
    <3>3. CASE ~live[Released]
      <4>1. calls' = <<ExitCall(Released, 0)>> \o Unwound
        BY <2>1, <3>1, <3>3
      <4>2. /\ ExitCall(Released, 0) \in Call /\ ExitCall(Released, 0).task = Released
            /\ Unwound \in Seq(Call)
        BY <1>5, ReleaseTasks, ExitCallType, UnwoundCalls DEF Code, ExitCall
      <4>3. InCalls(calls', Released)
        BY <4>1, <4>2, PushInCalls
      <4> QED
        BY <3>1, <4>3 DEF InCalls, Ending
    <3> QED
      BY <3>2, <3>3
  <2> QED
    BY <2>3, <2>4
<1>6. CASE Finish
  <2>1. u # Releaser /\ status'[u] = status[u] /\ UNCHANGED live
    BY <1>6, FinishEffect DEF Terminal, Finish
  <2> QED
    BY <1>6, <2>1, FinishEffect DEF ExitingEnds
<1> QED
  BY <1>1, <1>2, <1>3, <1>4, <1>5, <1>6 DEF Next

LEMMA StartedInTurnStep ==
  ASSUME TypeOK, OneThread, Registered, StartedByHolder, Awaited, StartedInTurn,
         [Next]_vars
  PROVE  StartedInTurn'
<1> SUFFICES ASSUME NEW u \in Task \ Root, pc'[u] = "next", DependsOn[u] = <<>>,
                    NEW q \in Task, u \in Deps(q)
             PROVE  \E p \in dependents'[u] : Continuing(p)'
  BY DEF StartedInTurn
<1>1. CASE pc[u] = "next"
  <2>1. PICK p \in dependents[u] : Continuing(p)
    BY <1>1 DEF StartedInTurn
  <2>2. p \in Task
    BY DEF TypeOK
  <2>3. calls = <<>> /\ InStart
    BY <1>1 DEF OneThread, InStart
  <2>4. UNCHANGED <<status, dependents>> \/ EnterRunning(u)
    <3>1. ASSUME NEW t \in Task, StartStep(t)
          PROVE  UNCHANGED <<status, dependents>> \/ EnterRunning(u)
      <4>1. ~Create(t) /\ (EnterRunning(t) => t = u) /\ (Launch(t) => t = u)
        BY <1>1, <2>3 DEF Create, Quiet, EnterRunning, Launch, MayLaunch, OneThread
      <4>2. ~Launch(u)
        BY DEF Launch, Spawn, TypeOK
      <4> QED
        BY <3>1, <4>1, <4>2 DEF StartStep, StartLazy, GiveUp, StartDep, DepListens,
           DepCompleted, DepFailed, DepTimesOut, EnvFails, PortsAllocated, Prepared,
           StartFails
    <3>2. ASSUME NEW t \in Task, StopStep(t) \/ AliveStep(t)
          PROVE  FALSE
      BY <2>3, <3>2 DEF StopStep, UserKill, IdleExpires, CapExpires, Escalate, ChildExit,
                        AliveStep, HeartbeatTick, ProxyHeartbeat, Quiet
    <3> QED
      BY <2>3, <3>1, <3>2 DEF Next, vars, Release, Finish
  <2> QED
    BY <2>1, <2>2, <2>4 DEF EnterRunning, Continuing, Stoppable, TypeOK
<1>2. CASE pc[u] # "next"
  <2>1. pc[u] = "unstarted"
    BY <1>2, MoveKinds DEF StartedByHolder, Rests, Begins, Awaits, GoesOn, Returns,
                           Readies, Spawns
  <2>2. PICK t \in Task : StartStep(t)
    BY <1>2 DEF Next, vars, StopStep, UserKill, IdleExpires, CapExpires, Escalate,
                ChildExit, AliveStep, HeartbeatTick, ProxyHeartbeat, Release, Finish
  <2>3. Create(t) \/ StartLazy(t) \/ StartDep(t)
    BY <1>2, <2>1, <2>2 DEF StartStep, GiveUp, DepListens, DepCompleted, DepFailed,
       DepTimesOut, EnterRunning, Launch, EnvFails, MayLaunch, PortsAllocated, Prepared,
       StartFails, Spawn, ReactionPending, TypeOK
  <2>4. ~Create(t)
    BY <1>2, KindAssumption DEF Create, StartCalled, TypeOK
  <2>5. ~StartLazy(t)
    BY <1>2, LazyAssumption DEF StartLazy, StartCalled, TypeOK
  <2>6. StartDep(t)
    BY <2>3, <2>4, <2>5
  <2>7. u = Current(t) /\ Current(t) \in Deps(t) /\ Continuing(t)
        /\ UNCHANGED <<status, dependents>> /\ calls = <<>>
    BY <1>2, <2>6, CurrentType DEF StartDep, TypeOK
  <2>8. t \in dependents[u]
    BY <2>7 DEF Registered, Continuing, Stoppable, Terminal, Created, Ending
  <2> QED
    BY <2>7, <2>8 DEF Continuing
<1> QED
  BY <1>1, <1>2

-----------------------------------------------------------------------------
(* The mapping.                                                              *)

LEMMA Phases ==
  ASSUME TypeOK, NEW t \in Task
  PROVE  /\ LeasePhase(t) = "absent" <=> ~Created(t)
         /\ LeasePhase(t) = "down" <=> status[t] \in Terminal
         /\ LeasePhase(t) = "up" <=> Continuing(t) /\ ~Ending(t)
         /\ LeasePhase(t) = "ending"
              <=> status[t] \in Active /\ (status[t] = "exiting" \/ Ending(t))
         /\ LeasePhase(t) \in {"up", "ending"} <=> status[t] \in Active
  BY DEF TypeOK, LeasePhase, Created, Continuing, Stoppable, Active, Terminal, Status

PhaseMap == [t \in Task |-> LeasePhase(t)]

\* A step is a lease step when it changes one phase, as seen task by task.
LEMMA OnePhase ==
  ASSUME NEW t \in Task, NEW x, LeasePhase(t)' = x,
         \A u \in Task : u # t => LeasePhase(u)' = LeasePhase(u)
  PROVE  PhaseMap' = [PhaseMap EXCEPT ![t] = x]
  BY DEF PhaseMap

LEMMA SamePhases ==
  ASSUME \A u \in Task : LeasePhase(u)' = LeasePhase(u)
  PROVE  PhaseMap' = PhaseMap
  BY DEF PhaseMap

LEMMA SamePhase ==
  ASSUME NEW u \in Task, status'[u] = status[u], Ending(u)' <=> Ending(u)
  PROVE  LeasePhase(u)' = LeasePhase(u)
  BY DEF LeasePhase, Created

LEMMA LeaseStep ==
  ASSUME TypeOK, TypeOK', OrphanInv, SpawnInv, LeaseInv, [Next]_vars
  PROVE  Lease!LeaseNext \/ (PhaseMap' = PhaseMap /\ dependents' = dependents)
<1> USE DEF OrphanInv, SpawnInv, LeaseInv
<1>1. CASE Still
  <2>1. \A u \in Task : LeasePhase(u)' = LeasePhase(u)
    BY <1>1 DEF Still, LeasePhase, Created, Ending
  <2> QED
    BY <1>1, <2>1, SamePhases DEF Still
<1>2. ASSUME NEW t \in Task, Create(t)
      PROVE  Lease!Arrive(t)
  <2>1. /\ ~Created(t) /\ (\A d \in Deps(t) : Created(d))
        /\ status' = [status EXCEPT ![t] = "waiting"]
        /\ calls = <<>> /\ calls' = calls
        /\ dependents' = [d \in Task |-> IF d \in Deps(t) THEN dependents[d] \cup {t}
                                                          ELSE dependents[d]]
    BY <1>2 DEF Create, Quiet
  <2>2. \A u : ~Ending(u) /\ ~Ending(u)'
    BY <2>1 DEF Ending
  <2>3. LeasePhase(t)' = "up"
    BY <2>1, <2>2, Phases DEF LeasePhase, Created, Terminal, TypeOK
  <2>4. \A u \in Task : u # t => LeasePhase(u)' = LeasePhase(u)
    BY <2>1, <2>2, SamePhase DEF TypeOK
  <2>5. PhaseMap' = [PhaseMap EXCEPT ![t] = "up"]
    BY <2>3, <2>4, OnePhase
  <2>6. PhaseMap[t] = "absent" /\ \A d \in Deps(t) : PhaseMap[d] # "absent"
    BY <2>1, Phases, DepType DEF PhaseMap
  <2> QED
    BY <2>1, <2>5, <2>6 DEF Lease!Arrive, PhaseMap
<1>3. ASSUME NEW t \in Task, Enters(t)
      PROVE  Lease!Revive(t) \/ (PhaseMap' = PhaseMap /\ dependents' = dependents)
  <2>1. /\ status' = [status EXCEPT ![t] = "running"] /\ UNCHANGED dependents
        /\ calls = <<>> /\ calls' = calls
        /\ pc[t] = "next"
        /\ DependsOn[t] = <<>> \/ Continuing(t)
    BY <1>3 DEF Enters, EnterRunning, Launch, MayLaunch
  <2>2. \A u : ~Ending(u) /\ ~Ending(u)'
    BY <2>1 DEF Ending
  <2>3. LeasePhase(t)' = "up"
    BY <2>1, <2>2 DEF LeasePhase, Created, Terminal, TypeOK
  <2>4. \A u \in Task : u # t => LeasePhase(u)' = LeasePhase(u)
    BY <2>1, <2>2, SamePhase DEF TypeOK
  <2>5. PhaseMap' = [PhaseMap EXCEPT ![t] = "up"]
    BY <2>3, <2>4, OnePhase
  <2>6. CASE Continuing(t)
    <3>1. LeasePhase(t) = "up"
      BY <2>2, <2>6, Phases
    <3> QED
      BY <2>1, <2>3, <2>4, <3>1, SamePhases
  <2>7. CASE ~Continuing(t)
    <3>1. status[t] \in Terminal
      <4>1. Created(t) /\ status[t] # "exiting"
        BY <2>1, <2>2 DEF OneThread, OneChild, ExitingEnds, Started
      <4> QED
        BY <2>7, <4>1 DEF TypeOK, Status, Active, Terminal, Continuing, Stoppable, Created
    <3>2. PhaseMap[t] = "down"
      BY <3>1, Phases DEF PhaseMap
    <3>3. Deps(t) = {}
      BY <2>1, <2>7 DEF Deps
    <3>4. \/ t \in Root
          \/ \A p \in Task : t \notin Deps(p)
          \/ \E p \in dependents[t] : PhaseMap[p] = "up"
      <4>1. \A p \in dependents[t] : p \in Task
        BY DEF TypeOK
      <4> QED
        BY <2>1, <2>2, <2>7, <4>1, Phases DEF StartedInTurn, PhaseMap
    <3> QED
      BY <2>1, <2>5, <3>2, <3>3, <3>4 DEF Lease!Revive, PhaseMap
  <2> QED
    BY <2>6, <2>7
<1>4. ASSUME NEW t \in Task, Exits(t) \/ Kills(t), calls = <<>>
      PROVE  Lease!End(t) \/ (PhaseMap' = PhaseMap /\ dependents' = dependents)
  <2>1. /\ UNCHANGED dependents
        /\ \A u \in Task : u # t => status'[u] = status[u]
    BY <1>4 DEF Exits, Kills, KillCalled, TypeOK
  <2>2. \A u \in Task : ~Ending(u) /\ (Ending(u)' => u = t)
    <3>1. \A u \in Task : ~Ending(u)
      BY <1>4 DEF Ending
    <3>2. (\E code \in Code : ExitCalled(t, code)) \/ UNCHANGED calls
      BY <1>4 DEF Exits, Kills, KillCalled, Code
    <3>3. UNCHANGED calls => \A u \in Task : Ending(u)' <=> Ending(u)
      BY DEF Ending
    <3> QED
      BY <3>1, <3>2, <3>3, PushedTask
  <2>3. \A u \in Task : u # t => LeasePhase(u)' = LeasePhase(u)
    BY <2>1, <2>2, SamePhase
  <2>4. CASE status[t] \in Terminal
    <3>1. UNCHANGED <<status, calls>>
      BY <1>4, <2>4 DEF Exits, ExitCalled, Kills, KillCalled, Continuing, Stoppable, Terminal
    <3>2. LeasePhase(t)' = LeasePhase(t)
      BY <3>1, SamePhase DEF Ending
    <3> QED
      BY <2>1, <2>3, <3>2, SamePhases
  <2>5. CASE status[t] \notin Terminal
    <3>1. Created(t)
      BY <1>4 DEF Exits, Kills, KillCalled, OneThread, Created, Continuing, Stoppable
    <3>2. status'[t] = "exiting" \/ (status'[t] = status[t] /\ Ending(t)')
      BY <1>4, <2>5, ExitCalledEnds DEF Exits, Kills, KillCalled, TypeOK
    <3>3. LeasePhase(t)' = "ending"
      BY <2>5, <3>1, <3>2 DEF LeasePhase, Created, Terminal
    <3>4. PhaseMap' = [PhaseMap EXCEPT ![t] = "ending"]
      BY <2>3, <3>3, OnePhase
    <3>5. CASE LeasePhase(t) = "up"
      BY <2>1, <3>4, <3>5 DEF Lease!End, PhaseMap
    <3>6. CASE LeasePhase(t) # "up"
      <4>1. LeasePhase(t) = "ending"
        BY <2>5, <3>1, <3>6 DEF LeasePhase
      <4> QED
        BY <2>1, <2>3, <3>3, <4>1, SamePhases
    <3> QED
      BY <3>5, <3>6
  <2> QED
    BY <2>4, <2>5
<1>5. CASE Finish
  <2>1. PICK t \in Task : t = Releaser
    BY <1>5, FinishEffect
  <2>2. /\ Ending(t)
        /\ \A u \in Task : u # t => status'[u] = status[u]
        /\ status'[t] \in Terminal
        /\ UNCHANGED dependents
        /\ \A u : u # t => (Ending(u)' <=> Ending(u))
        /\ Top.left = 0 /\ Top.task = t /\ 1 \in 1 .. Len(calls)
    BY <1>5, <2>1, FinishEffect DEF Releaser
  <2>3. status[t] \notin Terminal /\ Created(t)
    BY <2>2 DEF StackOrdered, Ordered, Registered, Top
  <2>4. \A d \in Task : t \notin dependents[d]
    BY <2>2 DEF Unwinding, HoldsAhead, Top
  <2>5. \A u \in Task : u # t => LeasePhase(u)' = LeasePhase(u)
    BY <2>2, SamePhase
  <2>6. LeasePhase(t)' = "down" /\ LeasePhase(t) = "ending"
    BY <2>2, <2>3 DEF LeasePhase, Created, Terminal
  <2>7. PhaseMap' = [PhaseMap EXCEPT ![t] = "down"]
    BY <2>5, <2>6, OnePhase
  <2>8. Lease!GoDown(t)
    BY <2>2, <2>4, <2>6, <2>7 DEF Lease!GoDown, PhaseMap
  <2> QED
    BY <2>8 DEF Lease!LeaseNext
<1>6. CASE Release
  <2>1. PICK p \in Task, d \in Task : p = Releaser /\ d = Released
    BY <1>6, ReleaseTasks
  <2>2. /\ d \in Deps(p) /\ p # d /\ Ending(p)
        /\ 1 \in 1 .. Len(calls) /\ p = calls[1].task
    BY <1>6, <2>1, ReleaseTasks DEF Releaser, Top
  <2>3. LeasePhase(p) = "ending"
    <3>1. status[p] \notin Terminal /\ Created(p)
      BY <2>2 DEF StackOrdered, Ordered, Registered
    <3> QED
      BY <2>2, <3>1 DEF LeasePhase
  <2>4. Created(d) /\ ~Ending(d)
    <3>1. Created(d)
      BY <2>2 DEF Registered
    <3>2. ASSUME NEW i \in 1 .. Len(calls), calls[i].task = d
          PROVE  FALSE
      <4>1. Rank[d] < Rank[p] /\ Rank[d] \in Int /\ Rank[p] \in Int
        BY <2>2, RankLess
      <4>2. i # 1 /\ 1 < i
        BY <2>2, <3>2
      <4>3. Rank[p] < Rank[d]
        BY <2>2, <3>2, <4>2 DEF StackOrdered, Ordered
      <4> QED
        BY <4>1, <4>3
    <3> QED
      BY <3>1, <3>2 DEF Ending
  <2> DEFINE last == d \notin Root /\ ~HeldByOther(d, p)
  <2>5. /\ dependents' = [dependents EXCEPT ![d] = @ \ {p}]
        /\ \A u \in Task : u # d => status'[u] = status[u]
        /\ \A u : u # d => (Ending(u)' <=> Ending(u))
        /\ status'[d] = status[d]
             \/ (last /\ Continuing(d) /\ status'[d] = "exiting")
        /\ Ending(d)' => Ending(d) \/ (last /\ status[d] \notin Terminal)
        /\ last /\ Continuing(d) => status'[d] = "exiting" \/ Ending(d)'
    BY <1>6, <2>1, ReleaseEffect
  <2>6. \A u \in Task : u # d => LeasePhase(u)' = LeasePhase(u)
    BY <2>5, SamePhase
  <2>7. CASE last /\ Continuing(d)
    <3>1. LeasePhase(d) = "up"
      BY <2>4, <2>7, Phases
    <3>2. LeasePhase(d)' = "ending"
      BY <2>5, <2>7 DEF LeasePhase, Created, Continuing, Stoppable, Terminal
    <3>3. PhaseMap' = [PhaseMap EXCEPT ![d] = "ending"]
      BY <2>6, <3>2, OnePhase
    <3>4. p \in dependents[d]
      <4>1. PICK q \in dependents[d] : status[q] \in Active
        BY <2>2, <2>4, <2>7 DEF NeededWhileUp, Dependents, Registered
      <4> QED
        BY <2>7, <4>1 DEF HeldByOther
    <3>5. \A q \in dependents[d] \ {p} : PhaseMap[q] \notin {"up", "ending"}
      BY <2>7, Phases DEF HeldByOther, PhaseMap, TypeOK
    <3>6. Lease!GiveUpLease(p, d)
      BY <2>3, <2>5, <2>7, <3>1, <3>3, <3>4, <3>5
         DEF Lease!GiveUpLease, Lease!Lives, PhaseMap
    <3> QED
      BY <3>6 DEF Lease!LeaseNext
  <2>8. CASE ~(last /\ Continuing(d))
    <3>1. LeasePhase(d)' = LeasePhase(d)
      <4>1. status'[d] = status[d]
        BY <2>5, <2>8
      <4>2. Ending(d)' => status[d] = "exiting"
        BY <2>4, <2>5, <2>8
           DEF TypeOK, Status, Active, Terminal, Created, Continuing, Stoppable
      <4> QED
        BY <2>4, <4>1, <4>2 DEF LeasePhase, Created
    <3>2. PhaseMap' = PhaseMap
      BY <2>6, <3>1, SamePhases
    <3>3. CASE p \notin dependents[d]
      <4>1. dependents' = dependents
        BY <2>5, <3>3 DEF TypeOK
      <4> QED
        BY <3>2, <4>1
    <3>4. CASE p \in dependents[d]
      <4>1. ~(PhaseMap[d] = "up" /\ d \notin Root
              /\ ~\E q \in dependents[d] \ {p} : PhaseMap[q] \in {"up", "ending"})
        BY <2>4, <2>8, Phases DEF HeldByOther, PhaseMap, TypeOK
      <4>2. PhaseMap' = [PhaseMap EXCEPT ![d] = PhaseMap[d]]
        BY <3>2 DEF PhaseMap
      <4>3. Lease!GiveUpLease(p, d)
        BY <2>3, <2>5, <3>4, <4>1, <4>2
           DEF Lease!GiveUpLease, Lease!Lives, PhaseMap
      <4> QED
        BY <4>3 DEF Lease!LeaseNext
    <3> QED
      BY <3>3, <3>4
  <2> QED
    BY <2>7, <2>8
<1>7. Release \/ Finish \/ Still \/ calls = <<>>
  BY EmptyStack DEF Next, vars, Still
<1> QED
  BY <1>1, <1>2, <1>3, <1>4, <1>5, <1>6, <1>7, StepKinds DEF Lease!LeaseNext

LEMMA LeaseInvCorrect == Spec => []LeaseInv
<1>1. Init => LeaseInv
  BY DEF Init, LeaseInv, ExitingEnds, StartedInTurn
<1>2. TypeOK /\ OrphanInv /\ SpawnInv /\ LeaseInv /\ [Next]_vars => LeaseInv'
  BY ExitingEndsStep, StartedInTurnStep DEF OrphanInv, SpawnInv, LeaseInv
<1> QED
  BY <1>1, <1>2, OrphanInvCorrect, SpawnInvCorrect, PTL DEF Spec

\* TaskTree implements DependencyLease: whatever starts, kills and time-outs
\* do, for every dependency graph, a step of the task tree takes one task down
\* only for a reason of its own or with its last lease.
THEOREM LeaseImplemented == Spec => LeaseKept
<1>1. Init => Lease!LeaseInit
  BY DEF Init, Lease!LeaseInit, LeasePhase, Created
<1>2. TypeOK /\ TypeOK' /\ OrphanInv /\ SpawnInv /\ LeaseInv /\ [Next]_vars
        => [Lease!LeaseNext]_(Lease!leaseVars)
  BY LeaseStep DEF Lease!leaseVars, PhaseMap
<1> QED
  BY <1>1, <1>2, OrphanInvCorrect, SpawnInvCorrect, LeaseInvCorrect, PTL
     DEF Spec, LeaseKept, Lease!LeaseSpec

=============================================================================
