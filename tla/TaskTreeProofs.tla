---------------------------- MODULE TaskTreeProofs ----------------------------
(* Proofs about TaskTree for every dependency graph. *)
EXTENDS TaskTree, SequenceTheorems, TLAPS

-----------------------------------------------------------------------------
(* The inductive invariant, in named parts. *)

\* The synchronous part of start() runs for one task at a time, only for a
\* task that exists, and never while an exit() is in progress.
OneThread ==
  /\ \A t \in Task : live[t] => Started(t)
  /\ \A t \in Task : Started(t) => Created(t)
  /\ \A t, u \in Task : pc[t] = "next" /\ pc[u] = "next" => t = u
  /\ \A t \in Task : pc[t] = "next" => calls = <<>>

\* A task that has not begun to end is registered with all it depends on.
Registered ==
  /\ \A t \in Task : Ending(t) => Created(t)
  /\ \A p \in Task : Created(p) => \A d \in Deps(p) : Created(d)
  /\ \A d \in Task : \A p \in dependents[d] : Created(p) /\ d \in Deps(p)
  /\ \A p \in Task : Created(p) /\ status[p] \notin Terminal /\ ~Ending(p) =>
       \A d \in Deps(p) : p \in dependents[d]

\* An exit() in progress still holds only the dependencies it has not reached.
HoldsAhead(c, D) ==
  \A d \in Task : c.task \in D[d] => \E k \in 1 .. c.left : DependsOn[c.task][k] = d

Unwinding == \A i \in 1 .. Len(calls) : HoldsAhead(calls[i], dependents)

\* A dependency that is about to enter "running" is needed.
StartedByHolder ==
  /\ \A t \in Task : pc[t] = "await" => DependsOn[t] # <<>>
  /\ \A t \in Task \ Root :
       pc[t] = "next" /\ DependsOn[t] = <<>> /\ Dependents(t) # {} =>
         \E p \in dependents[t] : status[p] \in Active

\* A dependency that may run on has an active dependent.
NeededWhileUp ==
  \A d \in Task \ Root :
    Continuing(d) /\ ~Ending(d) /\ Dependents(d) # {} =>
      \E p \in dependents[d] : status[p] \in Active

OrphanInv == OneThread /\ Registered /\ Unwinding /\ StartedByHolder /\ NeededWhileUp

-----------------------------------------------------------------------------
(* Sequences used as a stack. *)

LEMMA PushLemma ==
  ASSUME NEW S, NEW s \in Seq(S), NEW x \in S
  PROVE  /\ <<x>> \o s \in Seq(S)
         /\ Len(<<x>> \o s) = Len(s) + 1
         /\ (<<x>> \o s)[1] = x
         /\ \A i \in 1 .. Len(s) : (<<x>> \o s)[i + 1] = s[i]
         /\ <<x>> \o s # <<>>
<1>1. <<x>> \in Seq(S) /\ Len(<<x>>) = 1 /\ <<x>>[1] = x
  OBVIOUS
<1>2. /\ <<x>> \o s \in Seq(S)
      /\ Len(<<x>> \o s) = Len(<<x>>) + Len(s)
      /\ \A i \in 1 .. Len(<<x>>) + Len(s) :
           (<<x>> \o s)[i] = IF i <= Len(<<x>>) THEN <<x>>[i]
                                                ELSE s[i - Len(<<x>>)]
  BY <1>1, ConcatProperties
<1>3. Len(s) \in Nat
  OBVIOUS
<1> QED
  BY <1>1, <1>2, <1>3

LEMMA PopLemma ==
  ASSUME NEW S, NEW s \in Seq(S), s # <<>>
  PROVE  /\ Tail(s) \in Seq(S)
         /\ Len(Tail(s)) = Len(s) - 1
         /\ \A i \in 1 .. Len(Tail(s)) : Tail(s)[i] = s[i + 1]
         /\ Len(s) \in Nat \ {0}
         /\ s[1] \in S
  BY HeadTailProperties

-----------------------------------------------------------------------------
(* Type correctness. *)

LEMMA ExitCallType ==
  ASSUME TypeOK, NEW t \in Task, NEW code \in Code
  PROVE  /\ ExitCall(t, code) \in Call
         /\ ExitCalled(t, code) => calls' \in Seq(Call)
<1>1. DependsOn[t] \in Seq(Task)
  BY DependsOnAssumption
<1>2. ExitCall(t, code) \in Call
  BY <1>1 DEF ExitCall, Call
<1>3. <<ExitCall(t, code)>> \o calls \in Seq(Call)
  BY <1>2, PushLemma DEF TypeOK
<1> QED
  BY <1>2, <1>3 DEF ExitCalled, TypeOK

LEMMA HeartbeatType ==
  ASSUME NEW S, Heartbeat(S), TypeOK
  PROVE  idle' \in [Task -> BOOLEAN]
  BY DEF Heartbeat, TypeOK

LEMMA StartStepType ==
  ASSUME TypeOK, NEW t \in Task, StartStep(t)
  PROVE  TypeOK'
<1> USE DEF TypeOK
<1>1. CASE Create(t)
  BY <1>1 DEF Create, StartCalled, Heartbeat, Status, Active, Terminal, Pc
<1>2. CASE StartLazy(t)
  BY <1>2 DEF StartLazy, StartCalled, Heartbeat, Pc
<1>3. CASE GiveUp(t)
  BY <1>3 DEF GiveUp, Pc
<1>4. CASE StartDep(t)
  <2>1. Current(t) \in Task
    BY <1>4, DependsOnAssumption, ElementOfSeq DEF StartDep, Current, LastDepPassed
  <2>2. pc' \in [Task -> Pc] /\ cap' \in [Task -> BOOLEAN] /\ loop' \in [Task -> BOOLEAN]
    BY <1>4, <2>1 DEF StartDep, Pc
  <2>3. idle' \in [Task -> BOOLEAN]
    BY <1>4 DEF StartDep, Heartbeat
  <2> QED
    BY <1>4, <2>2, <2>3 DEF StartDep
<1>5. CASE DepListens(t)
  BY <1>5 DEF DepListens, Pc
<1>6. CASE DepCompleted(t)
  BY <1>6 DEF DepCompleted, Pc
<1>7. CASE DepFailed(t)
  BY <1>7, ExitCallType DEF DepFailed, Pc, Code
<1>8. CASE DepTimesOut(t)
  BY <1>8, ExitCallType DEF DepTimesOut, Pc, Code
<1>9. CASE EnterRunning(t)
  BY <1>9 DEF EnterRunning, Status, Active
<1>10. CASE Launch(t)
  BY <1>10 DEF Launch, Spawn, Status, Active, Pc
<1>11. CASE EnvFails(t)
  BY <1>11, ExitCallType DEF EnvFails, Pc, Code
<1>12. CASE PortsAllocated(t)
  BY <1>12 DEF PortsAllocated, Pc
<1>13. CASE Prepared(t)
  BY <1>13 DEF Prepared, Spawn, Heartbeat, Pc
<1>14. CASE StartFails(t)
  BY <1>14, ExitCallType DEF StartFails, Pc, Code
<1> QED
  BY <1>1, <1>2, <1>3, <1>4, <1>5, <1>6, <1>7, <1>8, <1>9, <1>10, <1>11,
     <1>12, <1>13, <1>14 DEF StartStep

LEMMA StopStepType ==
  ASSUME TypeOK, NEW t \in Task, StopStep(t)
  PROVE  TypeOK'
<1> USE DEF TypeOK
<1>1. ASSUME NEW reason \in KillReason, KillCalled(t, reason)
      PROVE  /\ status' \in [Task -> Status]
             /\ killReason' \in [Task -> KillReason \cup {NoReason}]
             /\ sig' \in [Task -> {"none", "TERM", "KILL"}]
             /\ calls' \in Seq(Call)
  BY <1>1, ExitCallType DEF KillCalled, Status, Active, Code
<1>2. CASE UserKill(t)
  BY <1>1, <1>2 DEF UserKill, KillReason
<1>3. CASE IdleExpires(t)
  BY <1>1, <1>3 DEF IdleExpires, KillReason
<1>4. CASE CapExpires(t)
  BY <1>1, <1>4 DEF CapExpires, KillReason
<1>5. CASE Escalate(t)
  BY <1>5 DEF Escalate
<1>6. ASSUME NEW code \in Code, ChildExit(t, code)
      PROVE  TypeOK'
  BY <1>6, ExitCallType DEF ChildExit
<1> QED
  BY <1>2, <1>3, <1>4, <1>5, <1>6 DEF StopStep

LEMMA ReleaseType ==
  ASSUME TypeOK, Release
  PROVE  TypeOK'
<1> USE DEF TypeOK
<1> DEFINE p    == Top.task
           d    == DependsOn[p][Top.left]
           rest == [calls EXCEPT ![1].left = @ - 1]
<1>1. Top \in Call /\ Len(calls) \in Nat \ {0}
  BY PopLemma DEF Release, Top
<1>2. p \in Task /\ d \in Task /\ Top.left \in Nat
  <2>1. p \in Task /\ Top.left \in Nat /\ Top.left <= Len(DependsOn[p])
    BY <1>1 DEF Call
  <2>2. Top.left \in 1 .. Len(DependsOn[p]) /\ DependsOn[p] \in Seq(Task)
    <3>1. Top.left > 0
      BY DEF Release
    <3> QED
      BY <2>1, <3>1, DependsOnAssumption
  <2> QED
    BY <2>1, <2>2, ElementOfSeq
<1>3. [Top EXCEPT !.left = @ - 1] \in Call
  <2>1. Top \in [task : Task, code : Code, left : Nat] /\ Top.left > 0
    BY <1>1 DEF Call, Release
  <2>2. [Top EXCEPT !.left = @ - 1]
          = [task |-> p, code |-> Top.code, left |-> Top.left - 1]
    BY <2>1
  <2>3. Top.left <= Len(DependsOn[p]) /\ Len(DependsOn[p]) \in Nat
    BY <1>1, <1>2, DependsOnAssumption DEF Call
  <2> QED
    BY <2>1, <2>2, <2>3 DEF Call
<1>4. rest \in Seq(Call)
  <2>1. rest = [calls EXCEPT ![1] = [Top EXCEPT !.left = @ - 1]]
    BY DEF Top
  <2> HIDE DEF rest
  <2> QED
    BY <1>1, <1>3, <2>1, ExceptSeq
<1>5. <<ExitCall(d, 0)>> \o rest \in Seq(Call)
  BY <1>2, <1>4, ExitCallType, PushLemma DEF Code
<1>6. calls' \in Seq(Call)
  BY <1>4, <1>5 DEF Release
<1>7. /\ status' \in [Task -> Status]
      /\ dependents' \in [Task -> SUBSET Task]
      /\ sig' \in [Task -> {"none", "TERM", "KILL"}]
  BY <1>2 DEF Release, Status, Active
<1>8. killReason' \in [Task -> KillReason \cup {NoReason}]
  BY <1>1, <1>2 DEF Release, KillReason
<1> QED
  BY <1>6, <1>7, <1>8 DEF Release

LEMMA FinishType ==
  ASSUME TypeOK, Finish
  PROVE  TypeOK'
<1>1. Top \in Call /\ Tail(calls) \in Seq(Call)
  BY PopLemma DEF Finish, Top, TypeOK
<1> QED
  BY <1>1 DEF Finish, TypeOK, Call, Status, Terminal

LEMMA TypeStep ==
  ASSUME TypeOK, [Next]_vars
  PROVE  TypeOK'
<1>1. CASE UNCHANGED vars
  BY <1>1 DEF vars, TypeOK
<1>2. ASSUME NEW t \in Task, AliveStep(t)
      PROVE  TypeOK'
  BY <1>2 DEF AliveStep, HeartbeatTick, ProxyHeartbeat, Heartbeat, TypeOK
<1> QED
  BY <1>1, <1>2, StartStepType, StopStepType, ReleaseType, FinishType DEF Next

\* Every variable keeps its type, whatever the dependency graph is; in
\* particular exit() never looks for a dependency that is not there.
THEOREM TypeCorrect == Spec => []TypeOK
<1>1. Init => TypeOK
  BY DEF Init, TypeOK, Status, Pc
<1> QED
  BY <1>1, TypeStep, PTL DEF Spec

-----------------------------------------------------------------------------
(* Kinds of steps.  Most proofs only need to know what a step does to status, *)
(* dependents and calls.                                                     *)

Still     == UNCHANGED <<status, dependents, calls>>
Enters(t) == EnterRunning(t) \/ Launch(t)
Exits(t)  == /\ Started(t) \/ live[t]
             /\ \E code \in Code : ExitCalled(t, code)
             /\ UNCHANGED <<status, dependents>>
Kills(t)  == /\ \E reason \in KillReason : KillCalled(t, reason)
             /\ UNCHANGED dependents

LEMMA StepKinds ==
  ASSUME [Next]_vars
  PROVE  \/ Still \/ Release \/ Finish
         \/ \E t \in Task : Create(t) \/ Enters(t) \/ Exits(t) \/ Kills(t)
<1>1. CASE UNCHANGED vars
  BY <1>1 DEF vars, Still
<1>2. ASSUME NEW t \in Task, StartStep(t)
      PROVE  Still \/ Create(t) \/ Enters(t) \/ Exits(t)
  <2>1. CASE StartLazy(t) \/ GiveUp(t) \/ StartDep(t) \/ DepListens(t)
               \/ DepCompleted(t) \/ PortsAllocated(t) \/ Prepared(t)
    BY <2>1 DEF Still, StartLazy, GiveUp, StartDep, DepListens, DepCompleted,
                PortsAllocated, Prepared
  <2>2. CASE DepFailed(t) \/ DepTimesOut(t) \/ EnvFails(t) \/ StartFails(t)
    BY <2>2 DEF Exits, DepFailed, DepTimesOut, EnvFails, StartFails, Code, Started,
                MayLaunch, ReactionPending
  <2> QED
    BY <1>2, <2>1, <2>2 DEF StartStep, Enters
<1>3. ASSUME NEW t \in Task, StopStep(t)
      PROVE  Still \/ Exits(t) \/ Kills(t)
  BY <1>3 DEF StopStep, Still, Exits, Kills, UserKill, IdleExpires, CapExpires,
              Escalate, ChildExit, KillReason
<1>4. ASSUME NEW t \in Task, AliveStep(t)
      PROVE  Still
  BY <1>4 DEF AliveStep, HeartbeatTick, ProxyHeartbeat, Still
<1> QED
  BY <1>1, <1>2, <1>3, <1>4 DEF Next

LEMMA DepType ==
  ASSUME NEW t \in Task
  PROVE  /\ DependsOn[t] \in Seq(Task)
         /\ Len(DependsOn[t]) \in Nat
         /\ Deps(t) \subseteq Task
         /\ \A i \in 1 .. Len(DependsOn[t]) : DependsOn[t][i] \in Deps(t)
         /\ (DependsOn[t] = <<>> <=> Len(DependsOn[t]) = 0)
         /\ t \notin Deps(t)
<1>1. DependsOn[t] \in Seq(Task) /\ Len(DependsOn[t]) \in Nat
  BY DependsOnAssumption
<1>2. Deps(t) \subseteq Task
  BY <1>1, ElementOfSeq DEF Deps
<1>3. t \notin Deps(t)
  BY <1>2, AcyclicAssumption
<1> QED
  BY <1>1, <1>2, <1>3, EmptySeq DEF Deps

LEMMA CurrentType ==
  ASSUME TypeOK, NEW t \in Task, ~LastDepPassed(t)
  PROVE  /\ dep[t] \in 1 .. Len(DependsOn[t])
         /\ Current(t) \in Deps(t)
         /\ Current(t) \in Task
         /\ Current(t) # t
<1>1. dep[t] \in 1 .. Len(DependsOn[t])
  BY DepType DEF LastDepPassed, TypeOK
<1> QED
  BY <1>1, DepType DEF Current

\* A call of exit() that is pushed makes its task, and no other, ending.
InCalls(s, u) == \E i \in 1 .. Len(s) : s[i].task = u

LEMMA PushInCalls ==
  ASSUME NEW s \in Seq(Call), NEW c \in Call, NEW u
  PROVE  InCalls(<<c>> \o s, u) <=> u = c.task \/ InCalls(s, u)
<1> DEFINE r == <<c>> \o s
<1>1. /\ Len(r) = Len(s) + 1 /\ Len(s) \in Nat
      /\ r[1] = c
      /\ \A i \in 1 .. Len(s) : r[i + 1] = s[i]
  BY PushLemma
<1> HIDE DEF r
<1>2. ASSUME InCalls(r, u)
      PROVE  u = c.task \/ InCalls(s, u)
  <2>1. PICK i \in 1 .. Len(s) + 1 : r[i].task = u
    BY <1>1, <1>2 DEF InCalls
  <2>2. CASE i = 1
    BY <1>1, <2>1, <2>2
  <2>3. CASE i # 1
    <3>1. i - 1 \in 1 .. Len(s) /\ r[(i - 1) + 1] = s[i - 1] /\ (i - 1) + 1 = i
      BY <1>1, <2>3
    <3>2. s[i - 1].task = u
      BY <2>1, <3>1
    <3> QED
      BY <3>1, <3>2 DEF InCalls
  <2> QED
    BY <2>2, <2>3
<1>3. ASSUME u = c.task
      PROVE  InCalls(r, u)
  <2>1. 1 \in 1 .. Len(r) /\ r[1].task = u
    BY <1>1, <1>3
  <2> QED
    BY <2>1 DEF InCalls
<1>4. ASSUME InCalls(s, u)
      PROVE  InCalls(r, u)
  <2>1. PICK i \in 1 .. Len(s) : s[i].task = u
    BY <1>4 DEF InCalls
  <2>2. i + 1 \in 1 .. Len(r) /\ r[i + 1].task = u
    BY <1>1, <2>1
  <2> QED
    BY <2>2 DEF InCalls
<1> QED
  BY <1>2, <1>3, <1>4 DEF r

LEMMA EndingPush ==
  ASSUME TypeOK, NEW c \in Call, calls' = <<c>> \o calls
  PROVE  \A u : Ending(u)' <=> u = c.task \/ Ending(u)
<1>1. \A u : InCalls(calls', u) <=> u = c.task \/ InCalls(calls, u)
  BY PushInCalls DEF TypeOK
<1> QED
  BY <1>1 DEF InCalls, Ending

-----------------------------------------------------------------------------
(* What one iteration of #releaseDependsOn does.                             *)

Releaser == Top.task                           \* the task whose exit() runs
Released == DependsOn[Releaser][Top.left]      \* the dependency it releases
Unwound  == [calls EXCEPT ![1].left = @ - 1]

LEMMA ReleaseTasks ==
  ASSUME TypeOK, Release
  PROVE  /\ Top \in Call /\ Len(calls) \in Nat \ {0}
         /\ Top.left \in 1 .. Len(DependsOn[Releaser])
         /\ Releaser \in Task /\ Released \in Deps(Releaser) /\ Released \in Task
         /\ Releaser # Released
         /\ Ending(Releaser)
<1>1. Top \in Call /\ Len(calls) \in Nat \ {0} /\ Top.left > 0
  BY PopLemma DEF Release, Top, TypeOK
<1>2. Releaser \in Task /\ Top.left \in 1 .. Len(DependsOn[Releaser])
  BY <1>1, DepType DEF Call, Releaser
<1>3. Released \in Deps(Releaser) /\ Released \in Task /\ Releaser # Released
  BY <1>2, DepType DEF Released
<1>4. Ending(Releaser)
  BY <1>1 DEF Ending, Releaser, Top
<1> QED
  BY <1>1, <1>2, <1>3, <1>4

LEMMA UnwoundCalls ==
  ASSUME TypeOK, Release
  PROVE  /\ Unwound \in Seq(Call)
         /\ Len(Unwound) = Len(calls)
         /\ Unwound[1].task = Releaser /\ Unwound[1].left = Top.left - 1
         /\ \A i \in 2 .. Len(calls) : Unwound[i] = calls[i]
         /\ \A u : (\E i \in 1 .. Len(Unwound) : Unwound[i].task = u) <=> Ending(u)
<1> DEFINE top == [Top EXCEPT !.left = @ - 1]
<1>1. /\ Top \in [task : Task, code : Code, left : Nat]
      /\ Top.left \in 1 .. Len(DependsOn[Releaser])
      /\ Len(DependsOn[Releaser]) \in Nat
  BY ReleaseTasks, DepType DEF Call
<1>2. top = [task |-> Releaser, code |-> Top.code, left |-> Top.left - 1]
  BY <1>1 DEF Releaser
<1>3. top \in Call /\ top.task = Releaser /\ top.left = Top.left - 1
  BY <1>1, <1>2 DEF Call, Releaser
<1>4. Unwound = [calls EXCEPT ![1] = top]
  BY DEF Unwound, Top
<1>5. calls \in Seq(Call) /\ 1 \in 1 .. Len(calls) /\ Len(calls) \in Nat
  BY ReleaseTasks DEF TypeOK
<1> HIDE DEF top
<1>6. /\ Unwound \in Seq(Call)
      /\ Len(Unwound) = Len(calls)
      /\ Unwound[1] = top
      /\ \A i \in 1 .. Len(calls) : i # 1 => Unwound[i] = calls[i]
  BY <1>3, <1>4, <1>5, ExceptSeq
<1>7. \A i \in 1 .. Len(calls) : Unwound[i].task = calls[i].task
  BY <1>3, <1>6 DEF Releaser, Top
<1> QED
  BY <1>3, <1>5, <1>6, <1>7 DEF Ending

\* Whether the released dependency is stopped or cancelled.
LEMMA ReleaseEffect ==
  ASSUME TypeOK, Release
  PROVE  /\ dependents' = [dependents EXCEPT ![Released] = @ \ {Releaser}]
         /\ \A u \in Task : u # Released => status'[u] = status[u]
         /\ \/ status'[Released] = status[Released]
            \/ /\ Continuing(Released) /\ status'[Released] = "exiting"
               /\ Released \notin Root /\ ~HeldByOther(Released, Releaser)
         /\ \/ /\ calls' = Unwound
               /\ \A u : Ending(u)' <=> Ending(u)
            \/ /\ calls' = <<ExitCall(Released, 0)>> \o Unwound
               /\ \A u : Ending(u)' <=> (u = Released \/ Ending(u))
               /\ status[Released] \notin Terminal
               /\ Released \notin Root /\ ~HeldByOther(Released, Releaser)
         /\ Released \notin Root /\ ~HeldByOther(Released, Releaser)
              /\ Continuing(Released)
              => status'[Released] = "exiting"
                   \/ \A u : u = Released => Ending(u)'
<1> DEFINE orphan == Released \notin Root /\ ~HeldByOther(Released, Releaser)
           cancel == orphan /\ ~Started(Released) /\ status[Released] \notin Terminal
           stop   == orphan /\ Started(Released) /\ Continuing(Released)
<1>1. /\ dependents' = [dependents EXCEPT ![Released] = @ \ {Releaser}]
      /\ status' = [status EXCEPT ![Released] = IF stop THEN "exiting" ELSE @]
      /\ calls' = IF cancel \/ (stop /\ ~live[Released])
                  THEN <<ExitCall(Released, 0)>> \o Unwound
                  ELSE Unwound
  BY Zenon DEF Release, Releaser, Released, Unwound
<1>2. calls' = Unwound => \A u : Ending(u)' <=> Ending(u)
  BY UnwoundCalls DEF Ending
<1>3. ASSUME calls' = <<ExitCall(Released, 0)>> \o Unwound
      PROVE  \A u : Ending(u)' <=> (u = Released \/ Ending(u))
  <2>1. ExitCall(Released, 0) \in Call /\ ExitCall(Released, 0).task = Released
    BY ReleaseTasks, ExitCallType DEF Code, ExitCall
  <2>2. \A u : InCalls(calls', u) <=> u = Released \/ InCalls(Unwound, u)
    BY <1>3, <2>1, UnwoundCalls, PushInCalls
  <2>3. \A u : InCalls(Unwound, u) <=> Ending(u)
    BY UnwoundCalls DEF InCalls
  <2> QED
    BY <2>2, <2>3 DEF InCalls, Ending
<1>4. Released \in Task
  BY ReleaseTasks
<1>5. /\ \A u \in Task : u # Released => status'[u] = status[u]
      /\ status'[Released] = IF stop THEN "exiting" ELSE status[Released]
  BY <1>1, <1>4 DEF TypeOK
<1>6. Continuing(Released) => status[Released] \notin Terminal
  BY DEF Continuing, Stoppable, Terminal
<1>7. CASE cancel \/ (stop /\ ~live[Released])
  <2>1. calls' = <<ExitCall(Released, 0)>> \o Unwound
    BY <1>1, <1>7
  <2>2. status[Released] \notin Terminal /\ orphan
    BY <1>6, <1>7
  <2>3. status'[Released] = status[Released]
          \/ (stop /\ status'[Released] = "exiting")
    BY <1>5
  <2>4. \A u : Ending(u)' <=> (u = Released \/ Ending(u))
    BY <1>3, <2>1
  <2>5. \A u : u = Released => Ending(u)'
    BY <2>4
  <2>6. stop => Continuing(Released)
    OBVIOUS
  <2>7. dependents' = [dependents EXCEPT ![Released] = @ \ {Releaser}]
    BY <1>1
  <2>8. \A u \in Task : u # Released => status'[u] = status[u]
    BY <1>5
  <2> HIDE DEF cancel, stop
  <2> QED
    BY <2>1, <2>2, <2>3, <2>4, <2>5, <2>6, <2>7, <2>8, Zenon
<1>8. CASE ~(cancel \/ (stop /\ ~live[Released]))
  <2>1. calls' = Unwound
    BY <1>1, <1>8
  <2>2. orphan /\ Continuing(Released) => stop
    BY <1>6, <1>8
  <2> HIDE DEF cancel
  <2> QED
    BY <1>1, <1>2, <1>5, <2>1, <2>2
<1> QED
  BY <1>7, <1>8

LEMMA FinishEffect ==
  ASSUME TypeOK, Finish
  PROVE  /\ Top \in Call /\ Releaser \in Task /\ Ending(Releaser)
         /\ \A u \in Task : u # Releaser => status'[u] = status[u]
         /\ status'[Releaser] \in Terminal
         /\ UNCHANGED dependents
         /\ Len(calls') = Len(calls) - 1 /\ Len(calls) \in Nat \ {0}
         /\ \A i \in 1 .. Len(calls') : calls'[i] = calls[i + 1]
         /\ Top.left = 0
         /\ \A u : Ending(u)' => Ending(u)
         /\ \A u : u # Releaser /\ Ending(u) => Ending(u)'
<1>1. /\ Top \in Call /\ Len(calls) \in Nat \ {0}
      /\ Len(calls') = Len(calls) - 1
      /\ \A i \in 1 .. Len(calls') : calls'[i] = calls[i + 1]
  BY PopLemma DEF Finish, Top, TypeOK
<1>2. Releaser \in Task
  BY <1>1 DEF Releaser, Call
<1>3. /\ \A u \in Task : u # Releaser => status'[u] = status[u]
      /\ status'[Releaser] \in Terminal
  BY <1>2 DEF Finish, Releaser, TypeOK, Terminal
<1>4. Ending(Releaser)
  BY <1>1 DEF Ending, Releaser, Top
<1>5. ASSUME NEW u, Ending(u)'
      PROVE  Ending(u)
  <2>1. PICK i \in 1 .. Len(calls') : calls'[i].task = u
    BY <1>5 DEF Ending
  <2>2. i + 1 \in 1 .. Len(calls) /\ calls[i + 1].task = u
    BY <1>1, <2>1
  <2> QED
    BY <2>2 DEF Ending
<1>6. ASSUME NEW u, u # Releaser, Ending(u)
      PROVE  Ending(u)'
  <2>1. PICK i \in 1 .. Len(calls) : calls[i].task = u
    BY <1>6 DEF Ending
  <2>2. i # 1
    BY <1>6, <2>1 DEF Releaser, Top
  <2>3. i - 1 \in 1 .. Len(calls') /\ calls'[i - 1] = calls[(i - 1) + 1]
        /\ (i - 1) + 1 = i
    BY <1>1, <2>1, <2>2
  <2>4. calls'[i - 1].task = u
    BY <2>1, <2>3
  <2> QED
    BY <2>3, <2>4 DEF Ending
<1> QED
  BY <1>1, <1>2, <1>3, <1>4, <1>5, <1>6 DEF Finish

-----------------------------------------------------------------------------
(* Preservation of the invariant, one part after the other. *)

LEMMA OneThreadStep ==
  ASSUME TypeOK, OneThread, Registered, [Next]_vars
  PROVE  OneThread'
<1> USE DEF TypeOK, OneThread, Started, Created
<1>1. CASE UNCHANGED vars
  BY <1>1 DEF vars
<1>2. ASSUME NEW t \in Task, StartStep(t)
      PROVE  OneThread'
  <2>1. CASE Create(t)
    BY <1>2, <2>1 DEF Create, StartCalled, Quiet, InStart
  <2>2. CASE StartLazy(t)
    BY <1>2, <2>2 DEF StartLazy, StartCalled, Quiet, InStart
  <2>3. CASE GiveUp(t)
    BY <1>2, <2>3 DEF GiveUp
  <2>4. CASE StartDep(t)
    <3>1. Current(t) \in Task /\ Created(Current(t)) /\ Current(t) # t
      BY <2>4, CurrentType DEF StartDep, Registered
    <3>2. /\ pc[t] = "next" /\ UNCHANGED <<status, calls, live>>
          /\ \/ pc' = [pc EXCEPT ![t] = "await"]
             \/ pc' = [pc EXCEPT ![t] = "await", ![Current(t)] = "next"]
      BY <2>4 DEF StartDep
    <3>3. \A u \in Task : pc'[u] = "next" => u = Current(t)
      BY <3>1, <3>2
    <3>4. \A u \in Task : /\ pc'[u] # "unstarted" => u = Current(t) \/ pc[u] # "unstarted"
                          /\ pc[u] # "unstarted" => pc'[u] # "unstarted"
      BY <3>1, <3>2
    <3>5. calls = <<>>
      BY <3>2
    <3> QED
      BY <3>1, <3>2, <3>3, <3>4, <3>5
  <2>5. CASE DepListens(t) \/ DepCompleted(t)
    BY <1>2, <2>5 DEF DepListens, DepCompleted, ReactionPending, Quiet, InStart
  <2>6. CASE DepFailed(t) \/ DepTimesOut(t) \/ StartFails(t)
    BY <1>2, <2>6 DEF DepFailed, DepTimesOut, StartFails, ReactionPending, Quiet,
                       InStart
  <2>7. CASE EnterRunning(t)
    BY <1>2, <2>7 DEF EnterRunning
  <2>8. CASE Launch(t)
    BY <1>2, <2>8 DEF Launch, MayLaunch, Spawn
  <2>9. CASE EnvFails(t)
    BY <1>2, <2>9 DEF EnvFails, MayLaunch
  <2>10. CASE PortsAllocated(t)
    BY <1>2, <2>10 DEF PortsAllocated, Quiet, InStart
  <2>11. CASE Prepared(t)
    BY <1>2, <2>11 DEF Prepared, Spawn, Quiet, InStart
  <2> QED
    BY <1>2, <2>1, <2>2, <2>3, <2>4, <2>5, <2>6, <2>7, <2>8, <2>9, <2>10, <2>11
       DEF StartStep
<1>3. ASSUME NEW t \in Task, StopStep(t)
      PROVE  OneThread'
  BY <1>3 DEF StopStep, UserKill, IdleExpires, CapExpires, Escalate, ChildExit,
              KillCalled, Quiet, InStart
<1>4. ASSUME NEW t \in Task, AliveStep(t)
      PROVE  OneThread'
  BY <1>4 DEF AliveStep, HeartbeatTick, ProxyHeartbeat
<1>5. CASE Release
  BY <1>5 DEF Release
<1>6. CASE Finish
  BY <1>6 DEF Finish
<1> QED
  BY <1>1, <1>2, <1>3, <1>4, <1>5, <1>6 DEF Next

LEMMA RegisteredStep ==
  ASSUME TypeOK, TypeOK', OneThread, Registered, [Next]_vars
  PROVE  Registered'
<1> USE DEF TypeOK
<1>1. CASE Still
  BY <1>1 DEF Still, Registered, Created, Ending
<1>2. ASSUME NEW t \in Task, Create(t)
      PROVE  Registered'
  <2>1. /\ status' = [status EXCEPT ![t] = "waiting"]
        /\ dependents' = [d \in Task |-> IF d \in Deps(t) THEN dependents[d] \cup {t}
                                                          ELSE dependents[d]]
        /\ UNCHANGED calls
        /\ \A d \in Deps(t) : Created(d)
    BY <1>2 DEF Create
  <2>2. \A u \in Task : Ending(u)' <=> Ending(u)
    BY <2>1 DEF Ending
  <2> QED
    BY <2>1, <2>2, DepType DEF Registered, Created, Terminal
<1>3. ASSUME NEW t \in Task, Enters(t)
      PROVE  Registered'
  <2>1. /\ status' = [status EXCEPT ![t] = "running"]
        /\ UNCHANGED <<dependents, calls>>
        /\ Created(t)
        /\ status[t] \notin Terminal \/ Deps(t) = {}
    <3>1. Created(t)
      BY <1>3 DEF Enters, EnterRunning, Launch, MayLaunch, OneThread, Started
    <3>2. CASE EnterRunning(t)
      BY <3>1, <3>2, DepType DEF EnterRunning, Deps
    <3>3. CASE Launch(t)
      BY <3>1, <3>3 DEF Launch, MayLaunch, Continuing, Stoppable, Terminal
    <3> QED
      BY <1>3, <3>2, <3>3 DEF Enters
  <2>2. \A u \in Task : Ending(u)' <=> Ending(u)
    BY <2>1 DEF Ending
  <2> QED
    BY <2>1, <2>2, DepType DEF Registered, Created, Terminal
<1>4. ASSUME NEW t \in Task, Exits(t) \/ Kills(t)
      PROVE  Registered'
  <2>1. /\ UNCHANGED dependents
        /\ \A u \in Task : (status'[u] = "uncreated" <=> status[u] = "uncreated")
                           /\ (status'[u] \in Terminal <=> status[u] \in Terminal)
    BY <1>4 DEF Exits, Kills, KillCalled, Continuing, Stoppable, Terminal
  <2>2. Created(t)
    BY <1>4 DEF Exits, Kills, KillCalled, Continuing, Stoppable, Created, OneThread
  <2>3. \A u \in Task : /\ Ending(u) => Ending(u)'
                        /\ Ending(u)' => Created(u)
    <3>1. UNCHANGED calls
            \/ \E c \in Call : c.task = t /\ calls' = <<c>> \o calls
      <4>1. ASSUME NEW code \in Code, ExitCalled(t, code)
            PROVE  UNCHANGED calls
                     \/ \E c \in Call : c.task = t /\ calls' = <<c>> \o calls
        <5>1. ExitCall(t, code) \in Call /\ ExitCall(t, code).task = t
          BY ExitCallType DEF ExitCall
        <5> QED
          BY <4>1, <5>1 DEF ExitCalled
      <4> QED
        BY <1>4, <4>1 DEF Exits, Kills, KillCalled, Code
    <3>2. CASE UNCHANGED calls
      BY <3>2 DEF Ending, Registered
    <3>3. CASE \E c \in Call : c.task = t /\ calls' = <<c>> \o calls
      <4>1. PICK c \in Call : c.task = t /\ calls' = <<c>> \o calls
        BY <3>3
      <4>2. \A u : Ending(u)' <=> u = t \/ Ending(u)
        BY <4>1, EndingPush
      <4> QED
        BY <2>2, <4>2 DEF Registered
    <3> QED
      BY <3>1, <3>2, <3>3
  <2> QED
    BY <2>1, <2>3, DepType DEF Registered, Created
<1>5. CASE Release
  <2>1. \A u \in Task : Created(u) <=> Created(u)'
    BY <1>5, ReleaseTasks, ReleaseEffect DEF Created, Continuing, Stoppable
  <2>2. \A u \in Task : status'[u] \notin Terminal => status[u] \notin Terminal
    BY <1>5, ReleaseTasks, ReleaseEffect DEF Continuing, Stoppable, Terminal
  <2>3. \A u \in Task : ~Ending(u)' => ~Ending(u)
    BY <1>5, ReleaseEffect
  <2>4. dependents' = [dependents EXCEPT ![Released] = @ \ {Releaser}]
    BY <1>5, ReleaseEffect
  <2>5. Releaser \in Task /\ Released \in Task /\ Ending(Releaser)
    BY <1>5, ReleaseTasks
  <2>6. ASSUME NEW d \in Task
        PROVE  dependents'[d] \subseteq dependents[d]
               /\ dependents[d] \ {Releaser} \subseteq dependents'[d]
    BY <2>4, <2>5
  <2>7. \A q \in Task : Deps(q) \subseteq Task
    BY DepType
  <2>8. \A u \in Task : Ending(u)' => Created(u)
    BY <1>5, ReleaseTasks, ReleaseEffect DEF Registered
  <2> QED
    BY <2>1, <2>2, <2>3, <2>5, <2>6, <2>7, <2>8 DEF Registered
<1>6. CASE Finish
  <2>1. \A u \in Task : Created(u) => Created(u)'
    BY <1>6, FinishEffect DEF Created, Terminal
  <2>2. \A u \in Task : Created(u)' => Created(u)
    <3>1. Created(Releaser)
      BY <1>6, FinishEffect DEF Registered
    <3> QED
      BY <3>1, <1>6, FinishEffect DEF Created
  <2>3. \A u \in Task : status'[u] \notin Terminal =>
          status[u] \notin Terminal \/ Deps(u) = {}
    BY <1>6, FinishEffect
  <2>4. \A u \in Task : status'[u] \notin Terminal /\ ~Ending(u)' => ~Ending(u)
    BY <1>6, FinishEffect
  <2> QED
    BY <1>6, <2>1, <2>2, <2>3, <2>4, FinishEffect, DepType DEF Registered
<1> QED
  BY <1>1, <1>2, <1>3, <1>4, <1>5, <1>6, StepKinds

\* Only Exits and Kills push a frame from outside an unwinding.
LEMMA PushedBy ==
  ASSUME TypeOK, NEW t \in Task, Exits(t) \/ Kills(t)
  PROVE  UNCHANGED calls
           \/ \E code \in Code : /\ ExitCall(t, code) \in Call
                                 /\ calls' = <<ExitCall(t, code)>> \o calls
<1>1. ASSUME NEW code \in Code, ExitCalled(t, code)
      PROVE  UNCHANGED calls
               \/ /\ ExitCall(t, code) \in Call
                  /\ calls' = <<ExitCall(t, code)>> \o calls
  BY <1>1, ExitCallType DEF ExitCalled
<1> QED
  BY <1>1 DEF Exits, Kills, KillCalled, Code

\* The stack grows by a frame that has all dependencies before it.
LEMMA UnwindingPush ==
  ASSUME TypeOK, Registered, NEW s \in Seq(Call), NEW t \in Task, NEW code \in Code,
         \A i \in 1 .. Len(s) : HoldsAhead(s[i], dependents'),
         \A d \in Task : dependents'[d] \subseteq dependents[d],
         calls' = <<ExitCall(t, code)>> \o s
  PROVE  Unwinding'
<1> DEFINE c == ExitCall(t, code)
<1>1. c \in Call /\ c.task = t /\ c.left = Len(DependsOn[t])
  BY ExitCallType DEF ExitCall
<1>2. /\ Len(calls') = Len(s) + 1 /\ Len(s) \in Nat
      /\ calls'[1] = c
      /\ \A i \in 1 .. Len(s) : calls'[i + 1] = s[i]
  BY <1>1, PushLemma
<1> HIDE DEF c
<1>3. HoldsAhead(c, dependents')
  <2> SUFFICES ASSUME NEW d \in Task, t \in dependents'[d]
               PROVE  \E k \in 1 .. Len(DependsOn[t]) : DependsOn[t][k] = d
    BY <1>1 DEF HoldsAhead
  <2>1. d \in Deps(t)
    BY DEF Registered
  <2> QED
    BY <2>1 DEF Deps
<1> SUFFICES ASSUME NEW i \in 1 .. Len(s) + 1
             PROVE  HoldsAhead(calls'[i], dependents')
  BY <1>2 DEF Unwinding
<1>4. CASE i = 1
  BY <1>2, <1>3, <1>4
<1>5. CASE i # 1
  <2>1. i - 1 \in 1 .. Len(s) /\ calls'[(i - 1) + 1] = s[i - 1] /\ (i - 1) + 1 = i
    BY <1>2, <1>5
  <2> QED
    BY <2>1
<1> QED
  BY <1>4, <1>5

LEMMA UnwindingStep ==
  ASSUME TypeOK, OneThread, Registered, Unwinding, [Next]_vars
  PROVE  Unwinding'
<1>1. CASE Still
  BY <1>1 DEF Still, Unwinding
<1>2. ASSUME NEW t \in Task, Create(t)
      PROVE  Unwinding'
  BY <1>2 DEF Create, Quiet, Unwinding
<1>3. ASSUME NEW t \in Task, Enters(t)
      PROVE  Unwinding'
  BY <1>3 DEF Enters, EnterRunning, Launch, MayLaunch, Unwinding
<1>4. ASSUME NEW t \in Task, Exits(t) \/ Kills(t)
      PROVE  Unwinding'
  <2>1. dependents' = dependents
    BY <1>4 DEF Exits, Kills
  <2>2. CASE UNCHANGED calls
    BY <2>1, <2>2 DEF Unwinding
  <2>3. ASSUME NEW code \in Code, calls' = <<ExitCall(t, code)>> \o calls
        PROVE  Unwinding'
    <3>1. calls \in Seq(Call) /\ \A d \in Task : dependents'[d] \subseteq dependents[d]
      BY <2>1 DEF TypeOK
    <3>2. \A i \in 1 .. Len(calls) : HoldsAhead(calls[i], dependents')
      BY <2>1 DEF Unwinding
    <3> QED
      BY <2>3, <3>1, <3>2, UnwindingPush
  <2> QED
    BY <1>4, <2>2, <2>3, PushedBy
<1>5. CASE Release
  <2>1. /\ Releaser \in Task /\ Released \in Task /\ Top.left \in Nat
        /\ Len(calls) \in Nat \ {0}
    BY <1>5, ReleaseTasks DEF Call
  <2>2. /\ dependents' = [dependents EXCEPT ![Released] = @ \ {Releaser}]
        /\ dependents \in [Task -> SUBSET Task]
    BY <1>5, ReleaseEffect DEF TypeOK
  <2>3. /\ \A d \in Task : dependents'[d] \subseteq dependents[d]
        /\ Releaser \notin dependents'[Released]
    BY <2>1, <2>2
  <2>4. /\ Unwound \in Seq(Call)
        /\ Len(Unwound) = Len(calls)
        /\ Unwound[1].task = Releaser /\ Unwound[1].left = Top.left - 1
        /\ \A i \in 2 .. Len(calls) : Unwound[i] = calls[i]
    BY <1>5, UnwoundCalls
  <2>5. HoldsAhead(Unwound[1], dependents')
    <3> SUFFICES ASSUME NEW d \in Task, Releaser \in dependents'[d]
                 PROVE  \E k \in 1 .. Top.left - 1 : DependsOn[Releaser][k] = d
      BY <2>4 DEF HoldsAhead
    <3>1. d # Released /\ Releaser \in dependents[d]
      BY <2>3
    <3>2. HoldsAhead(Top, dependents)
      BY <2>1 DEF Unwinding, Top
    <3>3. PICK k \in 1 .. Top.left : DependsOn[Releaser][k] = d
      BY <3>1, <3>2 DEF HoldsAhead, Releaser
    <3>4. k # Top.left
      BY <3>1, <3>3 DEF Released
    <3>5. k \in 1 .. Top.left - 1
      BY <2>1, <3>3, <3>4
    <3> QED
      BY <3>3, <3>5
  <2>6. \A i \in 2 .. Len(calls) : HoldsAhead(Unwound[i], dependents')
    <3> SUFFICES ASSUME NEW i \in 2 .. Len(calls)
                 PROVE  HoldsAhead(calls[i], dependents')
      BY <2>4
    <3>1. HoldsAhead(calls[i], dependents)
      BY <2>1 DEF Unwinding
    <3> QED
      BY <2>3, <3>1 DEF HoldsAhead
  <2>7. \A i \in 1 .. Len(Unwound) : HoldsAhead(Unwound[i], dependents')
    BY <2>1, <2>4, <2>5, <2>6
  <2>8. CASE calls' = Unwound
    BY <2>7, <2>8 DEF Unwinding
  <2>9. CASE calls' = <<ExitCall(Released, 0)>> \o Unwound
    BY <2>1, <2>3, <2>4, <2>7, <2>9, UnwindingPush DEF Code
  <2> QED
    BY <1>5, <2>8, <2>9, ReleaseEffect
<1>6. CASE Finish
  <2>1. /\ UNCHANGED dependents
        /\ Len(calls') = Len(calls) - 1 /\ Len(calls) \in Nat
        /\ \A i \in 1 .. Len(calls') : calls'[i] = calls[i + 1]
    BY <1>6, FinishEffect
  <2>2. \A i \in 1 .. Len(calls') : i + 1 \in 1 .. Len(calls)
    BY <2>1
  <2> QED
    BY <2>1, <2>2 DEF Unwinding
<1> QED
  BY <1>1, <1>2, <1>3, <1>4, <1>5, <1>6, StepKinds

LEMMA StartedByHolderStep ==
  ASSUME TypeOK, OneThread, Registered, StartedByHolder, [Next]_vars
  PROVE  StartedByHolder'
<1> USE DEF TypeOK, StartedByHolder
<1> DEFINE Same == \A u \in Task : Created(u)' <=> Created(u)
<1>1. Same => \A d \in Task : Dependents(d)' = Dependents(d)
  BY DEF Dependents
\* A step that makes nobody "next", and leaves a task that is "next" its
\* dependents and their status.
<1>2. ASSUME Same, UNCHANGED dependents,
             \A u \in Task : status[u] \in Active => status'[u] \in Active,
             \A u \in Task : pc'[u] = "next" => pc[u] = "next",
             \A u \in Task : pc'[u] = "await" => pc[u] = "await"
      PROVE  StartedByHolder'
  BY <1>1, <1>2
<1> HIDE DEF StartedByHolder
<1>3. CASE UNCHANGED vars
  BY <1>2, <1>3 DEF vars, Created
<1>4. ASSUME NEW t \in Task, StartStep(t)
      PROVE  StartedByHolder'
  <2>1. CASE Create(t)
    <3>1. /\ \/ pc' = pc
             \/ t \in Root /\ pc' = [pc EXCEPT ![t] = "next"]
          /\ \A u \in Task : pc[u] # "next"
          /\ status' = [status EXCEPT ![t] = "waiting"]
          /\ \A u \in Task : dependents[u] \subseteq dependents'[u]
      BY <2>1, KindAssumption DEF Create, StartCalled, Quiet, InStart
    <3> QED
      BY <3>1 DEF StartedByHolder
  <2>2. CASE StartLazy(t)
    <3>1. /\ pc' = [pc EXCEPT ![t] = "next"] /\ t \in Lazy
          /\ \A u \in Task : pc[u] # "next"
      BY <2>2 DEF StartLazy, StartCalled, Quiet, InStart
    <3>2. t \in Root \/ Dependents(t)' = {}
      BY <3>1, LazyAssumption DEF Dependents
    <3> QED
      BY <3>1, <3>2 DEF StartedByHolder
  <2>3. CASE GiveUp(t)
    BY <1>2, <2>3 DEF GiveUp, Created
  <2>4. CASE StartDep(t)
    <3>1. PICK d \in Task : d = Current(t) /\ d \in Deps(t) /\ d # t
      BY <2>4, CurrentType DEF StartDep
    <3>2. /\ pc[t] = "next" /\ calls = <<>> /\ Continuing(t) /\ DependsOn[t] # <<>>
          /\ UNCHANGED <<status, dependents>>
          /\ \/ pc' = [pc EXCEPT ![t] = "await"]
             \/ pc' = [pc EXCEPT ![t] = "await", ![d] = "next"]
      BY <2>4, <3>1, DepType, CurrentType DEF StartDep
    <3>3. t \in dependents[d] /\ status[t] \in Active
      <4>1. ~Ending(t)
        BY <3>2 DEF Ending
      <4>2. /\ Created(t) /\ status[t] \notin Terminal /\ status[t] \in Active
        BY <3>2 DEF Created, Continuing, Stoppable, Terminal, Active
      <4> QED
        BY <3>1, <4>1, <4>2 DEF Registered
    <3>4. \A u \in Task : /\ pc'[u] = "next" => u = d
                          /\ pc'[u] = "await" => u = t \/ pc[u] = "await"
      BY <3>1, <3>2 DEF OneThread
    <3> QED
      BY <3>1, <3>2, <3>3, <3>4 DEF StartedByHolder
  <2>5. CASE DepListens(t) \/ DepCompleted(t)
    <3>1. /\ pc[t] = "await" /\ pc' = [pc EXCEPT ![t] = "next"]
          /\ \A u \in Task : pc[u] # "next"
      BY <2>5 DEF DepListens, DepCompleted, ReactionPending, Quiet, InStart
    <3>2. DependsOn[t] # <<>>
      BY <3>1 DEF StartedByHolder
    <3> QED
      BY <3>1, <3>2 DEF StartedByHolder
  <2>6. CASE DepFailed(t) \/ DepTimesOut(t) \/ StartFails(t)
    BY <1>2, <2>6 DEF DepFailed, DepTimesOut, StartFails, Created
  <2>7. CASE EnterRunning(t)
    BY <1>2, <2>7 DEF EnterRunning, Created, OneThread, Started, Active
  <2>8. CASE Launch(t)
    <3>1. /\ status' = [status EXCEPT ![t] = "running"] /\ UNCHANGED dependents
          /\ \/ pc' = [pc EXCEPT ![t] = "done"]
             \/ pc' = [pc EXCEPT ![t] = "ports"]
          /\ Created(t)
      BY <2>8 DEF Launch, MayLaunch, Spawn, OneThread, Started
    <3> QED
      BY <1>2, <3>1 DEF Created, Active
  <2>9. CASE EnvFails(t)
    BY <1>2, <2>9 DEF EnvFails, Created
  <2>10. CASE PortsAllocated(t)
    BY <1>2, <2>10 DEF PortsAllocated, Created
  <2>11. CASE Prepared(t)
    BY <1>2, <2>11 DEF Prepared, Spawn, Created
  <2> QED
    BY <1>4, <2>1, <2>2, <2>3, <2>4, <2>5, <2>6, <2>7, <2>8, <2>9, <2>10, <2>11
       DEF StartStep
<1>5. ASSUME NEW t \in Task, StopStep(t)
      PROVE  StartedByHolder'
  <2>1. /\ UNCHANGED <<dependents, pc>>
        /\ \/ UNCHANGED status
           \/ Continuing(t) /\ status' = [status EXCEPT ![t] = "exiting"]
    BY <1>5 DEF StopStep, UserKill, IdleExpires, CapExpires, Escalate, ChildExit,
                KillCalled
  <2> QED
    BY <1>2, <2>1 DEF Continuing, Stoppable, Created, Active
<1>6. ASSUME NEW t \in Task, AliveStep(t)
      PROVE  StartedByHolder'
  BY <1>2, <1>6 DEF AliveStep, HeartbeatTick, ProxyHeartbeat, Created
<1>7. CASE Release \/ Finish
  <2>1. UNCHANGED pc /\ \A u \in Task : pc[u] # "next"
    BY <1>7 DEF Release, Finish, OneThread
  <2> QED
    BY <2>1 DEF StartedByHolder
<1> QED
  BY <1>3, <1>4, <1>5, <1>6, <1>7 DEF Next

LEMMA NeededWhileUpStep ==
  ASSUME TypeOK, TypeOK', OneThread, Registered, Unwinding, StartedByHolder,
         NeededWhileUp, [Next]_vars
  PROVE  NeededWhileUp'
<1> USE DEF TypeOK
<1>1. ASSUME \A u \in Task : Created(u)' <=> Created(u)
      PROVE  \A d \in Task : Dependents(d)' = Dependents(d)
  BY <1>1 DEF Dependents
<1>2. CASE Still
  <2>1. \A u \in Task : (Created(u)' <=> Created(u)) /\ (Ending(u)' <=> Ending(u))
    BY <1>2 DEF Still, Created, Ending
  <2> QED
    BY <1>1, <1>2, <2>1 DEF Still, NeededWhileUp, Continuing
<1>3. ASSUME NEW t \in Task, Create(t)
      PROVE  NeededWhileUp'
  <2>1. /\ status' = [status EXCEPT ![t] = "waiting"]
        /\ dependents' = [d \in Task |-> IF d \in Deps(t) THEN dependents[d] \cup {t}
                                                          ELSE dependents[d]]
        /\ UNCHANGED calls
        /\ ~Created(t)
    BY <1>3 DEF Create
  <2>2. \A u \in Task : Ending(u)' <=> Ending(u)
    BY <2>1 DEF Ending
  <2> SUFFICES ASSUME NEW d \in Task \ Root, Continuing(d)', ~Ending(d)',
                      NEW p \in Task, Created(p)', d \in Deps(p)
               PROVE  \E q \in dependents'[d] : status'[q] \in Active
    BY DEF NeededWhileUp, Dependents
  <2>3. CASE p = t
    BY <2>1, <2>3 DEF Active
  <2>4. CASE p # t
    <3>1. Created(p)
      BY <2>1, <2>4 DEF Created
    <3>2. d # t
      BY <2>1, <3>1 DEF Registered
    <3>3. Continuing(d) /\ ~Ending(d) /\ Dependents(d) # {}
      BY <2>1, <2>2, <3>1, <3>2 DEF Continuing, Dependents
    <3>4. PICK q \in dependents[d] : status[q] \in Active
      BY <3>3 DEF NeededWhileUp
    <3> QED
      BY <2>1, <3>4 DEF Active
  <2> QED
    BY <2>3, <2>4
<1>4. ASSUME NEW t \in Task, Enters(t)
      PROVE  NeededWhileUp'
  <2>1. /\ status' = [status EXCEPT ![t] = "running"] /\ UNCHANGED <<dependents, calls>>
        /\ pc[t] = "next" /\ calls = <<>>
        /\ DependsOn[t] = <<>> \/ Continuing(t)
    BY <1>4 DEF Enters, EnterRunning, Launch, MayLaunch
  <2>2. Created(t)
    BY <2>1 DEF OneThread, Started
  <2>3. \A u \in Task : (Created(u)' <=> Created(u)) /\ ~Ending(u) /\ ~Ending(u)'
    BY <2>1, <2>2 DEF Created, Ending
  <2> SUFFICES ASSUME NEW d \in Task \ Root, Continuing(d)', Dependents(d) # {}
               PROVE  \E q \in dependents[d] : status'[q] \in Active
    BY <1>1, <2>1, <2>3 DEF NeededWhileUp
  <2>4. \A q \in Task : status[q] \in Active => status'[q] \in Active
    BY <2>1 DEF Active
  <2>5. CASE Continuing(d)
    BY <2>3, <2>4, <2>5 DEF NeededWhileUp
  <2>6. CASE ~Continuing(d)
    <3>1. d = t /\ DependsOn[t] = <<>>
      BY <2>1, <2>6 DEF Continuing
    <3> QED
      BY <2>1, <2>4, <3>1 DEF StartedByHolder
  <2> QED
    BY <2>5, <2>6
<1>5. ASSUME NEW t \in Task, Exits(t) \/ Kills(t)
      PROVE  NeededWhileUp'
  <2>1. /\ UNCHANGED dependents
        /\ \/ UNCHANGED status
           \/ Continuing(t) /\ status' = [status EXCEPT ![t] = "exiting"]
    BY <1>5 DEF Exits, Kills, KillCalled
  <2>2. \A u \in Task : /\ Created(u)' <=> Created(u)
                        /\ Continuing(u)' => Continuing(u)
                        /\ status[u] \in Active => status'[u] \in Active
    BY <2>1 DEF Continuing, Stoppable, Created, Active
  <2>3. \A u \in Task : Ending(u) => Ending(u)'
    <3>1. CASE UNCHANGED calls
      BY <3>1 DEF Ending
    <3>2. ASSUME NEW c \in Call, calls' = <<c>> \o calls
          PROVE  \A u \in Task : Ending(u) => Ending(u)'
      BY <3>2, EndingPush
    <3> QED
      BY <1>5, <3>1, <3>2, PushedBy
  <2> SUFFICES ASSUME NEW d \in Task \ Root, Continuing(d)', ~Ending(d)',
                      Dependents(d) # {}
               PROVE  \E q \in dependents[d] : status'[q] \in Active
    BY <1>1, <2>1, <2>2 DEF NeededWhileUp
  <2>4. PICK q \in dependents[d] : status[q] \in Active
    BY <2>2, <2>3 DEF NeededWhileUp
  <2> QED
    BY <2>2, <2>4
<1>6. CASE Release
  <2>1. /\ dependents' = [dependents EXCEPT ![Released] = @ \ {Releaser}]
        /\ \A u \in Task : u # Released => status'[u] = status[u]
        /\ \/ status'[Released] = status[Released]
           \/ Continuing(Released) /\ status'[Released] = "exiting"
        /\ \A u \in Task : Ending(u) => Ending(u)'
    BY <1>6, ReleaseEffect
  <2>2. Released \in Task /\ Releaser \in Task
    BY <1>6, ReleaseTasks
  <2>3. \A u \in Task : /\ Created(u)' <=> Created(u)
                        /\ Continuing(u)' => Continuing(u)
                        /\ status[u] \in Active => status'[u] \in Active
    BY <2>1, <2>2 DEF Continuing, Stoppable, Created, Active
  <2> SUFFICES ASSUME NEW d \in Task \ Root, Continuing(d)', ~Ending(d)',
                      Dependents(d) # {}
               PROVE  \E q \in dependents'[d] : status'[q] \in Active
    BY <1>1, <2>3 DEF NeededWhileUp
  <2>4. PICK q \in dependents[d] : status[q] \in Active
    BY <2>1, <2>3 DEF NeededWhileUp
  <2>5. CASE d # Released
    BY <2>1, <2>3, <2>4, <2>5
  <2>6. CASE d = Released
    <3>1. Released \notin Root /\ Continuing(Released)
      BY <2>3, <2>6
    <3>2. status'[Released] # "exiting"
      BY <2>6 DEF Continuing, Stoppable
    <3>3. HeldByOther(Released, Releaser)
      BY <1>6, <2>6, <3>1, <3>2, ReleaseEffect
    <3>4. PICK r \in dependents[Released] \ {Releaser} : status[r] \in Active
      BY <3>3 DEF HeldByOther
    <3> QED
      BY <2>1, <2>2, <2>3, <2>6, <3>4
  <2> QED
    BY <2>5, <2>6
<1>7. CASE Finish
  <2>1. /\ UNCHANGED dependents
        /\ \A u \in Task : u # Releaser => status'[u] = status[u]
        /\ status'[Releaser] \in Terminal
        /\ \A u \in Task : u # Releaser /\ Ending(u) => Ending(u)'
        /\ Releaser \in Task /\ Ending(Releaser)
    BY <1>7, FinishEffect
  <2>2. \A u \in Task : Created(u)' <=> Created(u)
    BY <2>1 DEF Registered, Created, Terminal
  <2>3. \A d \in Task : Releaser \notin dependents[d]
    <3>1. 1 \in 1 .. Len(calls) /\ Top.left = 0
      BY <1>7, FinishEffect
    <3>2. HoldsAhead(Top, dependents)
      BY <3>1 DEF Unwinding, Top
    <3> QED
      BY <3>1, <3>2 DEF HoldsAhead, Releaser
  <2> SUFFICES ASSUME NEW d \in Task \ Root, Continuing(d)', ~Ending(d)',
                      Dependents(d) # {}
               PROVE  \E q \in dependents[d] : status'[q] \in Active
    BY <1>1, <2>1, <2>2 DEF NeededWhileUp
  <2>4. d # Releaser
    BY <2>1 DEF Continuing, Stoppable, Terminal
  <2>5. PICK q \in dependents[d] : status[q] \in Active
    BY <2>1, <2>4 DEF NeededWhileUp, Continuing
  <2> QED
    BY <2>1, <2>3, <2>5
<1> QED
  BY <1>2, <1>3, <1>4, <1>5, <1>6, <1>7, StepKinds

LEMMA OrphanInvCorrect == Spec => [](TypeOK /\ OrphanInv)
<1>1. Init => TypeOK /\ OrphanInv
  <2>1. Init => TypeOK
    BY DEF Init, TypeOK, Status, Pc
  <2>2. Init => OneThread /\ Registered /\ Unwinding /\ StartedByHolder
    BY DepType DEF Init, OneThread, Registered, Unwinding, StartedByHolder, Started,
                   Created, Ending, Terminal
  <2>3. Init => NeededWhileUp
    BY DEF Init, NeededWhileUp, Continuing, Stoppable
  <2> QED
    BY <2>1, <2>2, <2>3 DEF OrphanInv
<1>2. TypeOK /\ OrphanInv /\ [Next]_vars => (TypeOK /\ OrphanInv)'
  BY TypeStep, OneThreadStep, RegisteredStep, UnwindingStep, StartedByHolderStep,
     NeededWhileUpStep DEF OrphanInv
<1> QED
  BY <1>1, <1>2, PTL DEF Spec

\* Whatever the dependency graph and the order in which its tasks end, once
\* the kill cascade of exit() is over no dependency that was started for others
\* runs on after the last of them has ended.
THEOREM OrphansAlwaysStopped == Spec => []OrphansStopped
<1>1. TypeOK /\ OrphanInv => OrphansStopped
  <2> SUFFICES ASSUME TypeOK, OrphanInv, calls = <<>>, NEW d \in Task \ Root,
                      Dependents(d) # {}, Continuing(d),
                      \A p \in Dependents(d) : status[p] \in Terminal
               PROVE  FALSE
    BY DEF OrphansStopped
  <2>1. ~Ending(d)
    BY DEF Ending
  <2>2. PICK q \in dependents[d] : status[q] \in Active
    BY <2>1 DEF OrphanInv, NeededWhileUp
  <2>3. q \in Dependents(d)
    BY <2>2 DEF OrphanInv, Registered, Dependents, TypeOK
  <2> QED
    BY <2>2, <2>3 DEF Active, Terminal
<1> QED
  BY <1>1, OrphanInvCorrect, PTL

\* Whatever the dependency graph, exit() never stops or cancels a task that a
\* user started, nor one that another task still needs.
THEOREM NeededTasksSpared == Spec => SparedWhileNeeded
<1>1. TypeOK /\ OrphanInv /\ [Next]_vars =>
        [\A d \in Task : calls # <<>> /\ Stops(d) =>
           /\ d \notin Root
           /\ \A p \in Dependents(d) : status[p] \in Terminal \/ Ending(p)]_vars
  <2> SUFFICES ASSUME TypeOK, OrphanInv, Next, NEW d \in Task, calls # <<>>, Stops(d)
               PROVE  /\ d \notin Root
                      /\ \A p \in Dependents(d) : status[p] \in Terminal \/ Ending(p)
    OBVIOUS
  <2>1. \A t \in Task : pc[t] # "next"
    BY DEF OrphanInv, OneThread
  <2>2. CASE Release
    <3>1. d = Released /\ Released \notin Root /\ ~HeldByOther(Released, Releaser)
      <4>1. CASE status'[d] = "exiting"
        <5>1. status[d] # "exiting"
          BY DEF Stops, Continuing, Stoppable
        <5> QED
          BY <2>2, <4>1, <5>1, ReleaseEffect
      <4>2. CASE Ending(d)'
        BY <2>2, <4>2, ReleaseEffect DEF Stops
      <4> QED
        BY <4>1, <4>2 DEF Stops
    <3> SUFFICES ASSUME NEW p \in Dependents(d), status[p] \notin Terminal, ~Ending(p)
                 PROVE  FALSE
      BY <3>1
    <3>2. p \in Task /\ Created(p) /\ d \in Deps(p) /\ p \in dependents[d]
      BY DEF Dependents, OrphanInv, Registered
    <3>3. p # Releaser
      BY <2>2, ReleaseTasks
    <3>4. status[p] \in Active
      BY <3>2 DEF TypeOK, Status, Created
    <3> QED
      BY <3>1, <3>2, <3>3, <3>4 DEF HeldByOther
  <2>3. CASE Finish
    <3>1. ~Ending(d)'
      BY <2>3, FinishEffect DEF Stops
    <3>2. status'[d] # "exiting"
      BY <2>3, FinishEffect DEF Stops, Continuing, Stoppable, Terminal
    <3> QED
      BY <3>1, <3>2 DEF Stops
  <2>4. ASSUME NEW t \in Task, StartStep(t) \/ StopStep(t)
        PROVE  FALSE
    BY <2>4 DEF StartStep, StopStep, Create, StartLazy, GiveUp, StartDep, DepListens,
                DepCompleted, DepFailed, DepTimesOut, EnterRunning, Launch, EnvFails,
                MayLaunch, PortsAllocated, Prepared, StartFails, UserKill, IdleExpires,
                CapExpires, Escalate, ChildExit, Quiet
  <2>5. ASSUME NEW t \in Task, AliveStep(t)
        PROVE  FALSE
    BY <2>5 DEF AliveStep, HeartbeatTick, ProxyHeartbeat, Quiet
  <2> QED
    BY <2>2, <2>3, <2>4, <2>5 DEF Next
<1> QED
  BY <1>1, OrphanInvCorrect, PTL DEF Spec, SparedWhileNeeded

=============================================================================
