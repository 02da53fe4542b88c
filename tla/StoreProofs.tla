------------------------------ MODULE StoreProofs ------------------------------
(***************************************************************************)
(* Theorems about TaskStore, for any sessions, keys, graphs of depends_on, *)
(* calls and sizes of the store.                                           *)
(***************************************************************************)
EXTENDS TaskStore, SequenceTheorems, FiniteSetTheorems, WellFoundedInduction, TLAPS

-----------------------------------------------------------------------------
(* What the types need: a call that goes on has a frame, and only the outer- *)
(* most create() looks after the init task.                                  *)

InUse == {"read", "resolve", "mark", "make", "wait", "attach"}

StackInUse ==
  \A c \in Call :
    /\ pc[c] \in InUse => stack[c] # <<>>
    /\ pc[c] \in {"mark", "make", "wait"} => Len(stack[c]) = 1

TypeInv == TypeOK /\ StackInUse

-----------------------------------------------------------------------------
(* One init task at a time. *)

\* No call asks for the init task by its name, and no depends_on names it.
InitImplicit ==
  /\ \A c \in Call : KeyOf[c] # InitKey
  /\ \A k \in Key : \A i \in 1 .. Len(Needs[k]) : Needs[k][i] # InitKey

\* _sessionInitCreation holds the call that makes the init task, and while it
\* does no init task of the session is active.
Maker ==
  /\ \A s \in Session : creating[s] # NoCall =>
       /\ pc[creating[s]] = "make" /\ for[creating[s]] = s
       /\ Found(s, InitKey) = {}
  /\ \A c \in Call : pc[c] = "make" => creating[for[c]] = c

\* No nested create() is for an init task.
InitNotNested ==
  \A c \in Call : \A i \in 1 .. Len(stack[c]) : stack[c][i].key # InitKey

InitInv == Maker /\ InitNotNested /\ OneInit

-----------------------------------------------------------------------------
(* The depends_on of a task are complete. *)

\* What frame f of a create() for session s has collected so far, among the tasks T
FrameGood(T, s, f) ==
  /\ \A d \in f.deps : d \in DOMAIN T /\ T[d].session = s
  /\ \A j \in 1 .. Len(Needs[f.key]) : j < f.next =>
       \E d \in f.deps : T[d].key = Needs[f.key][j]

FramesComplete ==
  \A c \in Call : \A i \in 1 .. Len(stack[c]) : FrameGood(tasks, for[c], stack[c][i])

\* A nested create() is for the dependency its caller looks for.
Nested(f, caller) ==
  /\ caller.next \in 1 .. Len(Needs[caller.key])
  /\ f.key = Needs[caller.key][caller.next]

FramesNested ==
  \A c \in Call : \A i \in 1 .. Len(stack[c]) :
    i > 1 => Nested(stack[c][i - 1], stack[c][i])

\* The outermost create() is the call's own, and has the init task when it goes
\* beyond the part that looks after it.
Outermost(c) ==
  LET own == stack[c][Len(stack[c])] IN
    /\ own.key = KeyOf[c]
    /\ pc[c] # "read" \/ Len(stack[c]) > 1 => fresh[c] \/ initialized[for[c]]
    /\ (pc[c] = "attach" \/ Len(stack[c]) > 1) /\ KeyOf[c] # InitKey /\ "init" \in may
         => \/ initialized[for[c]]
            \/ \E d \in own.deps : tasks[d].key = InitKey
    /\ pc[c] = "mark" => "init" \notin may

OutermostInit == \A c \in Call : pc[c] \in InUse => Outermost(c)

\* What a task depends on was made.
DepsMade == \A t \in Id : tasks[t].deps \subseteq Id

DepsInv == FramesComplete /\ FramesNested /\ OutermostInit /\ DepsMade /\ DepsComplete

-----------------------------------------------------------------------------
(* What a step leaves of a task: a task stays what it is, and one that is    *)
(* dying or dead never becomes active again.                                 *)

Kept(t) ==
  /\ t \in Id'
  /\ tasks'[t].session = tasks[t].session /\ tasks'[t].key = tasks[t].key
  /\ tasks'[t].deps = tasks[t].deps /\ tasks'[t].root = tasks[t].root
  /\ tasks'[t].status \in Active => tasks[t].status \in Active

TasksTyped ==
  /\ tasks \in Seq(Task)
  /\ store \subseteq Id /\ Cardinality(store) <= MaxTasks
  /\ recording \subseteq Id /\ awaited \subseteq Id

CallsTyped ==
  /\ creating \in [Session -> Call \cup {NoCall}]
  /\ for \in [Call -> Session]
  /\ pc \in [Call -> {"idle", "read", "resolve", "mark", "make", "wait",
                      "attach", "returned", "failed"}]
  /\ fresh \in [Call -> BOOLEAN]
  /\ stack \in [Call -> Seq(Frame)]

-----------------------------------------------------------------------------
(* The store *)

LEMMA LeastNat ==
  ASSUME NEW S \in SUBSET Nat, S # {}
  PROVE  Least(S) \in S /\ \A j \in S : Least(S) <= j
<1>1. PICK m \in S : \A k \in S : ~(<<k, m>> \in OpToRel(<, Nat))
  BY WFMin, NatLessThanWellFounded, Zenon
<1>2. \A k \in S : <<k, m>> \in OpToRel(<, Nat) <=> k < m
  BY DEF OpToRel
<1>3. \A k \in S : ~(k < m)
  BY <1>1, <1>2, Zenon
<1>4. \E i \in S : \A j \in S : i <= j
  BY <1>3
<1> QED
  BY <1>4, Zenon DEF Least

LEMMA StoreType ==
  ASSUME TypeOK
  PROVE  /\ Id = 1 .. Len(tasks) /\ Len(tasks) \in Nat
         /\ store \subseteq Nat /\ IsFiniteSet(store) /\ Cardinality(store) \in Nat
         /\ \A t \in Id : tasks[t] \in Task
<1>1. Id = 1 .. Len(tasks) /\ Len(tasks) \in Nat
  BY LenProperties DEF TypeOK, Id
<1>2. IsFiniteSet(Id)
  BY <1>1, FS_Interval
<1>3. IsFiniteSet(store) /\ Cardinality(store) \in Nat
  BY <1>2, FS_Subset, FS_CardinalityType DEF TypeOK
<1>4. \A t \in Id : tasks[t] \in Task
  BY <1>1, ElementOfSeq DEF TypeOK
<1>5. store \subseteq Nat
  BY <1>1 DEF TypeOK
<1> QED
  BY <1>1, <1>3, <1>4, <1>5

\* createTask makes room by dropping a task that has ended, or else the oldest.
LEMMA RoomLemma ==
  ASSUME TypeOK
  PROVE  /\ Room \subseteq store /\ IsFiniteSet(Room)
         /\ Cardinality(Room) \in Nat /\ Cardinality(Room) < MaxTasks
         /\ \A t \in store \ Room :
              \/ tasks[t].status = "ended"
              \/ /\ Cardinality(store) >= MaxTasks
                 /\ \A u \in store : t <= u /\ tasks[u].status \in Active
<1>1. CASE Cardinality(store) < MaxTasks
  BY <1>1, StoreType DEF Room
<1>2. CASE ~(Cardinality(store) < MaxTasks)
  <2> DEFINE from == IF Ended # {} THEN Ended ELSE store
  <2>1. Cardinality(store) = MaxTasks /\ MaxTasks \in Nat \ {0} /\ store # {}
    BY <1>2, StoreType, MaxAssumption, FS_EmptySet DEF TypeOK
  <2>2. from \subseteq store /\ from # {} /\ from \in SUBSET Nat
    BY <2>1, StoreType DEF Ended
  <2>3. Least(from) \in from /\ \A u \in from : Least(from) <= u
    BY <2>2, LeastNat
  <2>4. Room = store \ {Least(from)}
    BY <1>2 DEF Room
  <2>5. IsFiniteSet(Room) /\ Cardinality(Room) = Cardinality(store) - 1
    BY <2>2, <2>3, <2>4, StoreType, FS_RemoveElement
  <2>6. ASSUME Ended = {}, NEW u \in store
        PROVE  Least(from) <= u /\ tasks[u].status \in Active
    BY <2>3, <2>6, StoreType DEF Ended, TypeOK, Task
  <2>7. Room \subseteq store /\ Cardinality(Room) \in Nat /\ Cardinality(Room) < MaxTasks
    BY <2>1, <2>4, <2>5
  <2>8. ASSUME NEW t \in store \ Room
        PROVE  \/ tasks[t].status = "ended"
               \/ /\ Cardinality(store) >= MaxTasks
                  /\ \A u \in store : t <= u /\ tasks[u].status \in Active
    <3>1. t = Least(from)
      BY <2>4, <2>8
    <3>2. CASE Ended # {}
      BY <2>3, <3>1, <3>2 DEF Ended
    <3>3. CASE Ended = {}
      BY <2>1, <2>6, <3>1, <3>3
    <3> QED
      BY <3>2, <3>3
  <2> QED
    BY <2>5, <2>7, <2>8
<1> QED
  BY <1>1, <1>2

LEMMA AddLemma ==
  ASSUME TypeOK, NEW task \in Task, Add(task)
  PROVE  /\ tasks' \in Seq(Task)
         /\ Id' = 1 .. Len(tasks) + 1
         /\ \A t \in Id : t \in Id' /\ tasks'[t] = tasks[t]
         /\ tasks'[Len(tasks) + 1] = task
         /\ Len(tasks) + 1 \in Id' /\ Len(tasks) + 1 \notin Id
         /\ store' \subseteq Id' /\ Cardinality(store') <= MaxTasks
         /\ store' \subseteq store \cup {Len(tasks) + 1}
<1>1. /\ tasks' \in Seq(Task) /\ Len(tasks') = Len(tasks) + 1
      /\ \A t \in 1 .. Len(tasks) : tasks'[t] = tasks[t]
      /\ tasks'[Len(tasks) + 1] = task
  BY AppendProperties DEF Add, TypeOK
<1>2. Id' = 1 .. Len(tasks) + 1
  BY <1>1, LenProperties DEF Id
<1>3. store' = Room \cup {Len(tasks) + 1}
  BY DEF Add
<1>4. /\ Room \subseteq store /\ IsFiniteSet(Room)
      /\ Cardinality(Room) \in Nat /\ Cardinality(Room) < MaxTasks
  BY RoomLemma
<1>5. \/ Cardinality(Room \cup {Len(tasks) + 1}) = Cardinality(Room)
      \/ Cardinality(Room \cup {Len(tasks) + 1}) = Cardinality(Room) + 1
  BY <1>4, FS_AddElement
<1>6. Cardinality(store') <= MaxTasks
  BY <1>3, <1>4, <1>5, MaxAssumption
<1>7. /\ Id = 1 .. Len(tasks) /\ Len(tasks) \in Nat /\ store \subseteq Id
  BY StoreType DEF TypeOK
<1>8. \A t \in Id : t \in Id' /\ tasks'[t] = tasks[t]
  BY <1>1, <1>2, <1>7
<1>9. Len(tasks) + 1 \in Id' /\ Len(tasks) + 1 \notin Id
  BY <1>2, <1>7
<1> QED
  BY <1>1, <1>2, <1>3, <1>4, <1>6, <1>7, <1>8, <1>9

LEMMA KillLemma ==
  ASSUME TypeOK, NEW S \in SUBSET Id, KillAll(S)
  PROVE  /\ tasks' \in Seq(Task) /\ Id' = Id /\ recording' \subseteq Id
         /\ \A t \in Id :
              /\ tasks'[t].session = tasks[t].session /\ tasks'[t].key = tasks[t].key
              /\ tasks'[t].deps = tasks[t].deps /\ tasks'[t].root = tasks[t].root
              /\ tasks'[t].status \in Active => tasks[t].status \in Active
         /\ \A t \in S : tasks'[t].status \in {"exiting", "ended"}
<1>1. \A t \in Id : tasks'[t] =
        IF t \notin S THEN tasks[t]
        ELSE [tasks[t] EXCEPT !.status =
                CASE @ = "waiting" -> "ended" [] @ = "running" -> "exiting" [] OTHER -> @]
  BY DEF KillAll
<1>2. Id' = Id
  BY DEF KillAll, Id
<1>3. ASSUME NEW t \in Id
      PROVE  /\ tasks'[t] \in Task
             /\ tasks'[t].session = tasks[t].session /\ tasks'[t].key = tasks[t].key
             /\ tasks'[t].deps = tasks[t].deps /\ tasks'[t].root = tasks[t].root
             /\ tasks'[t].status \in Active => tasks[t].status \in Active
             /\ t \in S => tasks'[t].status \in {"exiting", "ended"}
  <2>1. tasks[t] \in Task
    BY StoreType
  <2>2. CASE t \notin S
    BY <1>1, <2>1, <2>2
  <2>3. CASE t \in S
    <3> DEFINE to == CASE tasks[t].status = "waiting" -> "ended"
                       [] tasks[t].status = "running" -> "exiting"
                       [] OTHER -> tasks[t].status
    <3>1. tasks'[t] = [tasks[t] EXCEPT !.status = to]
      BY <1>1, <2>3
    <3>2. /\ to \in {"exiting", "ended"}
          /\ to \in Active => tasks[t].status \in Active
      BY <2>1 DEF Task, Active
    <3> HIDE DEF to
    <3> QED
      BY <2>1, <3>1, <3>2 DEF Task, Active
  <2> QED
    BY <2>2, <2>3
<1>4. tasks' \in Seq(Task)
  <2>1. tasks' \in [1 .. Len(tasks) -> Task] /\ Len(tasks) \in Nat
    BY <1>2, <1>3, StoreType DEF KillAll
  <2> QED
    BY <2>1
<1>5. recording' \subseteq Id
  BY DEF KillAll, TypeOK
<1> QED
  BY <1>2, <1>3, <1>4, <1>5

-----------------------------------------------------------------------------
(* The stack of nested create() calls *)

LEMMA ReplaceFirst ==
  ASSUME NEW S, NEW q \in Seq(S), q # <<>>, NEW x \in S
  PROVE  LET r == <<x>> \o Tail(q) IN
           /\ r \in Seq(S) /\ r # <<>> /\ Len(r) = Len(q) /\ r[1] = x
           /\ \A i \in 2 .. Len(q) : r[i] = q[i]
<1>1. Tail(q) \in Seq(S) /\ Len(Tail(q)) = Len(q) - 1 /\ Len(q) \in Nat \ {0}
      /\ \A i \in 1 .. Len(q) - 1 : Tail(q)[i] = q[i + 1]
  BY HeadTailProperties, EmptySeq, LenProperties
<1>2. <<x>> \in Seq(S) /\ Len(<<x>>) = 1 /\ <<x>>[1] = x
  OBVIOUS
<1>3. <<x>> \o Tail(q) \in Seq(S) /\ Len(<<x>> \o Tail(q)) = Len(q)
  BY <1>1, <1>2, ConcatProperties
<1>4. \A i \in 1 .. Len(q) : (<<x>> \o Tail(q))[i] = IF i <= 1 THEN <<x>>[i] ELSE Tail(q)[i - 1]
  BY <1>1, <1>2, ConcatProperties
<1> QED
  BY <1>1, <1>2, <1>3, <1>4

LEMMA PushFrame ==
  ASSUME NEW S, NEW q \in Seq(S), q # <<>>, NEW x \in S, NEW y \in S
  PROVE  LET r == <<x, y>> \o Tail(q) IN
           /\ r \in Seq(S) /\ r # <<>> /\ Len(r) = Len(q) + 1 /\ r[1] = x /\ r[2] = y
           /\ \A i \in 3 .. Len(q) + 1 : r[i] = q[i - 1]
<1>1. Tail(q) \in Seq(S) /\ Len(Tail(q)) = Len(q) - 1 /\ Len(q) \in Nat \ {0}
      /\ \A i \in 1 .. Len(q) - 1 : Tail(q)[i] = q[i + 1]
  BY HeadTailProperties, EmptySeq, LenProperties
<1>2. <<x, y>> \in Seq(S) /\ Len(<<x, y>>) = 2 /\ <<x, y>>[1] = x /\ <<x, y>>[2] = y
  OBVIOUS
<1>3. <<x, y>> \o Tail(q) \in Seq(S) /\ Len(<<x, y>> \o Tail(q)) = Len(q) + 1
  BY <1>1, <1>2, ConcatProperties
<1>4. \A i \in 1 .. Len(q) + 1 :
        (<<x, y>> \o Tail(q))[i] = IF i <= 2 THEN <<x, y>>[i] ELSE Tail(q)[i - 2]
  BY <1>1, <1>2, ConcatProperties
<1> QED
  BY <1>1, <1>2, <1>3, <1>4

LEMMA PopFrame ==
  ASSUME NEW S, NEW q \in Seq(S), Len(q) > 1, NEW x \in S
  PROVE  LET r == <<x>> \o Tail(Tail(q)) IN
           /\ r \in Seq(S) /\ r # <<>> /\ Len(r) = Len(q) - 1 /\ r[1] = x
           /\ \A i \in 2 .. Len(q) - 1 : r[i] = q[i + 1]
<1>1. Tail(q) \in Seq(S) /\ Len(Tail(q)) = Len(q) - 1 /\ Len(q) \in Nat \ {0}
      /\ \A i \in 1 .. Len(q) - 1 : Tail(q)[i] = q[i + 1]
  BY HeadTailProperties, EmptySeq, LenProperties
<1>2. Tail(q) # <<>>
  <2>1. Len(Tail(q)) \in Nat \ {0}
    BY <1>1
  <2> QED
    BY <1>1, <2>1, EmptySeq
<1>3. LET r == <<x>> \o Tail(Tail(q)) IN
        /\ r \in Seq(S) /\ r # <<>> /\ Len(r) = Len(Tail(q)) /\ r[1] = x
        /\ \A i \in 2 .. Len(Tail(q)) : r[i] = Tail(q)[i]
  BY <1>1, <1>2, ReplaceFirst
<1> QED
  BY <1>1, <1>3

LEMMA TopFrame ==
  ASSUME TypeInv, NEW c \in Call, stack[c] # <<>>
  PROVE  /\ stack[c] \in Seq(Frame) /\ Len(stack[c]) \in Nat \ {0}
         /\ Frame1(c) = stack[c][1] /\ Frame1(c) \in Frame
         /\ Wanted(c) \in Seq(Key) /\ Len(Wanted(c)) \in Nat
         /\ \A i \in 1 .. Len(stack[c]) : stack[c][i] \in Frame
<1>1. stack[c] \in Seq(Frame) /\ Len(stack[c]) \in Nat \ {0}
  BY EmptySeq, LenProperties DEF TypeInv, TypeOK
<1>2. \A i \in 1 .. Len(stack[c]) : stack[c][i] \in Frame
  BY <1>1, ElementOfSeq
<1>3. Frame1(c) = stack[c][1] /\ Frame1(c) \in Frame
  BY <1>1, <1>2, HeadTailProperties DEF Frame1
<1>4. Wanted(c) \in Seq(Key)
  BY <1>3, KeyAssumption DEF Wanted, Frame
<1> QED
  BY <1>1, <1>2, <1>3, <1>4, LenProperties

\* The part of the loop of attachYamlDependsOn that needs no await: what it
\* attaches is in the store, belongs to the session and covers the keys before
\* the one that stops it.
LEMMA AttachLemma ==
  ASSUME TypeInv, NEW c \in Call, stack[c] # <<>>
  PROVE  /\ Stop(c) \in 1 .. Len(Wanted(c)) + 1
         /\ Stop(c) <= Len(Wanted(c)) =>
              /\ Frame1(c).next <= Stop(c)
              /\ Refused(c, Wanted(c)[Stop(c)]) \/ Found(for[c], Wanted(c)[Stop(c)]) = {}
         /\ Frame1(c).deps \subseteq Attached(c) /\ Attached(c) \subseteq Nat
         /\ \A d \in Attached(c) :
              d \in Frame1(c).deps \/ (d \in store /\ tasks[d].session = for[c])
         /\ \A i \in 1 .. Len(Wanted(c)) : Frame1(c).next <= i /\ i < Stop(c) =>
              /\ ~Refused(c, Wanted(c)[i])
              /\ \E d \in Attached(c) : d \in store /\ tasks[d].key = Wanted(c)[i]
<1> DEFINE n == Len(Wanted(c))
           first == Frame1(c).next
           stops == {i \in first .. n :
                       Refused(c, Wanted(c)[i]) \/ Found(for[c], Wanted(c)[i]) = {}}
<1>1. n \in Nat /\ first \in Nat \ {0} /\ Frame1(c).deps \subseteq Nat
  BY TopFrame DEF Frame
<1>2. Stop(c) = Least(stops \cup {n + 1})
  BY DEF Stop
<1>3. stops \subseteq 1 .. n /\ stops \cup {n + 1} \in SUBSET Nat
  BY <1>1
<1> HIDE DEF first, n
<1>4. Stop(c) \in stops \cup {n + 1} /\ \A i \in stops \cup {n + 1} : Stop(c) <= i
  BY ZenonT(60), <1>2, <1>3, LeastNat
<1>5. Stop(c) \in 1 .. n + 1 /\ (Stop(c) <= n => Stop(c) \in stops)
  BY <1>1, <1>3, <1>4
<1>6. ASSUME NEW i \in first .. Stop(c) - 1
      PROVE  /\ ~Refused(c, Wanted(c)[i]) /\ Found(for[c], Wanted(c)[i]) # {}
             /\ Least(Found(for[c], Wanted(c)[i])) \in Found(for[c], Wanted(c)[i])
  <2>1. i \in first .. n /\ i \notin stops
    BY <1>1, <1>4, <1>5
  <2>2. ~Refused(c, Wanted(c)[i]) /\ Found(for[c], Wanted(c)[i]) # {}
    BY <2>1
  <2>3. Found(for[c], Wanted(c)[i]) \in SUBSET Nat
    BY StoreType DEF Found, TypeInv
  <2> QED
    BY <2>2, <2>3, LeastNat
<1>7. Attached(c) = Frame1(c).deps \cup
        {Least(Found(for[c], Wanted(c)[i])) : i \in first .. Stop(c) - 1}
  BY DEF Attached, first
<1>8. \A d \in Attached(c) :
        d \in Frame1(c).deps \/ (d \in store /\ tasks[d].session = for[c])
  BY ZenonT(60), <1>6, <1>7 DEF Found
<1>9. \A i \in 1 .. n : first <= i /\ i < Stop(c) =>
        /\ ~Refused(c, Wanted(c)[i])
        /\ \E d \in Attached(c) : d \in store /\ tasks[d].key = Wanted(c)[i]
  <2> SUFFICES ASSUME NEW i \in 1 .. n, first <= i, i < Stop(c)
               PROVE  /\ ~Refused(c, Wanted(c)[i])
                      /\ \E d \in Attached(c) : d \in store /\ tasks[d].key = Wanted(c)[i]
    OBVIOUS
  <2>1. i \in first .. Stop(c) - 1
    BY <1>1, <1>5
  <2>2. Least(Found(for[c], Wanted(c)[i])) \in Attached(c)
    BY <1>7, <2>1
  <2> QED
    BY <1>6, <2>1, <2>2 DEF Found
<1>10. Attached(c) \subseteq Nat
  BY <1>1, <1>8, StoreType DEF TypeInv
<1> QED
  BY <1>1, <1>5, <1>7, <1>8, <1>9, <1>10 DEF first, n

-----------------------------------------------------------------------------
(* Types *)

LEMMA OneTask ==
  ASSUME TypeOK, NEW t \in Id, NEW v \in Task, tasks' = [tasks EXCEPT ![t] = v],
         v.session = tasks[t].session, v.key = tasks[t].key, v.deps = tasks[t].deps,
         v.root = tasks[t].root, tasks[t].status \in Active
  PROVE  tasks' \in Seq(Task) /\ Id' = Id /\ \A u \in Id : Kept(u)
<1>1. tasks' \in Seq(Task) /\ Len(tasks') = Len(tasks)
      /\ \A u \in 1 .. Len(tasks) : tasks'[u] = IF u = t THEN v ELSE tasks[u]
  BY StoreType, ExceptSeq DEF TypeOK
<1>2. Id' = Id
  BY <1>1, StoreType, LenProperties DEF Id
<1> QED
  BY <1>1, <1>2, StoreType DEF Kept

LEMMA NewTaskType ==
  ASSUME TypeInv, NEW c \in Call, stack[c] # <<>>
  PROVE  NewTask(c) \in Task /\ InitTask(for[c]) \in Task
<1>1. for[c] \in Session /\ Frame1(c).key \in Key /\ InitKey \in Key
  BY TopFrame, KeyAssumption DEF TypeInv, TypeOK, Frame
<1>2. Attached(c) \in SUBSET Nat
  BY AttachLemma
<1>3. NewTask(c) \in Task
  BY <1>1, <1>2 DEF NewTask, Task, Active
<1> QED
  BY <1>1, <1>3 DEF InitTask, Task, Active

\* Every step keeps the tasks what they are, and the store in its bounds.
LEMMA TasksStep ==
  ASSUME TypeInv, [Next]_vars
  PROVE  TasksTyped' /\ \A t \in Id : Kept(t)
<1> USE DEF TypeInv
<1>1. CASE UNCHANGED <<tasks, store, recording, awaited>>
  BY <1>1 DEF TypeOK, TasksTyped, Kept, Id
<1>2. ASSUME NEW c \in Call, Start(c) PROVE UNCHANGED <<tasks, store, recording, awaited>>
  BY <1>2 DEF Start, server
<1>3. ASSUME NEW c \in Call,
             ReadSession(c) \/ Resolve(c) \/ MarkInitialized(c) \/ FailInit(c) \/ Refuse(c)
               \/ Descend(c)
      PROVE  UNCHANGED <<tasks, store, recording, awaited>>
  BY <1>3 DEF ReadSession, Resolve, MarkInitialized, FailInit, Refuse, Descend, server
<1>4. ASSUME NEW task \in Task, Add(task), UNCHANGED <<recording, awaited>>
      PROVE  TasksTyped' /\ \A t \in Id : Kept(t)
  BY <1>4, AddLemma DEF TypeOK, TasksTyped, Kept
<1>5. ASSUME NEW c \in Call, MakeInit(c) PROVE TasksTyped' /\ \A t \in Id : Kept(t)
  <2>1. stack[c] # <<>>
    BY <1>5 DEF MakeInit, StackInUse, InUse
  <2> QED
    BY <1>4, <1>5, <2>1, NewTaskType DEF MakeInit, server
<1>6. ASSUME NEW c \in Call, Make(c) PROVE TasksTyped' /\ \A t \in Id : Kept(t)
  <2>1. stack[c] # <<>>
    BY <1>6 DEF Make, StackInUse, InUse
  <2> QED
    BY <1>4, <1>6, <2>1, NewTaskType DEF Make, server
<1>7. ASSUME NEW t \in Id, NEW v \in Task, tasks' = [tasks EXCEPT ![t] = v],
             v.session = tasks[t].session, v.key = tasks[t].key, v.deps = tasks[t].deps,
             v.root = tasks[t].root, tasks[t].status \in Active,
             recording' \subseteq Id, UNCHANGED <<store, awaited>>
      PROVE  TasksTyped' /\ \A u \in Id : Kept(u)
  <2>1. tasks' \in Seq(Task) /\ Id' = Id /\ \A u \in Id : Kept(u)
    BY <1>7, OneTask
  <2> QED
    BY <1>7, <2>1 DEF TypeOK, TasksTyped
<1>8. ASSUME NEW t \in Id, Begin(t) PROVE TasksTyped' /\ \A u \in Id : Kept(u)
  <2> DEFINE v == [tasks[t] EXCEPT !.status = "running", !.begun = TRUE]
  <2>1. tasks[t] \in Task
    BY StoreType
  <2>2. v \in Task /\ v.session = tasks[t].session /\ v.key = tasks[t].key
        /\ v.deps = tasks[t].deps /\ v.root = tasks[t].root
    BY <2>1 DEF Task, Active
  <2>3. tasks' = [tasks EXCEPT ![t] = v] /\ tasks[t].status \in Active
    BY <1>8, <2>1 DEF Begin, Active, Id
  <2>4. recording' \subseteq Id /\ UNCHANGED <<store, awaited>>
    BY <1>8 DEF Begin, server, TypeOK
  <2> HIDE DEF v
  <2> QED
    BY <1>7, <2>2, <2>3, <2>4
<1>9. ASSUME NEW t \in Id, End(t) PROVE TasksTyped' /\ \A u \in Id : Kept(u)
  <2> DEFINE v == [tasks[t] EXCEPT !.status = "ended"]
  <2>1. tasks[t] \in Task
    BY StoreType
  <2>2. v \in Task /\ v.session = tasks[t].session /\ v.key = tasks[t].key
        /\ v.deps = tasks[t].deps /\ v.root = tasks[t].root
    BY <2>1 DEF Task, Active
  <2>3. tasks' = [tasks EXCEPT ![t] = v] /\ tasks[t].status \in Active
    BY <1>9, <2>1 DEF End, Active, Id
  <2>4. recording' \subseteq Id /\ UNCHANGED <<store, awaited>>
    BY <1>9 DEF End, server, TypeOK
  <2> HIDE DEF v
  <2> QED
    BY <1>7, <2>2, <2>3, <2>4
<1>10. ASSUME NEW t \in Id, Record(t) PROVE TasksTyped' /\ \A u \in Id : Kept(u)
  BY <1>10 DEF Record, server, TypeOK, TasksTyped, Kept, Id
<1>11. ASSUME NEW S \in SUBSET Id, KillAll(S), store' \subseteq store, awaited' \subseteq Id
       PROVE  TasksTyped' /\ \A u \in Id : Kept(u)
  <2>1. tasks' \in Seq(Task) /\ Id' = Id /\ recording' \subseteq Id /\ \A u \in Id : Kept(u)
    BY <1>11, KillLemma DEF Kept
  <2>2. IsFiniteSet(store') /\ Cardinality(store') <= Cardinality(store)
    BY <1>11, StoreType, FS_Subset
  <2>3. Cardinality(store') \in Nat /\ Cardinality(store) \in Nat
    BY <2>2, StoreType, FS_CardinalityType
  <2>4. Cardinality(store') <= MaxTasks
    BY <2>2, <2>3, MaxAssumption DEF TypeOK
  <2> QED
    BY <1>11, <2>1, <2>4 DEF TypeOK, TasksTyped
<1>12. ASSUME NEW t \in Id, Kill(t) \/ Delete(t)
       PROVE  TasksTyped' /\ \A u \in Id : Kept(u)
  BY <1>11, <1>12 DEF Kill, Delete, server, TypeOK
<1>13. ASSUME NEW s \in Session, DeleteSession(s)
       PROVE  TasksTyped' /\ \A u \in Id : Kept(u)
  <2>1. {t \in store : tasks[t].session = s} \in SUBSET Id
    BY DEF TypeOK
  <2> QED
    BY <1>11, <1>13, <2>1 DEF DeleteSession, server, TypeOK
<1>14. CASE Shutdown
  <2>1. awaited' \in SUBSET Id
    BY <1>14 DEF Shutdown, TypeOK
  <2>2. KillAll(awaited') /\ store' = store
    BY <1>14 DEF Shutdown
  <2> QED
    BY <1>11, <2>1, <2>2
<1>15. CASE Exit
  BY <1>15, FS_EmptySet, MaxAssumption DEF Exit, rows, TypeOK, TasksTyped, Kept, Id
<1>16. ASSUME NEW s \in Session, MarkArchived(s)
       PROVE  UNCHANGED <<tasks, store, recording, awaited>>
  BY <1>16 DEF MarkArchived, server
<1>17. CASE UNCHANGED vars
  BY <1>1, <1>17 DEF vars
<1> QED
  BY <1>1, <1>2, <1>3, <1>5, <1>6, <1>8, <1>9, <1>10, <1>12, <1>13, <1>14, <1>15, <1>16,
     <1>17 DEF Next, Proceed

LEMMA FoundLeast ==
  ASSUME TypeOK, NEW s, NEW k, Found(s, k) # {}
  PROVE  LET t == Least(Found(s, k)) IN
           /\ t \in Found(s, k) /\ t \in store /\ t \in Id /\ t \in Nat
           /\ tasks[t].session = s /\ tasks[t].key = k /\ tasks[t].status \in Active
<1>1. Found(s, k) \in SUBSET Nat
  BY StoreType DEF Found
<1>2. Least(Found(s, k)) \in Found(s, k)
  BY <1>1, LeastNat
<1> QED
  BY <1>1, <1>2 DEF Found, TypeOK

\* What a step of a call leaves of the calls
OneCall(c) ==
  /\ CallsTyped'
  /\ pc'[c] \in InUse => stack'[c] # <<>>
  /\ pc'[c] \in {"mark", "make", "wait"} => Len(stack'[c]) = 1

LEMMA OneCallStep ==
  ASSUME TypeInv, NEW c \in Call, OneCall(c),
         \A b \in Call \ {c} : pc'[b] = pc[b] /\ stack'[b] = stack[b]
  PROVE  CallsTyped' /\ StackInUse'
BY DEF TypeInv, OneCall, StackInUse

LEMMA CallsStep ==
  ASSUME TypeInv, [Next]_vars
  PROVE  CallsTyped' /\ StackInUse'
<1> USE DEF TypeInv
<1>1. ASSUME UNCHANGED <<creating, for, pc, fresh, stack>>
      PROVE  CallsTyped' /\ StackInUse'
  BY <1>1 DEF TypeOK, CallsTyped, StackInUse
<1>2. ASSUME NEW c \in Call, Start(c) PROVE CallsTyped' /\ StackInUse'
  <2> DEFINE f == [key |-> KeyOf[c], next |-> 1, deps |-> {}]
  <2>1. f \in Frame
    BY CallAssumption, KeyAssumption DEF Frame
  <2> HIDE DEF f
  <2>2. <<f>> \in Seq(Frame) /\ Len(<<f>>) = 1 /\ <<f>> # <<>>
    BY <2>1
  <2>3. stack' = [stack EXCEPT ![c] = <<f>>] /\ pc' = [pc EXCEPT ![c] = "read"]
        /\ for' \in [Call -> Session] /\ UNCHANGED <<creating, fresh>>
    BY ZenonT(60), <1>2, CallAssumption DEF Start, Goto, f, TypeOK
  <2>4. OneCall(c)
    BY <2>2, <2>3 DEF OneCall, CallsTyped, TypeOK, InUse
  <2> QED
    BY <2>3, <2>4, OneCallStep DEF TypeOK
<1>3. ASSUME NEW c \in Call,
             ReadSession(c) \/ MarkInitialized(c) \/ Refuse(c)
      PROVE  CallsTyped' /\ StackInUse'
  BY ZenonT(60), <1>3 DEF ReadSession, MarkInitialized, Refuse, Goto, TypeOK, CallsTyped, StackInUse, InUse
<1>4. ASSUME NEW c \in Call, Resolve(c) PROVE CallsTyped' /\ StackInUse'
  <2>1. stack[c] # <<>> /\ pc[c] = "resolve" /\ UNCHANGED <<for, fresh>>
    BY <1>4 DEF Resolve, StackInUse, InUse
  <2>2. CASE stack' = stack
    BY ZenonT(60), <1>4, <2>1, <2>2 DEF Resolve, WantsInit, Goto, TypeOK, CallsTyped, StackInUse, InUse
  <2>3. CASE /\ Found(for[c], InitKey) # {} /\ Goto(c, "attach") /\ creating' = creating
             /\ stack' = WithDep(c, Least(Found(for[c], InitKey)))
    <3> DEFINE t == Least(Found(for[c], InitKey))
               f == [Frame1(c) EXCEPT !.deps = @ \cup {t}]
    <3>1. t \in Nat
      BY <2>3, FoundLeast
    <3>7. stack' = WithDep(c, t)
      BY <2>3
    <3> HIDE DEF t
    <3>2. Frame1(c) \in Frame
      BY <2>1, TopFrame
    <3>3. f \in Frame
      BY <3>1, <3>2 DEF Frame
    <3>4. stack' = [stack EXCEPT ![c] = <<f>> \o Tail(stack[c])]
      BY <3>7 DEF WithDep, TypeOK
    <3> HIDE DEF f
    <3>5. <<f>> \o Tail(stack[c]) \in Seq(Frame) /\ <<f>> \o Tail(stack[c]) # <<>>
      BY <2>1, <3>3, ReplaceFirst DEF TypeOK
    <3>6. OneCall(c)
      BY <2>1, <2>3, <3>4, <3>5 DEF OneCall, Goto, CallsTyped, TypeOK, InUse
    <3> QED
      BY <2>3, <3>4, <3>6, OneCallStep DEF Goto, TypeOK
  <2> QED
    BY <1>4, <2>2, <2>3 DEF Resolve
<1>5. ASSUME NEW c \in Call, MakeInit(c) PROVE CallsTyped' /\ StackInUse'
  <2> DEFINE f(b) == [Head(stack[b]) EXCEPT !.deps = @ \cup {Len(tasks) + 1}]
  <2>1. ASSUME NEW b \in Sharers(c)
        PROVE  b \in Call /\ <<f(b)>> \in Seq(Frame) /\ <<f(b)>> # <<>>
    <3>1. b \in Call /\ stack[b] # <<>>
      BY <1>5, <2>1 DEF MakeInit, Sharers, StackInUse, InUse
    <3>2. Head(stack[b]) \in Frame /\ Len(tasks) \in Nat
      BY <3>1, TopFrame, StoreType DEF Frame1
    <3>3. f(b) \in Frame
      BY <3>2 DEF Frame
    <3> QED
      BY <3>1, <3>3
  <2>2. pc' = [b \in Call |-> IF b \in Sharers(c) THEN "attach" ELSE pc[b]]
        /\ stack' = [b \in Call |-> IF b \notin Sharers(c) THEN stack[b] ELSE <<f(b)>>]
        /\ creating' = [creating EXCEPT ![for[c]] = NoCall] /\ UNCHANGED <<for, fresh>>
    BY <1>5 DEF MakeInit
  <2> HIDE DEF f
  <2> QED
    BY <2>1, <2>2 DEF TypeOK, CallsTyped, StackInUse, InUse
<1>6. ASSUME NEW c \in Call, FailInit(c) PROVE CallsTyped' /\ StackInUse'
  BY <1>6 DEF FailInit, Sharers, TypeOK, CallsTyped, StackInUse, InUse
<1>7. ASSUME NEW c \in Call, Descend(c) PROVE CallsTyped' /\ StackInUse'
  <2> DEFINE x == [key |-> Wanted(c)[Stop(c)], next |-> 1, deps |-> {}]
             y == [Frame1(c) EXCEPT !.next = Stop(c), !.deps = Attached(c)]
  <2>1. stack[c] # <<>> /\ Stop(c) <= Len(Wanted(c))
    BY <1>7 DEF Descend, StackInUse, InUse
  <2>2. Stop(c) \in 1 .. Len(Wanted(c)) /\ Stop(c) \in Nat \ {0} /\ Attached(c) \in SUBSET Nat
    <3>1. Len(Wanted(c)) \in Nat
      BY <2>1, TopFrame
    <3> QED
      BY <2>1, <3>1, AttachLemma
  <2>3. Wanted(c)[Stop(c)] \in Key /\ Frame1(c) \in Frame
    BY <2>1, <2>2, TopFrame, ElementOfSeq
  <2>4. x \in Frame /\ y \in Frame
    <3> DEFINE h == Frame1(c)
               n == Stop(c)
               d == Attached(c)
    <3>1. h \in Frame /\ n \in Nat \ {0} /\ d \in SUBSET Nat
      BY <2>2, <2>3
    <3> HIDE DEF h, n, d
    <3>2. [h EXCEPT !.next = n, !.deps = d] \in Frame
      BY <3>1 DEF Frame
    <3> QED
      BY <2>3, <3>2 DEF Frame, h, n, d
  <2>5. stack' = [stack EXCEPT ![c] = <<x, y>> \o Tail(stack[c])] /\ Goto(c, "read")
        /\ UNCHANGED <<creating, for, fresh>>
    BY <1>7 DEF Descend, TypeOK
  <2> HIDE DEF x, y
  <2>6. <<x, y>> \o Tail(stack[c]) \in Seq(Frame) /\ <<x, y>> \o Tail(stack[c]) # <<>>
    BY <2>1, <2>4, PushFrame DEF TypeOK
  <2>7. OneCall(c)
    BY <2>5, <2>6 DEF OneCall, Goto, CallsTyped, TypeOK, InUse
  <2> QED
    BY <2>5, <2>7, OneCallStep DEF Goto, TypeOK
<1>8. ASSUME NEW c \in Call, Make(c) PROVE CallsTyped' /\ StackInUse'
  <2>1. stack[c] # <<>> /\ UNCHANGED <<creating, for, fresh>>
    BY <1>8 DEF Make, StackInUse, InUse
  <2>2. CASE Len(stack[c]) = 1
    BY <1>8, <2>2 DEF Make, Goto, TypeOK, CallsTyped, StackInUse, InUse
  <2>3. CASE Len(stack[c]) # 1
    <3> DEFINE g == stack[c][2]
               n == Len(tasks) + 1
               x == [g EXCEPT !.next = @ + 1, !.deps = @ \cup {n}]
    <3>6. Len(stack[c]) \in Nat \ {0} /\ \A i \in 1 .. Len(stack[c]) : stack[c][i] \in Frame
      BY <2>1, TopFrame
    <3>1. Len(stack[c]) > 1
      <4> DEFINE l == Len(stack[c])
      <4>1. l \in Nat /\ l # 0 /\ l # 1
        BY <2>3, <3>6
      <4> HIDE DEF l
      <4>2. l > 1
        BY <4>1
      <4> QED
        BY <4>2 DEF l
    <3>7. g \in Frame /\ n \in Nat
      BY <3>1, <3>6, StoreType
    <3>2. x \in Frame
      <4> HIDE DEF g, n
      <4>1. g.next + 1 \in Nat \ {0} /\ g.deps \cup {n} \in SUBSET Nat
        BY <3>7 DEF Frame
      <4> QED
        BY <3>7, <4>1 DEF Frame
    <3>3. stack' = [stack EXCEPT ![c] = <<x>> \o Tail(Tail(stack[c]))] /\ pc' = pc
      BY <1>8, <2>3 DEF Make
    <3> HIDE DEF x
    <3>4. <<x>> \o Tail(Tail(stack[c])) \in Seq(Frame) /\ <<x>> \o Tail(Tail(stack[c])) # <<>>
      BY ZenonT(60), <3>1, <3>2, PopFrame DEF TypeOK
    <3>5. OneCall(c)
      BY <1>8, <2>1, <3>3, <3>4 DEF Make, OneCall, CallsTyped, TypeOK, InUse
    <3> QED
      BY <3>3, <3>5, OneCallStep DEF TypeOK
  <2> QED
    BY <2>2, <2>3
<1>9. ASSUME NEW t \in Id, Begin(t) \/ End(t) \/ Record(t) \/ Kill(t) \/ Delete(t)
      PROVE  UNCHANGED <<creating, for, pc, fresh, stack>>
  BY <1>9 DEF Begin, End, Record, Kill, Delete, calls
<1>10. ASSUME NEW s \in Session, DeleteSession(s) \/ MarkArchived(s)
       PROVE  UNCHANGED <<creating, for, pc, fresh, stack>>
  BY <1>10 DEF DeleteSession, MarkArchived, calls
<1>11. ASSUME Shutdown \/ Exit \/ UNCHANGED vars
       PROVE  UNCHANGED <<creating, for, pc, fresh, stack>>
  BY <1>11 DEF Shutdown, Exit, calls, vars
<1> QED
  BY <1>1, <1>2, <1>3, <1>4, <1>5, <1>6, <1>7, <1>8, <1>9, <1>10, <1>11 DEF Next, Proceed

LEMMA RowsStep ==
  ASSUME TypeInv, [Next]_vars
  PROVE  /\ may' = may /\ down' \in {"up", "stopping", "exited"}
         /\ initialized' \in [Session -> BOOLEAN]
         /\ \A s \in Session : initialized[s] => initialized'[s]
         /\ archived' \in [Session -> BOOLEAN] /\ closing' \in [Session -> BOOLEAN]
<1> USE DEF TypeInv, TypeOK
<1>1. ASSUME NEW c \in Call, Start(c) \/ Proceed(c)
      PROVE  /\ UNCHANGED <<may, down, archived, closing>>
             /\ \/ initialized' = initialized
                \/ initialized' = [initialized EXCEPT ![for[c]] = TRUE]
  BY <1>1 DEF Start, Proceed, ReadSession, Resolve, MarkInitialized, MakeInit, FailInit,
              Refuse, Descend, Make, rows, server
<1>2. ASSUME NEW t \in Id, Begin(t) \/ End(t) \/ Record(t) \/ Kill(t) \/ Delete(t)
      PROVE  /\ UNCHANGED <<may, down, archived, closing>>
             /\ \/ initialized' = initialized
                \/ initialized' = [initialized EXCEPT ![tasks[t].session] = TRUE]
  BY <1>2 DEF Begin, End, Record, Kill, Delete, rows, server
<1>3. ASSUME NEW s \in Session, DeleteSession(s) \/ MarkArchived(s)
      PROVE  /\ UNCHANGED <<may, down, initialized>>
             /\ archived' \in [Session -> BOOLEAN] /\ closing' \in [Session -> BOOLEAN]
  BY <1>3 DEF DeleteSession, MarkArchived, server
<1>4. ASSUME Shutdown \/ Exit \/ UNCHANGED vars
      PROVE  /\ UNCHANGED <<may, initialized, archived, closing>>
             /\ down' \in {"up", "stopping", "exited"}
  BY <1>4 DEF Shutdown, Exit, rows, vars
<1> QED
  BY <1>1, <1>2, <1>3, <1>4 DEF Next

\* The types: the store never holds more than MAX_TASKS entries and only tasks
\* that were made, and a create() that goes on has a frame.
LEMMA TypeStep ==
  ASSUME TypeInv, [Next]_vars
  PROVE  TypeInv'
BY TasksStep, CallsStep, RowsStep DEF TypeInv, TypeOK, TasksTyped, CallsTyped

LEMMA TypeStart ==
  ASSUME Init
  PROVE  TypeInv
<1>1. (CHOOSE s \in Session : TRUE) \in Session
  BY SessionAssumption
<1>2. tasks \in Seq(Task) /\ Id = {} /\ store \subseteq Id /\ Cardinality(store) <= MaxTasks
  BY FS_EmptySet, MaxAssumption, EmptySeq DEF Init, Id
<1>3. stack \in [Call -> Seq(Frame)]
  BY EmptySeq DEF Init
<1> QED
  BY <1>1, <1>2, <1>3 DEF Init, TypeInv, TypeOK, StackInUse, InUse

\* Every state has the types; above all the store holds at most MAX_TASKS
\* entries, whoever creates and deletes (createTask, deleteTask).
THEOREM TypeCorrect == Spec => []TypeOK
<1>1. Init => TypeInv
  BY TypeStart
<1>2. TypeInv /\ [Next]_vars => TypeInv'
  BY TypeStep
<1>3. TypeInv => TypeOK
  BY DEF TypeInv
<1> QED
  BY <1>1, <1>2, <1>3, PTL DEF Spec

-----------------------------------------------------------------------------
(* What the steps of a call do to its stack, frame by frame *)

LEMMA StartFrames ==
  ASSUME TypeInv, NEW c \in Call, Start(c)
  PROVE  /\ Len(stack'[c]) = 1 /\ pc'[c] = "read"
         /\ stack'[c][1].key = KeyOf[c] /\ stack'[c][1].next = 1 /\ stack'[c][1].deps = {}
         /\ \A b \in Call \ {c} : stack'[b] = stack[b] /\ for'[b] = for[b] /\ pc'[b] = pc[b]
         /\ creating' = creating /\ fresh' = fresh
BY DEF Start, Goto, TypeInv, TypeOK

LEMMA WithDepFrames ==
  ASSUME TypeInv, NEW c \in Call, stack[c] # <<>>, NEW t \in Nat, stack' = WithDep(c, t)
  PROVE  /\ Len(stack'[c]) = Len(stack[c])
         /\ stack'[c][1].key = stack[c][1].key /\ stack'[c][1].next = stack[c][1].next
         /\ stack'[c][1].deps = stack[c][1].deps \cup {t}
         /\ \A i \in 2 .. Len(stack[c]) : stack'[c][i] = stack[c][i]
         /\ \A b \in Call \ {c} : stack'[b] = stack[b]
<1> DEFINE f == [Frame1(c) EXCEPT !.deps = @ \cup {t}]
<1>1. Frame1(c) \in Frame /\ Frame1(c) = stack[c][1]
  BY TopFrame
<1>2. f \in Frame /\ f.key = stack[c][1].key /\ f.next = stack[c][1].next
      /\ f.deps = stack[c][1].deps \cup {t}
  BY <1>1 DEF Frame
<1>3. stack' = [stack EXCEPT ![c] = <<f>> \o Tail(stack[c])]
  BY DEF WithDep, TypeInv, TypeOK
<1> HIDE DEF f
<1>4. stack'[c] = <<f>> \o Tail(stack[c]) /\ \A b \in Call \ {c} : stack'[b] = stack[b]
  BY <1>3 DEF TypeInv, TypeOK
<1>5. stack[c] \in Seq(Frame)
  BY TopFrame
<1> QED
  BY <1>2, <1>4, <1>5, ReplaceFirst

LEMMA DescendFrames ==
  ASSUME TypeInv, NEW c \in Call, Descend(c)
  PROVE  /\ stack[c] # <<>> /\ pc'[c] = "read" /\ Len(stack'[c]) = Len(stack[c]) + 1
         /\ Stop(c) \in 1 .. Len(Wanted(c)) /\ ~Refused(c, Wanted(c)[Stop(c)])
         /\ stack'[c][1].key = Wanted(c)[Stop(c)]
         /\ stack'[c][1].next = 1 /\ stack'[c][1].deps = {}
         /\ stack'[c][2].key = stack[c][1].key /\ stack'[c][2].next = Stop(c)
         /\ stack'[c][2].deps = Attached(c)
         /\ \A i \in 3 .. Len(stack[c]) + 1 : stack'[c][i] = stack[c][i - 1]
         /\ \A b \in Call \ {c} : stack'[b] = stack[b] /\ pc'[b] = pc[b]
<1> DEFINE x == [key |-> Wanted(c)[Stop(c)], next |-> 1, deps |-> {}]
           y == [Frame1(c) EXCEPT !.next = Stop(c), !.deps = Attached(c)]
<1>1. stack[c] # <<>> /\ Stop(c) <= Len(Wanted(c)) /\ ~Refused(c, Wanted(c)[Stop(c)])
  BY DEF Descend, TypeInv, StackInUse, InUse
<1>2. Len(Wanted(c)) \in Nat /\ stack[c] \in Seq(Frame)
      /\ Frame1(c) \in Frame /\ Frame1(c) = stack[c][1]
  BY <1>1, TopFrame
<1>3. Stop(c) \in 1 .. Len(Wanted(c))
  BY <1>1, <1>2, AttachLemma
<1>4. y.key = stack[c][1].key /\ y.next = Stop(c) /\ y.deps = Attached(c)
  BY <1>2 DEF Frame
<1>5. x.key = Wanted(c)[Stop(c)] /\ x.next = 1 /\ x.deps = {}
  OBVIOUS
<1>6. stack' = [stack EXCEPT ![c] = <<x, y>> \o Tail(stack[c])] /\ pc' = [pc EXCEPT ![c] = "read"]
  BY DEF Descend, Goto
<1> HIDE DEF x, y
<1>7. stack'[c] = <<x, y>> \o Tail(stack[c]) /\ pc'[c] = "read"
      /\ \A b \in Call \ {c} : stack'[b] = stack[b] /\ pc'[b] = pc[b]
  BY <1>6 DEF TypeInv, TypeOK
<1>8. stack[c] \in Seq(Frame \cup {x, y})
  BY <1>2
<1>9. /\ Len(stack'[c]) = Len(stack[c]) + 1 /\ stack'[c][1] = x /\ stack'[c][2] = y
      /\ \A i \in 3 .. Len(stack[c]) + 1 : stack'[c][i] = stack[c][i - 1]
  BY <1>1, <1>7, <1>8, PushFrame
<1> QED
  BY <1>1, <1>3, <1>4, <1>5, <1>7, <1>9

LEMMA MakeFrames ==
  ASSUME TypeInv, NEW c \in Call, Make(c)
  PROVE  /\ stack[c] # <<>>
         /\ \A b \in Call \ {c} : stack'[b] = stack[b] /\ pc'[b] = pc[b]
         /\ Len(stack[c]) = 1 => pc'[c] = "returned" /\ stack' = stack
         /\ Len(stack[c]) # 1 =>
              /\ Len(stack[c]) > 1 /\ pc' = pc /\ Len(stack'[c]) = Len(stack[c]) - 1
              /\ stack'[c][1].key = stack[c][2].key
              /\ stack'[c][1].next = stack[c][2].next + 1
              /\ stack'[c][1].deps = stack[c][2].deps \cup {Len(tasks) + 1}
              /\ \A i \in 2 .. Len(stack[c]) - 1 : stack'[c][i] = stack[c][i + 1]
<1>1. stack[c] # <<>>
  BY DEF Make, TypeInv, StackInUse, InUse
<1>2. CASE Len(stack[c]) = 1
  BY <1>1, <1>2 DEF Make, Goto, TypeInv, TypeOK
<1>3. CASE Len(stack[c]) # 1
  <2> DEFINE g == stack[c][2]
             n == Len(tasks) + 1
             x == [g EXCEPT !.next = @ + 1, !.deps = @ \cup {n}]
  <2>1. stack' = [stack EXCEPT ![c] = <<x>> \o Tail(Tail(stack[c]))] /\ pc' = pc
    BY <1>3 DEF Make
  <2>2. /\ stack[c] \in Seq(Frame) /\ Len(stack[c]) \in Nat \ {0}
        /\ \A i \in 1 .. Len(stack[c]) : stack[c][i] \in Frame
    BY <1>1, TopFrame
  <2>3. Len(stack[c]) > 1
    <3> DEFINE l == Len(stack[c])
    <3>1. l \in Nat /\ l # 0 /\ l # 1
      BY <1>3, <2>2
    <3> HIDE DEF l
    <3>2. l > 1
      BY <3>1
    <3> QED
      BY <3>2 DEF l
  <2>4. g \in Frame
    BY <2>2, <2>3
  <2> HIDE DEF g, n
  <2>5. x.key = g.key /\ x.next = g.next + 1 /\ x.deps = g.deps \cup {n}
    BY <2>4 DEF Frame
  <2> HIDE DEF x
  <2>6. stack'[c] = <<x>> \o Tail(Tail(stack[c])) /\ \A b \in Call \ {c} : stack'[b] = stack[b]
    BY <2>1 DEF TypeInv, TypeOK
  <2>7. stack[c] \in Seq(Frame \cup {x})
    BY <2>2
  <2>8. /\ Len(stack'[c]) = Len(stack[c]) - 1 /\ stack'[c][1] = x
        /\ \A i \in 2 .. Len(stack[c]) - 1 : stack'[c][i] = stack[c][i + 1]
    <3> DEFINE S == Frame \cup {x}
               q == stack[c]
    <3>1. q \in Seq(S) /\ Len(q) > 1 /\ x \in S /\ stack'[c] = <<x>> \o Tail(Tail(q))
      BY <2>3, <2>6, <2>7
    <3> HIDE DEF S, q
    <3>2. LET r == <<x>> \o Tail(Tail(q)) IN
            /\ Len(r) = Len(q) - 1 /\ r[1] = x
            /\ \A i \in 2 .. Len(q) - 1 : r[i] = q[i + 1]
      BY <3>1, PopFrame
    <3> QED
      BY <3>1, <3>2 DEF q
  <2> QED
    BY <1>1, <1>3, <2>1, <2>3, <2>5, <2>6, <2>8 DEF g, n
<1> QED
  BY <1>2, <1>3

LEMMA MakeInitFrames ==
  ASSUME TypeInv, NEW c \in Call, MakeInit(c)
  PROVE  /\ \A b \in Call \ Sharers(c) : stack'[b] = stack[b] /\ pc'[b] = pc[b]
         /\ \A b \in Sharers(c) :
              /\ b \in Call /\ for[b] = for[c] /\ pc[b] \in {"make", "wait"} /\ pc'[b] = "attach"
              /\ Len(stack[b]) = 1 /\ Len(stack'[b]) = 1
              /\ stack'[b][1].key = stack[b][1].key /\ stack'[b][1].next = stack[b][1].next
              /\ stack'[b][1].deps = stack[b][1].deps \cup {Len(tasks) + 1}
<1>1. \A b \in Call \ Sharers(c) : stack'[b] = stack[b] /\ pc'[b] = pc[b]
  BY DEF MakeInit
<1>2. ASSUME NEW b \in Sharers(c)
      PROVE  /\ b \in Call /\ for[b] = for[c] /\ pc[b] \in {"make", "wait"} /\ pc'[b] = "attach"
             /\ Len(stack[b]) = 1 /\ Len(stack'[b]) = 1
             /\ stack'[b][1].key = stack[b][1].key /\ stack'[b][1].next = stack[b][1].next
             /\ stack'[b][1].deps = stack[b][1].deps \cup {Len(tasks) + 1}
  <2> DEFINE n == Len(tasks) + 1
             g == Frame1(b)
             f == [g EXCEPT !.deps = @ \cup {n}]
  <2>1. b \in Call /\ for[b] = for[c] /\ pc[b] \in {"make", "wait"} /\ pc'[b] = "attach"
    BY <1>2 DEF MakeInit, Sharers
  <2>2. stack[b] # <<>> /\ Len(stack[b]) = 1
    BY <2>1 DEF TypeInv, StackInUse, InUse
  <2>3. g \in Frame /\ g = stack[b][1]
    BY <2>1, <2>2, TopFrame
  <2>4. stack'[b] = <<f>>
    BY <1>2, <2>1 DEF MakeInit, Frame1
  <2> HIDE DEF g, n
  <2>5. f.key = g.key /\ f.next = g.next /\ f.deps = g.deps \cup {n}
    BY <2>3 DEF Frame
  <2> HIDE DEF f
  <2>6. Len(stack'[b]) = 1 /\ stack'[b][1] = f
    BY <2>4
  <2> QED
    BY <2>1, <2>2, <2>3, <2>5, <2>6 DEF n
<1> QED
  BY <1>1, <1>2

-----------------------------------------------------------------------------
(* One init task at a time *)

\* Only create() and the helper that makes init tasks bring a task into the store.
LEMMA StoreStep ==
  ASSUME TypeInv, [Next]_vars
  PROVE  \/ store' \subseteq store
         \/ \E c \in Call : MakeInit(c) \/ Make(c)
<1>1. ASSUME NEW c \in Call, Start(c) \/ Proceed(c)
      PROVE  store' \subseteq store \/ MakeInit(c) \/ Make(c)
  BY <1>1 DEF Start, Proceed, ReadSession, Resolve, MarkInitialized, FailInit, Refuse, Descend
<1>2. ASSUME NEW t \in Id, Begin(t) \/ End(t) \/ Record(t) \/ Kill(t) \/ Delete(t)
      PROVE  store' \subseteq store
  BY <1>2 DEF Begin, End, Record, Kill, Delete
<1>3. ASSUME NEW s \in Session, DeleteSession(s) \/ MarkArchived(s) PROVE store' \subseteq store
  BY <1>3 DEF DeleteSession, MarkArchived
<1>4. ASSUME Shutdown \/ Exit \/ UNCHANGED vars PROVE store' \subseteq store
  BY <1>4 DEF Shutdown, Exit, vars
<1> QED
  BY <1>1, <1>2, <1>3, <1>4 DEF Next

LEMMA IdStep ==
  ASSUME TypeInv, [Next]_vars
  PROVE  \/ Id' \subseteq Id
         \/ \E c \in Call : MakeInit(c) \/ Make(c)
<1> USE DEF TypeInv
<1>1. ASSUME NEW c \in Call, Start(c) \/ Proceed(c)
      PROVE  tasks' = tasks \/ MakeInit(c) \/ Make(c)
  BY <1>1 DEF Start, Proceed, ReadSession, Resolve, MarkInitialized, FailInit, Refuse, Descend
<1>2. ASSUME NEW t \in Id, Begin(t) \/ End(t) \/ Record(t)
      PROVE  Id' \subseteq Id
  BY <1>2 DEF Begin, End, Record, Id
<1>3. ASSUME NEW S, KillAll(S) PROVE Id' \subseteq Id
  BY <1>3 DEF KillAll, Id
<1>4. ASSUME NEW t \in Id, Kill(t) \/ Delete(t) PROVE Id' \subseteq Id
  BY <1>3, <1>4 DEF Kill, Delete
<1>5. ASSUME NEW s \in Session, DeleteSession(s) \/ MarkArchived(s) PROVE Id' \subseteq Id
  BY <1>3, <1>5 DEF DeleteSession, MarkArchived, Id
<1>6. ASSUME Shutdown \/ Exit \/ UNCHANGED vars PROVE Id' \subseteq Id
  BY <1>3, <1>6 DEF Shutdown, Exit, vars, Id
<1> QED
  BY <1>1, <1>2, <1>4, <1>5, <1>6 DEF Next, Id

\* What can become an active init task of session s: what was one, or the task
\* that a call made that held _sessionInitCreation.
LEMMA FoundStep ==
  ASSUME TypeInv, InitNotNested, [Next]_vars, NEW s
  PROVE  \/ Found(s, InitKey)' \subseteq Found(s, InitKey)
         \/ \E c \in Call :
              /\ MakeInit(c) /\ for[c] = s
              /\ Found(s, InitKey)' \subseteq Found(s, InitKey) \cup {Len(tasks) + 1}
<1>1. \A t \in Id : Kept(t)
  BY TasksStep
<1>2. store \subseteq Id
  BY DEF TypeInv, TypeOK
<1>3. CASE store' \subseteq store
  BY <1>1, <1>2, <1>3 DEF Found, Kept
<1>4. ASSUME NEW c \in Call, NEW task \in Task, Add(task), task.session # s \/ task.key # InitKey
      PROVE  Found(s, InitKey)' \subseteq Found(s, InitKey)
  <2>1. tasks'[Len(tasks) + 1] = task /\ store' \subseteq store \cup {Len(tasks) + 1}
    BY <1>4, AddLemma DEF TypeInv
  <2> QED
    BY <1>1, <1>2, <1>4, <2>1 DEF Found, Kept
<1>5. ASSUME NEW c \in Call, Make(c) PROVE Found(s, InitKey)' \subseteq Found(s, InitKey)
  <2>1. stack[c] # <<>> /\ Add(NewTask(c))
    BY <1>5 DEF Make, TypeInv, StackInUse, InUse
  <2>2. NewTask(c) \in Task /\ NewTask(c).key = stack[c][1].key /\ Len(stack[c]) \in Nat \ {0}
    BY <2>1, NewTaskType, TopFrame DEF NewTask
  <2>3. NewTask(c).key # InitKey
    BY <2>2 DEF InitNotNested
  <2> QED
    BY <1>4, <2>1, <2>2, <2>3
<1>6. ASSUME NEW c \in Call, MakeInit(c)
      PROVE  \/ Found(s, InitKey)' \subseteq Found(s, InitKey)
             \/ /\ for[c] = s
                /\ Found(s, InitKey)' \subseteq Found(s, InitKey) \cup {Len(tasks) + 1}
  <2>1. stack[c] # <<>> /\ Add(InitTask(for[c]))
    BY <1>6 DEF MakeInit, TypeInv, StackInUse, InUse
  <2>2. InitTask(for[c]) \in Task /\ InitTask(for[c]).session = for[c]
    BY <2>1, NewTaskType DEF InitTask
  <2>3. CASE for[c] # s
    BY <1>4, <2>1, <2>2, <2>3
  <2>4. CASE for[c] = s
    <3>1. store' \subseteq store \cup {Len(tasks) + 1}
      BY <2>1, <2>2, AddLemma DEF TypeInv
    <3> QED
      BY <1>1, <1>2, <2>4, <3>1 DEF Found, Kept
  <2> QED
    BY <2>3, <2>4
<1> QED
  BY <1>3, <1>5, <1>6, StoreStep

\* The steps that change the stack of a call.
LEMMA StackStep ==
  ASSUME TypeInv, [Next]_vars, NEW c \in Call
  PROVE  \/ stack'[c] = stack[c]
         \/ Start(c)
         \/ /\ stack[c] # <<>> /\ Found(for[c], InitKey) # {} /\ Resolve(c) /\ WantsInit(c)
            /\ pc'[c] = "attach"
            /\ stack' = WithDep(c, Least(Found(for[c], InitKey)))
         \/ Descend(c)
         \/ Make(c) /\ Len(stack[c]) > 1
         \/ \E b \in Call : MakeInit(b) /\ c \in Sharers(b)
<1> DEFINE Dep(b) == /\ stack[b] # <<>> /\ Found(for[b], InitKey) # {} /\ Resolve(b)
                     /\ WantsInit(b) /\ pc'[b] = "attach"
                     /\ stack' = WithDep(b, Least(Found(for[b], InitKey)))
<1>1. ASSUME NEW b \in Call, Resolve(b) PROVE stack' = stack \/ Dep(b)
  <2>1. stack[b] # <<>> /\ pc \in [Call -> {"idle", "read", "resolve", "mark", "make", "wait",
                                            "attach", "returned", "failed"}]
    BY <1>1 DEF Resolve, TypeInv, TypeOK, StackInUse, InUse
  <2> QED
    BY <1>1, <2>1 DEF Resolve, Goto
<1>2. ASSUME NEW b \in Call, b # c, Dep(b) PROVE stack'[c] = stack[c]
  <2>1. Least(Found(for[b], InitKey)) \in Nat
    BY <1>2, FoundLeast DEF TypeInv
  <2> QED
    BY <1>2, <2>1, WithDepFrames
<1>3. ASSUME NEW b \in Call, b # c, Start(b) \/ Descend(b) \/ Make(b)
      PROVE  stack'[c] = stack[c]
  BY <1>3, StartFrames, DescendFrames, MakeFrames
<1>4. ASSUME Make(c) PROVE stack'[c] = stack[c] \/ Len(stack[c]) > 1
  BY <1>4, MakeFrames
<1>5. ASSUME NEW b \in Call, MakeInit(b) PROVE stack'[c] = stack[c] \/ c \in Sharers(b)
  BY <1>5, MakeInitFrames
<1>6. ASSUME NEW b \in Call, ReadSession(b) \/ MarkInitialized(b) \/ FailInit(b) \/ Refuse(b)
      PROVE  stack' = stack
  BY <1>6 DEF ReadSession, MarkInitialized, FailInit, Refuse
<1>7. ASSUME NEW t \in Id, Begin(t) \/ End(t) \/ Record(t) \/ Kill(t) \/ Delete(t)
      PROVE  stack' = stack
  BY <1>7 DEF Begin, End, Record, Kill, Delete, calls
<1>8. ASSUME NEW s \in Session, DeleteSession(s) \/ MarkArchived(s) PROVE stack' = stack
  BY <1>8 DEF DeleteSession, MarkArchived, calls
<1>9. ASSUME Shutdown \/ Exit \/ UNCHANGED vars PROVE stack' = stack
  BY <1>9 DEF Shutdown, Exit, calls, vars
<1> HIDE DEF Dep
<1>10. \/ \E b \in Call : Start(b) \/ Descend(b) \/ Make(b)
       \/ \E b \in Call : Resolve(b)
       \/ \E b \in Call : MakeInit(b)
       \/ stack' = stack
  BY <1>6, <1>7, <1>8, <1>9 DEF Next, Proceed
<1>11. stack'[c] = stack[c] \/ Start(c) \/ Dep(c) \/ Descend(c) \/ (Make(c) /\ Len(stack[c]) > 1)
       \/ \E b \in Call : MakeInit(b) /\ c \in Sharers(b)
  BY <1>1, <1>2, <1>3, <1>4, <1>5, <1>10
<1> QED
  BY <1>11 DEF Dep

\* The keys of the frames come from the calls and from the depends_on.
LEMMA NotNestedStep ==
  ASSUME InitImplicit, TypeInv, InitNotNested, [Next]_vars
  PROVE  InitNotNested'
<1> SUFFICES ASSUME NEW c \in Call, NEW i \in 1 .. Len(stack'[c])
             PROVE  stack'[c][i].key # InitKey
  BY DEF InitNotNested
<1> USE DEF InitNotNested
<1>1. CASE stack'[c] = stack[c]
  BY <1>1
<1>2. CASE Start(c)
  BY <1>2, StartFrames DEF InitImplicit
<1>3. CASE /\ stack[c] # <<>> /\ Found(for[c], InitKey) # {}
           /\ stack' = WithDep(c, Least(Found(for[c], InitKey)))
  <2>1. Len(stack[c]) \in Nat \ {0}
    BY <1>3, TopFrame
  <2>2. Least(Found(for[c], InitKey)) \in Nat
    BY <1>3, FoundLeast DEF TypeInv
  <2> QED
    BY <1>3, <2>1, <2>2, WithDepFrames
<1>4. CASE Descend(c)
  <2>1. Wanted(c)[Stop(c)] # InitKey
    <3>1. stack[c] # <<>> /\ Stop(c) \in 1 .. Len(Wanted(c))
      BY <1>4, DescendFrames
    <3>2. Frame1(c).key \in Key
      BY <3>1, TopFrame DEF Frame
    <3> QED
      BY <3>1, <3>2 DEF InitImplicit, Wanted
  <2>2. Len(stack[c]) \in Nat /\ Len(stack[c]) # 0
    BY <1>4, DescendFrames, TopFrame
  <2>3. CASE i = 1
    BY <1>4, <2>1, <2>3, DescendFrames
  <2>4. CASE i = 2
    BY <1>4, <2>2, <2>4, DescendFrames
  <2>5. CASE i \notin {1, 2}
    <3>1. Len(stack'[c]) = Len(stack[c]) + 1 /\ \A j \in 3 .. Len(stack[c]) + 1 : stack'[c][j] = stack[c][j - 1]
      BY <1>4, DescendFrames
    <3>2. i \in 3 .. Len(stack[c]) + 1 /\ i - 1 \in 1 .. Len(stack[c])
      BY <2>2, <2>5, <3>1
    <3> QED
      BY <3>1, <3>2
  <2> QED
    BY <2>3, <2>4, <2>5
<1>5. CASE Make(c) /\ Len(stack[c]) > 1
  <2>1. Len(stack[c]) \in Nat
    BY <1>5, MakeFrames, TopFrame
  <2> QED
    BY SMTT(30), <1>5, <2>1, MakeFrames
<1>6. ASSUME NEW b \in Call, MakeInit(b), c \in Sharers(b) PROVE stack'[c][i].key # InitKey
  BY <1>6, MakeInitFrames
<1> QED
  BY <1>1, <1>2, <1>3, <1>4, <1>5, <1>6, StackStep

\* While a call makes the init task of a session nobody else does, and there is none.
LEMMA MakerStep ==
  ASSUME TypeInv, InitNotNested, Maker, [Next]_vars
  PROVE  Maker'
<1> DEFINE Goes(c) == ReadSession(c) \/ MarkInitialized(c) \/ Refuse(c) \/ Descend(c) \/ Make(c)
<1>1. \A s \in Session : \/ Found(s, InitKey)' \subseteq Found(s, InitKey)
                          \/ \E c \in Call : MakeInit(c) /\ for[c] = s
  BY FoundStep
<1> HIDE DEF Goes
<1>2. ASSUME NEW c \in Call, MakeInit(c) \/ FailInit(c) PROVE Maker'
  <2>1. /\ pc[c] = "make" /\ creating' = [creating EXCEPT ![for[c]] = NoCall] /\ for' = for
        /\ \A b \in Call : pc'[b] = "make" => pc[b] = "make" /\ b # c
        /\ \A b \in Call : pc[b] = "make" /\ b # c => pc'[b] = "make"
    BY <1>2 DEF MakeInit, FailInit, Sharers
  <2>2. creating[for[c]] = c /\ for[c] \in Session
    BY <2>1 DEF Maker, TypeInv, TypeOK
  <2>3. ASSUME NEW b \in Call, MakeInit(b) PROVE for[b] = for[c]
    <3>1. pc[b] = "make" /\ creating' = [creating EXCEPT ![for[b]] = NoCall]
      BY <2>3 DEF MakeInit
    <3>2. creating[for[b]] = b /\ for[b] \in Session
      BY <3>1 DEF Maker, TypeInv, TypeOK
    <3> QED
      BY <2>1, <2>2, <3>1, <3>2, NoCallAssumption DEF TypeInv, TypeOK
  <2>4. ASSUME NEW s \in Session, creating'[s] # NoCall
        PROVE  /\ pc'[creating'[s]] = "make" /\ for'[creating'[s]] = s
               /\ Found(s, InitKey)' = {}
    <3>1. s # for[c] /\ creating'[s] = creating[s]
      BY <2>1, <2>2, <2>4 DEF TypeInv, TypeOK
    <3>2. creating[s] \in Call /\ pc[creating[s]] = "make" /\ for[creating[s]] = s
          /\ Found(s, InitKey) = {}
      BY <2>4, <3>1 DEF Maker, TypeInv, TypeOK
    <3>3. Found(s, InitKey)' \subseteq Found(s, InitKey)
      BY <1>1, <2>3, <3>1
    <3> QED
      BY <2>1, <3>1, <3>2, <3>3
  <2>5. ASSUME NEW b \in Call, pc'[b] = "make" PROVE creating'[for'[b]] = b
    <3>1. pc[b] = "make" /\ b # c /\ creating[for[b]] = b /\ for[b] \in Session
      BY <2>1, <2>5 DEF Maker, TypeInv, TypeOK
    <3> QED
      BY <2>1, <2>2, <3>1 DEF TypeInv, TypeOK
  <2> QED
    BY <2>4, <2>5 DEF Maker
<1>3. ASSUME NEW c \in Call, Resolve(c), creating' # creating PROVE Maker'
  <2>1. /\ creating[for[c]] = NoCall /\ Found(for[c], InitKey) = {} /\ Goto(c, "make")
        /\ creating' = [creating EXCEPT ![for[c]] = c] /\ pc[c] = "resolve"
        /\ UNCHANGED <<for, tasks, store>>
    BY <1>3 DEF Resolve
  <2>2. for[c] \in Session /\ \A s : Found(s, InitKey)' = Found(s, InitKey)
    BY <2>1 DEF Found, TypeInv, TypeOK
  <2> QED
    BY <2>1, <2>2, NoCallAssumption DEF Maker, Goto, TypeInv, TypeOK
<1>4. ASSUME creating' = creating, ~\E c \in Call : MakeInit(c),
             \A c \in Call : pc'[c] = "make" <=> pc[c] = "make",
             \A c \in Call : pc[c] = "make" => for'[c] = for[c]
      PROVE  Maker'
  <2>1. \A s \in Session : Found(s, InitKey)' \subseteq Found(s, InitKey)
    BY <1>1, <1>4
  <2>2. \A s \in Session : creating[s] # NoCall => creating[s] \in Call
    BY DEF TypeInv, TypeOK
  <2> QED
    BY <1>4, <2>1, <2>2 DEF Maker
<1>5. ASSUME NEW c \in Call, ~\E b \in Call : MakeInit(b),
             Start(c) \/ Goes(c) \/ (Resolve(c) /\ creating' = creating)
      PROVE  Maker'
  <2>1. creating' = creating
    BY <1>5 DEF Goes, Start, ReadSession, MarkInitialized, Refuse, Descend, Make
  <2>2. pc[c] # "make" /\ pc'[c] # "make" /\ (\A b \in Call \ {c} : pc'[b] = pc[b])
        /\ \A b \in Call \ {c} : for'[b] = for[b]
    <3>1. CASE Start(c)
      BY <3>1, StartFrames DEF Start
    <3>2. CASE Goes(c)
      BY <3>2 DEF Goes, ReadSession, MarkInitialized, Refuse, Descend, Make, Goto, TypeInv, TypeOK
    <3>3. CASE Resolve(c) /\ creating' = creating
      <4>1. pc'[c] # "make"
        BY <3>3, NoCallAssumption DEF Resolve, Goto, TypeInv, TypeOK
      <4>2. pc[c] = "resolve" /\ for' = for /\ \A b \in Call \ {c} : pc'[b] = pc[b]
        BY <3>3 DEF Resolve, Goto, TypeInv, TypeOK
      <4> QED
        BY <4>1, <4>2
    <3> QED
      BY <1>5, <3>1, <3>2, <3>3
  <2> QED
    BY <1>4, <1>5, <2>1, <2>2
<1>6. ASSUME ~\E b \in Call : MakeInit(b), UNCHANGED <<creating, pc, for>> PROVE Maker'
  BY <1>4, <1>6
<1>7. ASSUME NEW t \in Id, Begin(t) \/ End(t) \/ Record(t) \/ Kill(t) \/ Delete(t)
      PROVE  UNCHANGED <<creating, pc, for>>
  BY <1>7 DEF Begin, End, Record, Kill, Delete, calls
<1>8. ASSUME NEW s \in Session, DeleteSession(s) \/ MarkArchived(s)
      PROVE  UNCHANGED <<creating, pc, for>>
  BY <1>8 DEF DeleteSession, MarkArchived, calls
<1>9. ASSUME Shutdown \/ Exit \/ UNCHANGED vars PROVE UNCHANGED <<creating, pc, for>>
  BY <1>9 DEF Shutdown, Exit, calls, vars
<1> QED
  BY <1>2, <1>3, <1>5, <1>6, <1>7, <1>8, <1>9 DEF Next, Proceed, Goes

LEMMA OneInitStep ==
  ASSUME TypeInv, InitNotNested, Maker, OneInit, [Next]_vars
  PROVE  OneInit'
<1>1. ASSUME NEW s \in Session, NEW t \in Found(s, InitKey)', NEW u \in Found(s, InitKey)'
      PROVE  t = u
  <2>1. CASE Found(s, InitKey)' \subseteq Found(s, InitKey)
    BY <1>1, <2>1 DEF OneInit, Found
  <2>2. ASSUME NEW c \in Call, MakeInit(c), for[c] = s,
               Found(s, InitKey)' \subseteq Found(s, InitKey) \cup {Len(tasks) + 1}
        PROVE  t = u
    <3>1. Found(s, InitKey) = {}
      BY <2>2, NoCallAssumption DEF MakeInit, Maker
    <3> QED
      BY <1>1, <2>2, <3>1
  <2> QED
    BY <2>1, <2>2, FoundStep
<1>2. \A t \in store' : tasks'[t].session \in Session
  <2>1. store' \subseteq Id' /\ tasks' \in Seq(Task)
    BY TasksStep DEF TasksTyped
  <2>2. \A t \in Id' : tasks'[t] \in Task
    BY <2>1, ElementOfSeq, LenProperties DEF Id
  <2> QED
    BY <2>1, <2>2 DEF Task
<1>3. ASSUME NEW t \in store', NEW u \in store',
             tasks'[t].key = InitKey, tasks'[t].status \in Active,
             tasks'[u].key = InitKey, tasks'[u].status \in Active,
             tasks'[t].session = tasks'[u].session
      PROVE  t = u
  <2>1. \A s : s = tasks'[t].session => t \in Found(s, InitKey)' /\ u \in Found(s, InitKey)'
    BY <1>3 DEF Found
  <2> QED
    BY <1>1, <1>2, <2>1
<1> QED
  BY <1>3 DEF OneInit

\* The store never holds two active init tasks of one session, however many
\* calls overlap and whatever else happens in between (_findRunningTask and
\* _sessionInitCreation), if the init task is only ever made for them.
THEOREM InitShared ==
  ASSUME InitImplicit
  PROVE  Spec => []OneInit
<1>1. Init => TypeInv /\ InitInv
  BY TypeStart DEF Init, InitInv, Maker, InitNotNested, OneInit
<1>2. TypeInv /\ InitInv /\ [Next]_vars => (TypeInv /\ InitInv)'
  BY TypeStep, NotNestedStep, MakerStep, OneInitStep DEF InitInv
<1>3. InitInv => OneInit
  BY DEF InitInv
<1> QED
  BY <1>1, <1>2, <1>3, PTL DEF Spec

-----------------------------------------------------------------------------
(* The depends_on of a task are complete. *)

\* What is good of a frame, or of a task, stays good as tasks are made and go on.
LEMMA KeptFrame ==
  ASSUME NEW s, NEW f, FrameGood(tasks, s, f), \A t \in Id : Kept(t)
  PROVE  FrameGood(tasks', s, f)
BY DEF FrameGood, Kept, Id

\* A frame that got one more dependency
LEMMA OneMore ==
  ASSUME NEW T, NEW s, NEW f, FrameGood(T, s, f), NEW t \in DOMAIN T, T[t].session = s,
         NEW g, g.key = f.key, g.next = f.next, g.deps = f.deps \cup {t}
  PROVE  FrameGood(T, s, g)
BY DEF FrameGood

\* The frame of a create() that goes down for a dependency, or makes its task
LEMMA AttachedGood ==
  ASSUME TypeInv, NEW c \in Call, stack[c] # <<>>, FrameGood(tasks, for[c], Frame1(c)),
         NEW g, g.key = Frame1(c).key, g.next = Stop(c), g.deps = Attached(c)
  PROVE  FrameGood(tasks, for[c], g)
<1>1. \A d \in g.deps : d \in Id /\ tasks[d].session = for[c]
  BY AttachLemma DEF FrameGood, TypeInv, TypeOK, Id
<1>2. ASSUME NEW j \in 1 .. Len(Needs[g.key]), j < g.next
      PROVE  \E d \in g.deps : tasks[d].key = Needs[g.key][j]
  <2>1. Frame1(c).next \in Nat /\ Wanted(c) = Needs[g.key] /\ Len(Wanted(c)) \in Nat
    BY TopFrame DEF Frame, Wanted
  <2>2. CASE j < Frame1(c).next
    BY <1>2, <2>1, <2>2, AttachLemma DEF FrameGood, Wanted
  <2>3. CASE Frame1(c).next <= j
    BY <1>2, <2>1, <2>3, AttachLemma
  <2> QED
    BY <2>1, <2>2, <2>3
<1> QED
  BY <1>1, <1>2 DEF FrameGood, Id

\* A call is for one session from when it starts.
LEMMA ForStep ==
  ASSUME TypeInv, [Next]_vars, NEW c \in Call
  PROVE  Start(c) \/ for'[c] = for[c]
<1>1. ASSUME NEW b \in Call, Proceed(b) PROVE for' = for
  BY <1>1 DEF Proceed, ReadSession, Resolve, MarkInitialized, MakeInit, FailInit, Refuse, Descend,
              Make
<1>2. ASSUME NEW t \in Id, Begin(t) \/ End(t) \/ Record(t) \/ Kill(t) \/ Delete(t)
      PROVE  for' = for
  BY <1>2 DEF Begin, End, Record, Kill, Delete, calls
<1>3. ASSUME NEW s \in Session, DeleteSession(s) \/ MarkArchived(s) PROVE for' = for
  BY <1>3 DEF DeleteSession, MarkArchived, calls
<1>4. ASSUME Shutdown \/ Exit \/ UNCHANGED vars PROVE for' = for
  BY <1>4 DEF Shutdown, Exit, calls, vars
<1>5. ASSUME NEW b \in Call, b # c, Start(b) PROVE for'[c] = for[c]
  BY <1>5, StartFrames
<1> QED
  BY <1>1, <1>2, <1>3, <1>4, <1>5 DEF Next

LEMMA FramesStep ==
  ASSUME TypeInv, FramesComplete, FramesNested, [Next]_vars
  PROVE  FramesComplete'
<1>1. \A t \in Id : Kept(t)
  BY TasksStep
<1> SUFFICES ASSUME NEW c \in Call, NEW i \in 1 .. Len(stack'[c])
             PROVE  FrameGood(tasks', for'[c], stack'[c][i])
  BY DEF FramesComplete
<1>2. CASE Start(c)
  <2>1. i = 1 /\ stack'[c][i].deps = {} /\ stack'[c][i].next = 1
    BY <1>2, StartFrames
  <2> QED
    BY <2>1 DEF FrameGood
<1>3. CASE ~Start(c)
  <2>1. for'[c] = for[c]
    BY <1>3, ForStep
  <2>2. ASSUME NEW j \in 1 .. Len(stack[c]) PROVE FrameGood(tasks', for[c], stack[c][j])
    <3>1. FrameGood(tasks, for[c], stack[c][j])
      BY DEF FramesComplete
    <3> QED
      BY <1>1, <3>1, KeptFrame
  <2>3. CASE stack'[c] = stack[c]
    BY <2>1, <2>2, <2>3
  <2>4. CASE /\ stack[c] # <<>> /\ Found(for[c], InitKey) # {}
             /\ stack' = WithDep(c, Least(Found(for[c], InitKey)))
    <3> DEFINE t == Least(Found(for[c], InitKey))
    <3>1. t \in Nat /\ t \in Id /\ tasks[t].session = for[c]
      BY <2>4, FoundLeast DEF TypeInv
    <3>2. t \in DOMAIN tasks' /\ tasks'[t].session = for[c]
      BY <1>1, <3>1 DEF Kept, Id
    <3>3. stack' = WithDep(c, t)
      BY <2>4
    <3> HIDE DEF t
    <3>4. Len(stack[c]) \in Nat \ {0}
      BY <2>4, TopFrame
    <3>5. CASE i = 1
      <4>1. FrameGood(tasks', for[c], stack[c][1])
        BY <2>2, <3>4
      <4>2. /\ stack'[c][1].key = stack[c][1].key /\ stack'[c][1].next = stack[c][1].next
            /\ stack'[c][1].deps = stack[c][1].deps \cup {t}
        BY <2>4, <3>1, <3>3, WithDepFrames
      <4> QED
        BY <2>1, <3>2, <3>5, <4>1, <4>2, OneMore
    <3>6. CASE i # 1
      BY <2>1, <2>2, <2>4, <3>1, <3>3, <3>4, <3>6, WithDepFrames
    <3> QED
      BY <3>5, <3>6
  <2>5. CASE Descend(c)
    <3>1. stack[c] # <<>> /\ Len(stack[c]) \in Nat /\ Len(stack[c]) # 0
          /\ Frame1(c) = stack[c][1]
      BY <2>5, DescendFrames, TopFrame
    <3>2. CASE i = 1
      <4>1. stack'[c][1].next = 1 /\ stack'[c][1].deps = {}
        BY <2>5, DescendFrames
      <4> QED
        BY <3>2, <4>1 DEF FrameGood
    <3>3. CASE i = 2
      <4>1. FrameGood(tasks, for[c], Frame1(c))
        BY <3>1 DEF FramesComplete
      <4>2. stack'[c][2].key = Frame1(c).key /\ stack'[c][2].next = Stop(c)
            /\ stack'[c][2].deps = Attached(c)
        BY <2>5, <3>1, DescendFrames
      <4>3. FrameGood(tasks, for[c], stack'[c][2])
        BY <3>1, <4>1, <4>2, AttachedGood
      <4> QED
        BY <1>1, <2>1, <3>3, <4>3, KeptFrame
    <3>4. CASE i \notin {1, 2}
      <4>1. /\ Len(stack'[c]) = Len(stack[c]) + 1
            /\ \A j \in 3 .. Len(stack[c]) + 1 : stack'[c][j] = stack[c][j - 1]
        BY <2>5, DescendFrames
      <4>2. i \in 3 .. Len(stack[c]) + 1 /\ i - 1 \in 1 .. Len(stack[c])
        BY <3>1, <3>4, <4>1
      <4> QED
        BY <2>1, <2>2, <4>1, <4>2
    <3> QED
      BY <3>2, <3>3, <3>4
  <2>6. CASE Make(c) /\ Len(stack[c]) > 1
    <3>1. /\ stack[c] # <<>> /\ Len(stack[c]) \in Nat /\ Len(stack'[c]) = Len(stack[c]) - 1
          /\ stack'[c][1].key = stack[c][2].key
          /\ stack'[c][1].next = stack[c][2].next + 1
          /\ stack'[c][1].deps = stack[c][2].deps \cup {Len(tasks) + 1}
          /\ \A j \in 2 .. Len(stack[c]) - 1 : stack'[c][j] = stack[c][j + 1]
      BY <2>6, MakeFrames, TopFrame
    <3>2. CASE i = 1
      <4> DEFINE f == stack[c][2]
                 g == stack'[c][1]
                 n == Len(tasks) + 1
      <4>1. FrameGood(tasks', for[c], f)
        BY <2>2, <2>6, <3>1
      <4>2. Add(NewTask(c)) /\ NewTask(c) \in Task
        BY <2>6, <3>1, NewTaskType DEF Make
      <4>3. n \in DOMAIN tasks' /\ tasks'[n] = NewTask(c)
        BY <4>2, AddLemma DEF TypeInv, Id
      <4>4. tasks'[n].session = for[c] /\ tasks'[n].key = stack[c][1].key
        BY <3>1, <4>3, TopFrame DEF NewTask
      <4>12. 2 \in 1 .. Len(stack[c]) /\ \A k \in 1 .. Len(stack[c]) : stack[c][k] \in Frame
        BY <2>6, <3>1, TopFrame
      <4>5. f.next \in 1 .. Len(Needs[f.key]) /\ stack[c][1].key = Needs[f.key][f.next]
        <5>1. \A k \in 1 .. Len(stack[c]) : k > 1 => Nested(stack[c][k - 1], stack[c][k])
          BY DEF FramesNested
        <5>2. 2 > 1 /\ 2 - 1 = 1
          OBVIOUS
        <5>3. Nested(stack[c][1], stack[c][2])
          BY <4>12, <5>1, <5>2
        <5> QED
          BY <5>3 DEF Nested
      <4>6. g.key = f.key /\ g.next = f.next + 1 /\ g.deps = f.deps \cup {n}
        BY <3>1
      <4>7. f.key \in Key
        BY <4>12 DEF Frame
      <4>8. Len(Needs[f.key]) \in Nat
        BY <4>7, KeyAssumption, LenProperties
      <4> HIDE DEF f, g, n
      <4>9. \A d \in g.deps : d \in DOMAIN tasks' /\ tasks'[d].session = for[c]
        BY <4>1, <4>3, <4>4, <4>6 DEF FrameGood
      <4>10. ASSUME NEW j \in 1 .. Len(Needs[g.key]), j < g.next
             PROVE  \E d \in g.deps : tasks'[d].key = Needs[g.key][j]
        <5>1. CASE j < f.next
          BY <4>1, <4>6, <4>10, <5>1 DEF FrameGood
        <5>2. CASE j = f.next
          BY <4>4, <4>5, <4>6, <5>2
        <5> QED
          BY <4>5, <4>6, <4>8, <4>10, <5>1, <5>2
      <4>11. FrameGood(tasks', for[c], g)
        BY <4>9, <4>10 DEF FrameGood
      <4> QED
        BY <2>1, <3>2, <4>11 DEF g
    <3>3. CASE i # 1
      <4>1. i \in 2 .. Len(stack[c]) - 1 /\ i + 1 \in 1 .. Len(stack[c])
        BY <3>1, <3>3
      <4> QED
        BY <2>1, <2>2, <3>1, <4>1
    <3> QED
      BY <3>2, <3>3
  <2>7. ASSUME NEW b \in Call, MakeInit(b), c \in Sharers(b)
        PROVE  FrameGood(tasks', for[c], stack'[c][i])
    <3> DEFINE n == Len(tasks) + 1
    <3>6. /\ for[c] = for[b] /\ Len(stack[c]) = 1 /\ Len(stack'[c]) = 1
          /\ stack'[c][1].key = stack[c][1].key /\ stack'[c][1].next = stack[c][1].next
          /\ stack'[c][1].deps = stack[c][1].deps \cup {n}
      BY ONLY TypeInv, <2>7, MakeInitFrames
    <3>1. /\ i = 1 /\ Len(stack[c]) = 1 /\ for[c] = for[b]
          /\ stack'[c][1].key = stack[c][1].key /\ stack'[c][1].next = stack[c][1].next
          /\ stack'[c][1].deps = stack[c][1].deps \cup {n}
      BY <3>6
    <3>2. stack[b] # <<>> /\ Add(InitTask(for[b]))
      BY <2>7 DEF MakeInit, TypeInv, StackInUse, InUse
    <3>3. InitTask(for[b]) \in Task
      BY <3>2, NewTaskType
    <3>4. n \in DOMAIN tasks' /\ tasks'[n].session = for[c]
      BY <3>1, <3>2, <3>3, AddLemma DEF TypeInv, Id, InitTask
    <3>5. FrameGood(tasks', for[c], stack[c][1])
      BY <2>2, <3>1
    <3> HIDE DEF n
    <3> QED
      BY <3>1, <3>4, <3>5, OneMore
  <2> QED
    BY <1>3, <2>1, <2>3, <2>4, <2>5, <2>6, <2>7, StackStep
<1> QED
  BY <1>2, <1>3

LEMMA NestedStep ==
  ASSUME TypeInv, FramesNested, [Next]_vars
  PROVE  FramesNested'
<1> SUFFICES ASSUME NEW c \in Call, NEW i \in 1 .. Len(stack'[c]), i > 1
             PROVE  Nested(stack'[c][i - 1], stack'[c][i])
  BY DEF FramesNested
<1>1. \A k \in 1 .. Len(stack[c]) : k > 1 => Nested(stack[c][k - 1], stack[c][k])
  BY DEF FramesNested
<1>2. CASE stack'[c] = stack[c]
  BY <1>1, <1>2
<1>3. CASE Start(c)
  BY <1>3, StartFrames
<1>4. CASE /\ stack[c] # <<>> /\ Found(for[c], InitKey) # {}
           /\ stack' = WithDep(c, Least(Found(for[c], InitKey)))
  <2>1. Len(stack[c]) \in Nat \ {0} /\ Least(Found(for[c], InitKey)) \in Nat
    BY <1>4, TopFrame, FoundLeast DEF TypeInv
  <2>2. /\ Len(stack'[c]) = Len(stack[c]) /\ stack'[c][1].key = stack[c][1].key
        /\ \A k \in 2 .. Len(stack[c]) : stack'[c][k] = stack[c][k]
    BY <1>4, <2>1, WithDepFrames
  <2>3. i \in 2 .. Len(stack[c]) /\ stack'[c][i] = stack[c][i]
        /\ stack'[c][i - 1].key = stack[c][i - 1].key
    BY <2>1, <2>2
  <2> QED
    BY <1>1, <2>3 DEF Nested
<1>5. CASE Descend(c)
  <2>1. /\ stack[c] # <<>> /\ Len(stack'[c]) = Len(stack[c]) + 1
        /\ Stop(c) \in 1 .. Len(Wanted(c)) /\ stack'[c][1].key = Wanted(c)[Stop(c)]
        /\ stack'[c][2].key = stack[c][1].key /\ stack'[c][2].next = Stop(c)
        /\ \A k \in 3 .. Len(stack[c]) + 1 : stack'[c][k] = stack[c][k - 1]
    BY <1>5, DescendFrames
  <2>2. Len(stack[c]) \in Nat /\ Len(stack[c]) # 0 /\ Wanted(c) = Needs[stack[c][1].key]
    BY <2>1, TopFrame DEF Wanted
  <2>3. CASE i = 2
    <3>1. Nested(stack'[c][1], stack'[c][2])
      BY <2>1, <2>2 DEF Nested
    <3> QED
      BY <2>3, <3>1
  <2>4. CASE i = 3
    <3>1. stack'[c][3] = stack[c][2] /\ 2 \in 1 .. Len(stack[c])
      BY <2>1, <2>2, <2>4
    <3>2. Nested(stack[c][1], stack[c][2])
      BY <1>1, <3>1
    <3>3. Nested(stack'[c][2], stack'[c][3])
      BY <2>1, <3>1, <3>2 DEF Nested
    <3> QED
      BY <2>4, <3>3
  <2>5. CASE i > 3
    <3>1. i - 1 \in 3 .. Len(stack[c]) /\ i \in 3 .. Len(stack[c]) + 1
      BY <2>1, <2>2, <2>5
    <3>2. stack'[c][i] = stack[c][i - 1] /\ stack'[c][i - 1] = stack[c][i - 1 - 1]
      BY <2>1, <2>2, <3>1
    <3> QED
      BY <1>1, <3>1, <3>2
  <2> QED
    BY <2>3, <2>4, <2>5
<1>6. CASE Make(c) /\ Len(stack[c]) > 1
  <2>1. /\ Len(stack[c]) \in Nat /\ Len(stack'[c]) = Len(stack[c]) - 1
        /\ stack'[c][1].key = stack[c][2].key
        /\ \A k \in 2 .. Len(stack[c]) - 1 : stack'[c][k] = stack[c][k + 1]
    BY <1>6, MakeFrames, TopFrame
  <2>2. i \in 2 .. Len(stack[c]) - 1 /\ i + 1 \in 1 .. Len(stack[c]) /\ i + 1 > 1
        /\ stack'[c][i] = stack[c][i + 1] /\ stack'[c][i - 1].key = stack[c][i].key
    <3>1. i \in 2 .. Len(stack[c]) - 1 /\ i + 1 \in 1 .. Len(stack[c]) /\ i + 1 > 1
      BY <2>1
    <3>2. CASE i = 2
      BY <2>1, <3>1, <3>2
    <3>3. CASE i # 2
      <4>1. i - 1 \in 2 .. Len(stack[c]) - 1 /\ i - 1 + 1 = i
        BY <2>1, <3>1, <3>3
      <4> QED
        BY <2>1, <3>1, <4>1
    <3> QED
      BY <3>2, <3>3
  <2>3. Nested(stack[c][i + 1 - 1], stack[c][i + 1]) /\ i + 1 - 1 = i
    BY <1>1, <2>2
  <2> QED
    BY <2>2, <2>3 DEF Nested
<1>7. ASSUME NEW b \in Call, MakeInit(b), c \in Sharers(b) PROVE FALSE
  <2>1. Len(stack'[c]) = 1
    BY ONLY TypeInv, <1>7, MakeInitFrames
  <2> QED
    BY <2>1
<1> QED
  BY <1>2, <1>3, <1>4, <1>5, <1>6, <1>7, StackStep

\* The tasks: what they depend on is settled when they are made.
TaskGood(T, t, isInit) ==
  /\ \A d \in T[t].deps : d \in DOMAIN T /\ d < t /\ T[d].session = T[t].session
  /\ \A i \in 1 .. Len(Needs[T[t].key]) :
       \E d \in T[t].deps : T[d].key = Needs[T[t].key][i]
  /\ T[t].root /\ T[t].key # InitKey /\ "init" \in may
       => \/ isInit[T[t].session]
          \/ \E d \in T[t].deps : T[d].key = InitKey

LEMMA TasksGood ==
  (DepsMade /\ DepsComplete) <=> \A t \in Id : TaskGood(tasks, t, initialized)
BY DEF DepsMade, DepsComplete, TaskGood, Id

\* The own frame of a call that makes its task
LEMMA OwnFrame ==
  ASSUME TypeInv, OutermostInit, NEW c \in Call, pc[c] = "attach", Len(stack[c]) = 1
  PROVE  /\ stack[c][1].key = KeyOf[c]
         /\ stack[c][1].key # InitKey /\ "init" \in may
              => \/ initialized[for[c]]
                 \/ \E d \in stack[c][1].deps : tasks[d].key = InitKey
BY DEF OutermostInit, Outermost, InUse

LEMMA DepsStep ==
  ASSUME TypeInv, FramesComplete, OutermostInit, DepsMade, DepsComplete, [Next]_vars
  PROVE  DepsMade' /\ DepsComplete'
<1>1. \A t \in Id : Kept(t)
  BY TasksStep
<1>2. may' = may /\ \A s \in Session : initialized[s] => initialized'[s]
  BY RowsStep
<1>3. \A t \in Id : tasks[t].session \in Session
  BY StoreType DEF TypeInv, Task
<1>4. ASSUME NEW t \in Id
      PROVE  TaskGood(tasks', t, initialized')
  <2>1. TaskGood(tasks, t, initialized)
    BY TasksGood
  <2>2. /\ tasks'[t].session = tasks[t].session /\ tasks'[t].key = tasks[t].key
        /\ tasks'[t].deps = tasks[t].deps /\ tasks'[t].root = tasks[t].root
    BY <1>1 DEF Kept
  <2>3. \A d \in tasks[t].deps : /\ d \in DOMAIN tasks' /\ tasks'[d].session = tasks[d].session
                                 /\ tasks'[d].key = tasks[d].key
    BY <1>1, <2>1 DEF Kept, TaskGood, Id
  <2>4. initialized[tasks[t].session] => initialized'[tasks'[t].session]
    BY <1>2, <1>3, <2>2
  <2>5. \A d \in tasks'[t].deps : d \in DOMAIN tasks' /\ d < t /\ tasks'[d].session = tasks'[t].session
    BY <2>1, <2>2, <2>3 DEF TaskGood
  <2>6. \A i \in 1 .. Len(Needs[tasks'[t].key]) :
          \E d \in tasks'[t].deps : tasks'[d].key = Needs[tasks'[t].key][i]
    BY <2>1, <2>2, <2>3 DEF TaskGood
  <2>7. tasks'[t].root /\ tasks'[t].key # InitKey /\ "init" \in may
          => \/ initialized'[tasks'[t].session]
             \/ \E d \in tasks'[t].deps : tasks'[d].key = InitKey
    BY <2>1, <2>2, <2>3, <2>4 DEF TaskGood
  <2> QED
    BY <2>5, <2>6, <2>7 DEF TaskGood
<1>5. ASSUME \A t \in Id' : TaskGood(tasks', t, initialized')
      PROVE  DepsMade' /\ DepsComplete'
  BY <1>2, <1>5 DEF DepsMade, DepsComplete, TaskGood, Id
<1>6. CASE Id' \subseteq Id
  BY <1>4, <1>5, <1>6
<1>7. ASSUME NEW task \in Task, Add(task), TaskGood(tasks', Len(tasks) + 1, initialized')
      PROVE  DepsMade' /\ DepsComplete'
  <2>1. Id' = 1 .. Len(tasks) + 1 /\ Id = 1 .. Len(tasks) /\ Len(tasks) \in Nat
    BY <1>7, AddLemma, StoreType DEF TypeInv
  <2> QED
    BY <1>4, <1>5, <1>7, <2>1
<1>8. ASSUME NEW c \in Call, MakeInit(c) PROVE DepsMade' /\ DepsComplete'
  <2>1. stack[c] # <<>> /\ Add(InitTask(for[c]))
    BY <1>8 DEF MakeInit, TypeInv, StackInUse, InUse
  <2>2. InitTask(for[c]) \in Task
    BY <2>1, NewTaskType
  <2>3. tasks'[Len(tasks) + 1] = InitTask(for[c])
    BY <2>1, <2>2, AddLemma DEF TypeInv
  <2>4. TaskGood(tasks', Len(tasks) + 1, initialized')
    BY <2>3, KeyAssumption, EmptySeq DEF TaskGood, InitTask
  <2> QED
    BY <1>7, <2>1, <2>2, <2>4
<1>9. ASSUME NEW c \in Call, Make(c) PROVE DepsMade' /\ DepsComplete'
  <2> DEFINE n == Len(tasks) + 1
             g == [key |-> Frame1(c).key, next |-> Stop(c), deps |-> Attached(c)]
  <2>1. stack[c] # <<>> /\ pc[c] = "attach" /\ Add(NewTask(c)) /\ Stop(c) > Len(Wanted(c))
    BY <1>9 DEF Make, TypeInv, StackInUse, InUse
  <2>2. NewTask(c) \in Task /\ for[c] \in Session
    BY <2>1, NewTaskType DEF TypeInv, TypeOK
  <2>3. tasks'[n] = NewTask(c)
    BY <2>1, <2>2, AddLemma DEF TypeInv
  <2>4. FrameGood(tasks, for[c], g)
    <3>1. FrameGood(tasks, for[c], Frame1(c))
      BY <2>1, TopFrame DEF FramesComplete
    <3> QED
      BY <2>1, <3>1, AttachedGood
  <2>5. FrameGood(tasks', for[c], g)
    BY <1>1, <2>4, KeptFrame
  <2>6. /\ tasks'[n].session = for[c] /\ tasks'[n].key = g.key /\ tasks'[n].deps = g.deps
        /\ tasks'[n].root = (Len(stack[c]) = 1)
    BY <2>3 DEF NewTask
  <2>7. \A d \in g.deps : d \in Id /\ d \in DOMAIN tasks' /\ d < n /\ tasks'[d].session = for[c]
    <3>1. \A d \in g.deps : d \in Id
      BY <2>4 DEF FrameGood, Id
    <3>2. Id = 1 .. Len(tasks) /\ Len(tasks) \in Nat
      BY StoreType DEF TypeInv
    <3> HIDE DEF g
    <3> QED
      BY <2>5, <3>1, <3>2 DEF FrameGood
  <2>8. \A i \in 1 .. Len(Needs[g.key]) : \E d \in g.deps : tasks'[d].key = Needs[g.key][i]
    <3>1. g.next = Stop(c) /\ Wanted(c) = Needs[g.key]
      BY DEF Wanted
    <3>2. Stop(c) \in Nat /\ Len(Wanted(c)) \in Nat
      BY <2>1, AttachLemma, TopFrame
    <3>3. \A i \in 1 .. Len(Needs[g.key]) : i < g.next
      BY <2>1, <3>1, <3>2
    <3> HIDE DEF g
    <3> QED
      BY <2>5, <3>3 DEF FrameGood
  <2>9. tasks'[n].root /\ tasks'[n].key # InitKey /\ "init" \in may
          => \/ initialized'[for[c]] \/ \E d \in g.deps : tasks'[d].key = InitKey
    <3> SUFFICES ASSUME Len(stack[c]) = 1, g.key # InitKey, "init" \in may
                 PROVE  initialized'[for[c]] \/ \E d \in g.deps : tasks'[d].key = InitKey
      BY <2>6
    <3>1. g.key = stack[c][1].key /\ stack[c][1].deps \subseteq g.deps
      BY <2>1, TopFrame, AttachLemma
    <3>2. \/ initialized[for[c]]
          \/ \E d \in stack[c][1].deps : tasks[d].key = InitKey
      BY <2>1, <3>1, OwnFrame
    <3> HIDE DEF g
    <3> QED
      BY <1>1, <1>2, <2>2, <2>7, <3>1, <3>2 DEF Kept
  <2>10. TaskGood(tasks', n, initialized')
    <3> HIDE DEF g, n
    <3> QED
      BY <2>6, <2>7, <2>8, <2>9 DEF TaskGood
  <2> QED
    BY <1>7, <2>1, <2>2, <2>10
<1>10. Id' \subseteq Id \/ \E c \in Call : MakeInit(c) \/ Make(c)
  BY IdStep
<1> QED
  BY <1>6, <1>8, <1>9, <1>10

LEMMA NatFacts ==
  ASSUME NEW l \in Nat, l # 0
  PROVE  /\ l = 1 \/ l > 1
         /\ l \in 1 .. l
         /\ l # 1 => l + 1 \in 3 .. l + 1 /\ l + 1 - 1 = l
  OBVIOUS

LEMMA OutermostStep ==
  ASSUME TypeInv, FramesComplete, OutermostInit, [Next]_vars
  PROVE  OutermostInit'
<1>1. \A t \in Id : Kept(t)
  BY TasksStep
<1>2. may' = may /\ \A s \in Session : initialized[s] => initialized'[s]
  BY RowsStep
<1> SUFFICES ASSUME NEW c \in Call, pc'[c] \in InUse PROVE Outermost(c)'
  BY DEF OutermostInit
<1>3. pc[c] \in InUse => Outermost(c)
  BY DEF OutermostInit
<1>4. for'[c] = for[c] \/ Start(c)
  BY ForStep
<1>5. for[c] \in Session /\ for'[c] \in Session
  BY CallsStep DEF TypeInv, TypeOK, CallsTyped
\* An init task among the dependencies stays one.
<1>6. ASSUME NEW j \in 1 .. Len(stack[c]), NEW d \in stack[c][j].deps, tasks[d].key = InitKey
      PROVE  tasks'[d].key = InitKey
  <2>1. d \in Id
    BY DEF FramesComplete, FrameGood, Id
  <2> QED
    BY <1>1, <1>6, <2>1 DEF Kept
<1>7. ASSUME pc[c] \in InUse
      PROVE  /\ stack[c] # <<>> /\ Len(stack[c]) \in Nat /\ Len(stack[c]) # 0
             /\ Len(stack[c]) = 1 \/ Len(stack[c]) > 1
             /\ Len(stack[c]) \in 1 .. Len(stack[c])
  <2>1. stack[c] # <<>>
    BY <1>7 DEF TypeInv, StackInUse
  <2>2. Len(stack[c]) \in Nat /\ Len(stack[c]) # 0
    BY <2>1, TopFrame
  <2> QED
    BY <2>1, <2>2, NatFacts
<1>8. ASSUME pc'[c] = pc[c], stack'[c] = stack[c], fresh'[c] = fresh[c], for'[c] = for[c]
      PROVE  Outermost(c)'
  <2>1. Len(stack[c]) \in 1 .. Len(stack[c]) /\ Outermost(c)
    BY <1>3, <1>7, <1>8
  <2> QED
    BY <1>2, <1>5, <1>6, <1>8, <2>1 DEF Outermost
<1>9. CASE Start(c)
  <2>1. Len(stack'[c]) = 1 /\ pc'[c] = "read" /\ stack'[c][1].key = KeyOf[c]
    BY <1>9, StartFrames
  <2>2. ~(Len(stack'[c]) > 1)
    BY <2>1
  <2> QED
    BY <2>1, <2>2 DEF Outermost
<1>10. CASE ReadSession(c) /\ ~Start(c)
  <2>1. /\ pc[c] = "read" /\ pc'[c] = "resolve" /\ stack' = stack /\ initialized' = initialized
        /\ fresh'[c] = IF Len(stack[c]) = 1 THEN ~initialized[for[c]] ELSE fresh[c]
    BY <1>10 DEF ReadSession, Goto, rows, InUse, TypeInv, TypeOK
  <2>2. Outermost(c) /\ Len(stack[c]) \in 1 .. Len(stack[c])
    BY <1>3, <1>7, <2>1 DEF InUse
  <2>3. Len(stack[c]) = 1 \/ Len(stack[c]) > 1
    BY <1>7, <2>1 DEF InUse
  <2> QED
    BY <1>2, <1>4, <1>6, <1>10, <2>1, <2>2, <2>3 DEF Outermost
<1>11. CASE Resolve(c) /\ ~Start(c)
  <2>1. /\ pc[c] = "resolve" /\ fresh' = fresh /\ initialized' = initialized /\ for' = for
        /\ pc'[c] \in {"attach", "mark", "make", "wait"}
    BY <1>11 DEF Resolve, Goto, rows, InUse, TypeInv, TypeOK
  <2>2. Outermost(c) /\ Len(stack[c]) \in 1 .. Len(stack[c]) /\ stack[c] # <<>>
    BY <1>3, <1>7, <2>1 DEF InUse
  <2>3. CASE stack' = stack /\ pc'[c] = "attach" /\ ~WantsInit(c)
    <3>1. Len(stack[c]) > 1 \/ ~fresh[c] \/ KeyOf[c] = InitKey
      BY <1>7, <2>1, <2>3 DEF WantsInit, InUse
    <3> QED
      BY <1>2, <1>6, <2>1, <2>2, <2>3, <3>1 DEF Outermost
  <2>4. CASE stack' = stack /\ pc'[c] \in {"mark", "make", "wait"} /\ Len(stack[c]) = 1
             /\ (pc'[c] = "mark" => "init" \notin may)
    BY <1>2, <2>1, <2>2, <2>4 DEF Outermost
  <2>5. CASE /\ Found(for[c], InitKey) # {} /\ Len(stack[c]) = 1 /\ pc'[c] = "attach"
             /\ stack' = WithDep(c, Least(Found(for[c], InitKey)))
    <3> DEFINE t == Least(Found(for[c], InitKey))
    <3>1. t \in Nat /\ t \in Id /\ tasks[t].key = InitKey
      BY <2>5, FoundLeast DEF TypeInv
    <3>2. tasks'[t].key = InitKey
      BY <1>1, <3>1 DEF Kept
    <3>3. stack' = WithDep(c, t)
      BY <2>5
    <3> HIDE DEF t
    <3>4. /\ Len(stack'[c]) = 1 /\ stack'[c][1].key = stack[c][1].key
          /\ t \in stack'[c][1].deps
      BY <2>2, <2>5, <3>1, <3>3, WithDepFrames
    <3> QED
      BY <1>2, <2>1, <2>2, <2>5, <3>2, <3>4 DEF Outermost
  <2>6. \/ stack' = stack /\ pc'[c] = "attach" /\ ~WantsInit(c)
        \/ stack' = stack /\ pc'[c] \in {"mark", "make", "wait"} /\ Len(stack[c]) = 1
             /\ (pc'[c] = "mark" => "init" \notin may)
        \/ /\ Found(for[c], InitKey) # {} /\ Len(stack[c]) = 1 /\ pc'[c] = "attach"
           /\ stack' = WithDep(c, Least(Found(for[c], InitKey)))
    <3>1. pc \in [Call -> {"idle", "read", "resolve", "mark", "make", "wait", "attach", "returned",
                          "failed"}]
      BY DEF TypeInv, TypeOK
    <3> QED
      BY <1>11, <2>1, <3>1 DEF Resolve, Goto, WantsInit
  <2> QED
    BY <2>3, <2>4, <2>5, <2>6
<1>12. CASE MarkInitialized(c) /\ ~Start(c)
  <2>1. /\ pc[c] = "mark" /\ pc'[c] = "attach" /\ UNCHANGED <<stack, fresh, for>>
        /\ initialized'[for[c]] = TRUE
    BY <1>5, <1>12 DEF MarkInitialized, Goto, TypeInv, TypeOK
  <2>2. Outermost(c)
    BY <1>3, <2>1 DEF InUse
  <2> QED
    BY <1>2, <2>1, <2>2 DEF Outermost
<1>13. ASSUME NEW b \in Call, MakeInit(b), ~Start(c) PROVE Outermost(c)'
  <2> DEFINE n == Len(tasks) + 1
  <2>1. UNCHANGED <<fresh, for, initialized>>
    BY <1>13 DEF MakeInit, rows
  <2>2. CASE c \in Sharers(b)
    <3>1. /\ pc[c] \in {"make", "wait"} /\ pc'[c] = "attach"
          /\ Len(stack[c]) = 1 /\ Len(stack'[c]) = 1
          /\ stack'[c][1].key = stack[c][1].key /\ n \in stack'[c][1].deps
      BY ONLY TypeInv, <1>13, <2>2, MakeInitFrames
    <3>2. stack[b] # <<>> /\ Add(InitTask(for[b]))
      BY <1>13 DEF MakeInit, TypeInv, StackInUse, InUse
    <3>3. InitTask(for[b]) \in Task
      BY <3>2, NewTaskType
    <3>4. tasks'[n].key = InitKey
      BY <3>2, <3>3, AddLemma DEF TypeInv, InitTask
    <3>5. Outermost(c)
      BY <1>3, <3>1 DEF InUse
    <3> HIDE DEF n
    <3> QED
      BY <1>2, <2>1, <3>1, <3>4, <3>5 DEF Outermost
  <2>3. CASE c \notin Sharers(b)
    <3>1. stack'[c] = stack[c] /\ pc'[c] = pc[c]
      BY ONLY TypeInv, <1>13, <2>3, MakeInitFrames
    <3> QED
      BY <1>8, <2>1, <3>1
  <2> QED
    BY <2>2, <2>3
<1>14. ASSUME NEW b \in Call, FailInit(b), ~Start(c) PROVE Outermost(c)'
  <2>1. pc'[c] = pc[c] /\ UNCHANGED <<stack, fresh, for>>
    BY <1>14 DEF FailInit, InUse
  <2> QED
    BY <1>8, <2>1
<1>15. CASE Refuse(c)
  BY <1>15 DEF Refuse, Goto, InUse, TypeInv, TypeOK
<1>16. CASE Descend(c) /\ ~Start(c)
  <2> DEFINE l == Len(stack[c])
  <2>1. /\ pc[c] = "attach" /\ pc'[c] = "read" /\ UNCHANGED <<fresh, for, initialized>>
    BY <1>16, DescendFrames DEF Descend, rows
  <2>2. Outermost(c) /\ l \in Nat /\ l # 0 /\ stack[c] # <<>>
    BY <1>3, <1>7, <2>1 DEF InUse
  <2>3. /\ Len(stack'[c]) = l + 1
        /\ stack'[c][2].key = stack[c][1].key /\ stack'[c][2].deps = Attached(c)
        /\ \A i \in 3 .. l + 1 : stack'[c][i] = stack[c][i - 1]
    BY <1>16, DescendFrames
  <2>4. stack[c][1].deps \subseteq Attached(c)
    BY <2>2, TopFrame, AttachLemma
  <2> HIDE DEF l
  <2>5. /\ stack'[c][l + 1].key = stack[c][l].key
        /\ stack[c][l].deps \subseteq stack'[c][l + 1].deps
    <3>1. CASE l = 1
      BY <2>3, <2>4, <3>1
    <3>2. CASE l # 1
      <4>1. l + 1 \in 3 .. l + 1 /\ l + 1 - 1 = l
        BY <2>2, <3>2, NatFacts
      <4> DEFINE k == l + 1
      <4>2. k \in 3 .. l + 1 /\ k - 1 = l
        BY <2>2, <4>1
      <4> HIDE DEF k
      <4>3. stack'[c][k] = stack[c][l]
        BY <2>3, <4>2
      <4> QED
        BY <4>3 DEF k
    <3> QED
      BY <3>1, <3>2
  <2>6. l \in 1 .. Len(stack[c]) /\ l + 1 > 1
    BY <2>2 DEF l
  <2> QED
    BY <1>2, <1>6, <2>1, <2>2, <2>3, <2>5, <2>6 DEF Outermost, l
<1>17. CASE Make(c) /\ ~Start(c)
  <2> DEFINE l == Len(stack[c])
  <2>1. /\ pc[c] = "attach" /\ UNCHANGED <<fresh, for, initialized>>
    BY <1>17 DEF Make, rows
  <2>2. Outermost(c) /\ l \in Nat /\ l # 0
    BY <1>3, <1>7, <2>1 DEF InUse
  <2>3. l > 1 /\ pc' = pc /\ Len(stack'[c]) = l - 1
        /\ stack'[c][1].key = stack[c][2].key
        /\ stack[c][2].deps \subseteq stack'[c][1].deps
        /\ \A i \in 2 .. l - 1 : stack'[c][i] = stack[c][i + 1]
    <3>1. l # 1
      BY <1>17, MakeFrames DEF InUse
    <3> QED
      BY <1>17, <3>1, MakeFrames
  <2> HIDE DEF l
  <2>4. /\ stack'[c][l - 1].key = stack[c][l].key
        /\ stack[c][l].deps \subseteq stack'[c][l - 1].deps
    <3>1. CASE l = 2
      BY <2>3, <3>1
    <3>2. CASE l # 2
      <4>1. l - 1 \in 2 .. l - 1 /\ l - 1 + 1 = l
        BY <2>2, <2>3, <3>2
      <4> QED
        BY <2>3, <4>1
    <3> QED
      BY <3>1, <3>2
  <2>5. l \in 1 .. Len(stack[c])
    BY <2>2 DEF l
  <2> QED
    BY <1>2, <1>6, <2>1, <2>2, <2>3, <2>4, <2>5 DEF Outermost, l
<1>18. ASSUME NEW b \in Call, b # c,
              ReadSession(b) \/ Resolve(b) \/ MarkInitialized(b) \/ Refuse(b) \/ Descend(b) \/ Make(b)
       PROVE  pc'[c] = pc[c] /\ fresh'[c] = fresh[c] /\ for' = for
  <2>1. CASE Descend(b) \/ Make(b)
    BY <1>18, <2>1, DescendFrames, MakeFrames DEF Descend, Make
  <2>2. CASE ReadSession(b) \/ Resolve(b) \/ MarkInitialized(b) \/ Refuse(b)
    BY <1>18, <2>2 DEF ReadSession, Resolve, MarkInitialized, Refuse, Goto, TypeInv, TypeOK
  <2> QED
    BY <1>18, <2>1, <2>2
<1>19. ASSUME NEW b \in Call, b # c,
              \/ Start(b) \/ ReadSession(b) \/ Resolve(b) \/ MarkInitialized(b) \/ Refuse(b)
              \/ Descend(b) \/ Make(b)
       PROVE  stack'[c] = stack[c] \/ Start(c)
  <2>1. CASE ReadSession(b) \/ MarkInitialized(b) \/ Refuse(b)
    BY <2>1 DEF ReadSession, MarkInitialized, Refuse
  <2>2. CASE Resolve(b) /\ stack' # stack
    <3>1. stack[b] # <<>>
      BY <2>2 DEF Resolve, TypeInv, StackInUse, InUse
    <3>2. PICK t \in Nat : stack' = WithDep(b, t)
      BY <2>2, FoundLeast DEF Resolve, TypeInv
    <3> QED
      BY <1>19, <3>1, <3>2, WithDepFrames
  <2>3. CASE Start(b) \/ Descend(b) \/ Make(b)
    BY <1>19, <2>3, StartFrames, DescendFrames, MakeFrames
  <2> QED
    BY <1>19, <2>1, <2>2, <2>3
<1>20. ASSUME NEW t \in Id, Begin(t) \/ End(t) \/ Record(t) \/ Kill(t) \/ Delete(t)
       PROVE  UNCHANGED calls
  BY <1>20 DEF Begin, End, Record, Kill, Delete
<1>21. ASSUME NEW s \in Session, DeleteSession(s) \/ MarkArchived(s) PROVE UNCHANGED calls
  BY <1>21 DEF DeleteSession, MarkArchived
<1>22. ASSUME Shutdown \/ Exit \/ UNCHANGED vars PROVE UNCHANGED calls
  BY <1>22 DEF Shutdown, Exit, calls, vars
<1>23. ASSUME UNCHANGED calls PROVE Outermost(c)'
  BY <1>8, <1>23 DEF calls
<1>24. ASSUME NEW b \in Call, b # c, Start(b), ~Start(c) PROVE Outermost(c)'
  BY <1>4, <1>8, <1>19, <1>24, StartFrames
<1>25. ASSUME NEW b \in Call, b # c, ~Start(c),
              ReadSession(b) \/ Resolve(b) \/ MarkInitialized(b) \/ Refuse(b) \/ Descend(b) \/ Make(b)
       PROVE  Outermost(c)'
  BY <1>8, <1>18, <1>19, <1>25
<1> QED
  BY <1>9, <1>10, <1>11, <1>12, <1>13, <1>14, <1>15, <1>16, <1>17, <1>20, <1>21, <1>22, <1>23,
     <1>24, <1>25 DEF Next, Proceed

\* A task depends on tasks that were made before it, of its own session, on one
\* for every key of its depends_on, and, when its session has to be initialized,
\* on an init task: what TaskTree assumes of the graph of the tasks.
THEOREM DependsComplete == Spec => []DepsComplete
<1>1. Init => TypeInv /\ DepsInv
  <2>1. ASSUME Init PROVE Id = {} /\ \A c \in Call : stack[c] = <<>> /\ pc[c] = "idle"
    BY <2>1 DEF Init, Id
  <2> QED
    BY <2>1, TypeStart, EmptySeq DEF DepsInv, FramesComplete, FramesNested, OutermostInit, DepsMade,
                                     DepsComplete, InUse
<1>2. TypeInv /\ DepsInv /\ [Next]_vars => (TypeInv /\ DepsInv)'
  BY TypeStep, FramesStep, NestedStep, OutermostStep, DepsStep DEF DepsInv
<1>3. DepsInv => DepsComplete
  BY DEF DepsInv
<1> QED
  BY <1>1, <1>2, <1>3, PTL DEF Spec

-----------------------------------------------------------------------------
(* What leaves the store *)

\* deleteTask and deleteSessionTasks kill what they drop; createTask drops one
\* that has ended, and a task that goes on running only from a store full of
\* active ones, and then the oldest.
THEOREM DropsDying == Spec => LeavesDying
<1> DEFINE Leaves == down' # "exited" => \A t \in store \ store' :
                       \/ tasks'[t].status \in {"exiting", "ended"}
                       \/ /\ Cardinality(store) >= MaxTasks
                          /\ \A u \in store : t <= u /\ tasks[u].status \in Active
<1>1. Init => TypeInv
  BY TypeStart
<1>2. TypeInv /\ [Next]_vars => TypeInv'
  BY TypeStep
<1>3. ASSUME TypeInv, [Next]_vars PROVE Leaves
  <2>1. ASSUME NEW task \in Task, Add(task) PROVE Leaves
    <3>1. store \ store' \subseteq store \ Room
      BY <2>1 DEF Add
    <3>2. \A t \in store : tasks'[t] = tasks[t]
      BY <1>3, <2>1, AddLemma DEF TypeInv, TypeOK
    <3> QED
      BY <1>3, <3>1, <3>2, RoomLemma DEF TypeInv
  <2>2. ASSUME NEW c \in Call, MakeInit(c) \/ Make(c) PROVE Leaves
    <3>1. stack[c] # <<>>
      BY <1>3, <2>2 DEF MakeInit, Make, TypeInv, StackInUse, InUse
    <3> QED
      BY <1>3, <2>1, <2>2, <3>1, NewTaskType DEF MakeInit, Make
  <2>3. ASSUME NEW c \in Call, Start(c) \/ Proceed(c) PROVE store' = store \/ MakeInit(c) \/ Make(c)
    BY <2>3 DEF Start, Proceed, ReadSession, Resolve, MarkInitialized, FailInit, Refuse, Descend
  <2>4. ASSUME NEW S \in SUBSET Id, KillAll(S), store \ store' \subseteq S PROVE Leaves
    BY <1>3, <2>4, KillLemma DEF TypeInv
  <2>5. ASSUME NEW t \in Id, Delete(t) PROVE Leaves
    BY <2>4, <2>5 DEF Delete
  <2>6. ASSUME NEW s \in Session, DeleteSession(s) PROVE Leaves
    <3>1. {t \in store : tasks[t].session = s} \in SUBSET Id
      BY <1>3 DEF TypeInv, TypeOK
    <3> QED
      BY <2>4, <2>6, <3>1 DEF DeleteSession
  <2>7. ASSUME NEW t \in Id, Begin(t) \/ End(t) \/ Record(t) \/ Kill(t) PROVE store' = store
    BY <2>7 DEF Begin, End, Record, Kill
  <2>8. ASSUME NEW s \in Session, MarkArchived(s) PROVE store' = store
    BY <2>8 DEF MarkArchived
  <2>9. ASSUME Shutdown \/ UNCHANGED vars PROVE store' = store
    BY <2>9 DEF Shutdown, vars
  <2>10. CASE Exit
    BY <2>10 DEF Exit
  <2>11. CASE store' = store
    BY <2>11
  <2> QED
    BY <1>3, <2>2, <2>3, <2>5, <2>6, <2>7, <2>8, <2>9, <2>10, <2>11 DEF Next
<1>4. TypeInv /\ [Next]_vars => [Leaves]_vars
  BY <1>3
<1> QED
  BY <1>1, <1>2, <1>4, PTL DEF Spec, LeavesDying
=============================================================================
