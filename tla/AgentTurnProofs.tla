---------------------------- MODULE AgentTurnProofs ----------------------------
(***************************************************************************)
(* Proofs about AgentTurn for every set of messages: turn ids, types, the  *)
(* queue, that each message is read at most once, and that an agent at     *)
(* rest does not claim to be running.                                      *)
(***************************************************************************)
EXTENDS AgentTurn, TLAPS, SequenceTheorems, FiniteSetTheorems

-----------------------------------------------------------------------------
(* Turn ids.  Uniqueness is not inductive as it stands: an id is new because *)
(* the counter of the agent is above every id in use, the active one         *)
(* included.                                                                 *)

Counter ==
  /\ lastTurn \in Nat
  /\ activeTurn \in 0 .. lastTurn
  /\ turn \in [Message -> 0 .. lastTurn]

TurnInv == Counter /\ UniqueTurns

\* An id that was allocated is above all others; one that is shared belongs to
\* a message that steers (assignTurnOnUserMessageCreate).
LEMMA AssignTurnLemma ==
  ASSUME TurnInv, NEW m \in Message, NEW force \in BOOLEAN,
         force => m \in Forced,
         AssignTurn(m, force), UNCHANGED activeTurn
  PROVE  TurnInv'
<1>1. CASE force /\ status = "running" /\ activeTurn # 0
  <2>1. turn' = [turn EXCEPT ![m] = activeTurn] /\ lastTurn' = lastTurn
    BY <1>1 DEF AssignTurn
  <2>2. Counter'
    BY <2>1 DEF TurnInv, Counter
  <2>3. UniqueTurns'
    BY <1>1, <2>1 DEF TurnInv, Counter, UniqueTurns
  <2> QED
    BY <2>2, <2>3 DEF TurnInv
<1>2. CASE ~(force /\ status = "running" /\ activeTurn # 0)
  <2>1. turn' = [turn EXCEPT ![m] = lastTurn + 1] /\ lastTurn' = lastTurn + 1
    BY <1>2 DEF AssignTurn
  <2>2. \A n \in Message : turn'[n] = IF n = m THEN lastTurn + 1 ELSE turn[n]
    BY <2>1 DEF TurnInv, Counter
  <2>3. \A n \in Message : turn[n] # lastTurn + 1
    BY DEF TurnInv, Counter
  <2>4. Counter'
    BY <2>1 DEF TurnInv, Counter
  <2>5. UniqueTurns'
    BY <2>2, <2>3 DEF TurnInv, UniqueTurns
  <2> QED
    BY <2>4, <2>5 DEF TurnInv
<1> QED
  BY <1>1, <1>2

\* Steps that allocate nothing: the active turn is left alone, cleared or taken
\* from a message.
LEMMA NoAllocation ==
  ASSUME TurnInv, UNCHANGED <<turn, lastTurn>>,
         \/ UNCHANGED activeTurn
         \/ activeTurn' = 0
         \/ \E m \in Message : activeTurn' = turn[m]
  PROVE  TurnInv'
<1>1. Counter'
  BY DEF TurnInv, Counter
<1>2. UniqueTurns'
  BY DEF TurnInv, UniqueTurns
<1> QED
  BY <1>1, <1>2 DEF TurnInv

LEMMA TurnInit == Init => TurnInv
BY DEF Init, TurnInv, Counter, UniqueTurns

LEMMA ChainKeepsTurns ==
  ASSUME TurnInv, NEW m \in Message, ChainStep(m)
  PROVE  TurnInv'
<1>1. CASE QueueIfRunning(m) \/ Enqueue(m)
  BY <1>1, NoAllocation DEF QueueIfRunning, Enqueue, agent
<1>2. CASE OnMessageCreated(m)
  BY <1>2, NoAllocation DEF OnMessageCreated
<1>3. CASE JoinTurn(m)
  BY <1>3, NoAllocation DEF JoinTurn, agent
<1>4. CASE ClaimTurn(m)
  BY <1>4, NoAllocation DEF ClaimTurn
<1>5. CASE StartQuery(m)
  BY <1>5, NoAllocation DEF StartQuery, agent
<1>6. CASE OpenQuery(m)
  BY <1>6, NoAllocation DEF OpenQuery
<1>7. CASE FirstPush(m) \/ StartFails(m)
  BY <1>7, NoAllocation DEF FirstPush, StartFails, agent
<1>8. CASE Recreate(m)
  BY <1>8, AssignTurnLemma DEF Recreate
<1> QED
  BY <1>1, <1>2, <1>3, <1>4, <1>5, <1>6, <1>7, <1>8 DEF ChainStep

LEMMA QueryKeepsTurns ==
  ASSUME TurnInv, NEW q \in Query, QueryStep(q) \/ AskUser(q) \/ Crashed(q)
  PROVE  TurnInv'
<1>1. CASE ReadMessage(q)
  BY <1>1, NoAllocation DEF ReadMessage, agent
<1>8. CASE InitEvent(q)
  BY <1>8, NoAllocation DEF InitEvent, message
<1>2. CASE Result(q) \/ Aborted(q) \/ Crashed(q)
  BY <1>2, NoAllocation DEF Result, Aborted, Crashed, StreamEnds, message, agent
<1>3. CASE TurnOver(q)
  BY <1>3, NoAllocation DEF TurnOver, message
<1>4. CASE OnTurnComplete(q) \/ TakeQueued(q)
  BY <1>4, NoAllocation DEF OnTurnComplete, TakeQueued, Consumer
<1>5. CASE ClearActiveTurn(q)
  BY <1>5, NoAllocation DEF ClearActiveTurn, Consumer
<1>6. CASE FlushQueued(q)
  BY <1>6, NoAllocation DEF FlushQueued, Consumer
<1>7. CASE AskUser(q)
  BY <1>7, NoAllocation DEF AskUser, message
<1> QED
  BY <1>1, <1>2, <1>3, <1>4, <1>5, <1>6, <1>7, <1>8 DEF QueryStep

LEMMA TurnStep == TurnInv /\ [Next]_vars => TurnInv'
<1> SUFFICES ASSUME TurnInv, [Next]_vars PROVE TurnInv'
  OBVIOUS
<1>1. ASSUME NEW m \in Message, Send(m) PROVE TurnInv'
  <2>1. AssignTurn(m, m \in Forced) /\ UNCHANGED activeTurn
    BY <1>1 DEF Send
  <2>2. (m \in Forced) \in BOOLEAN /\ ((m \in Forced) => m \in Forced)
    OBVIOUS
  <2> QED
    BY <2>1, <2>2, AssignTurnLemma
<1>2. ASSUME NEW m \in Message, RemoveQueued(m) PROVE TurnInv'
  BY <1>2, NoAllocation DEF RemoveQueued, agent
<1>3. ASSUME NEW m \in Message, ChainStep(m) PROVE TurnInv'
  BY <1>3, ChainKeepsTurns
<1>4. ASSUME NEW q \in Query, QueryStep(q) \/ AskUser(q) \/ Crashed(q) PROVE TurnInv'
  BY <1>4, QueryKeepsTurns
<1>5. ASSUME NEW d \in Disposer, Dispose(d) \/ DropActive(d) PROVE TurnInv'
  BY <1>5, NoAllocation DEF Dispose, DropActive, message, agent
<1>6. CASE StopCalled
  BY <1>6, NoAllocation DEF StopCalled, message, agent
<1>7. CASE Stopped
  BY <1>7, NoAllocation DEF Stopped, message
<1>8. CASE UNCHANGED vars
  BY <1>8, NoAllocation DEF vars, message, agent
<1> QED
  BY <1>1, <1>2, <1>3, <1>4, <1>5, <1>6, <1>7, <1>8 DEF Next

\* Whatever is sent, queued, flushed and stopped at the same time, two messages
\* that did not steer have different turn ids (allocateNextTurnId).
THEOREM TurnIdsUnique == Spec => []UniqueTurns
<1>1. TurnInv => UniqueTurns
  BY DEF TurnInv
<1> QED
  BY <1>1, TurnInit, TurnStep, PTL DEF Spec

-----------------------------------------------------------------------------
(* Sequences. *)

LEMMA RemoveAtLemma ==
  ASSUME NEW S, NEW s \in Seq(S), NEW i \in 1 .. Len(s)
  PROVE  /\ RemoveAt(s, i) \in Seq(S)
         /\ Len(RemoveAt(s, i)) = Len(s) - 1
         /\ \A j \in 1 .. Len(s) - 1 :
              RemoveAt(s, i)[j] = IF j < i THEN s[j] ELSE s[j + 1]
<1> DEFINE front == SubSeq(s, 1, i - 1)
           back  == SubSeq(s, i + 1, Len(s))
<1>1. Len(s) \in Nat /\ i \in Nat \ {0} /\ \A j \in 1 .. Len(s) : s[j] \in S
  BY LenProperties, ElementOfSeq
<1>2. /\ front \in Seq(S) /\ Len(front) = i - 1
      /\ \A j \in 1 .. i - 1 : front[j] = s[j]
  BY <1>1, SubSeqProperties
<1>3. /\ back \in Seq(S) /\ Len(back) = Len(s) - i
      /\ \A j \in 1 .. Len(s) - i : back[j] = s[i + j]
  <2>1. i + 1 \in Int /\ Len(s) \in Int /\ \A j \in i + 1 .. Len(s) : s[j] \in S
    BY <1>1
  <2>2. /\ back \in Seq(S)
        /\ Len(back) = IF i + 1 <= Len(s) THEN Len(s) - (i + 1) + 1 ELSE 0
        /\ \A j \in 1 .. Len(s) - (i + 1) + 1 : back[j] = s[(i + 1) + j - 1]
    BY <2>1, SubSeqProperties
  <2> HIDE DEF back
  <2> QED
    BY <1>1, <2>2
<1> HIDE DEF front, back
<1>4. /\ front \o back \in Seq(S)
      /\ Len(front \o back) = Len(front) + Len(back)
      /\ \A j \in 1 .. Len(front) + Len(back) :
           (front \o back)[j] = IF j <= Len(front) THEN front[j] ELSE back[j - Len(front)]
  BY <1>2, <1>3, ConcatProperties
<1>5. RemoveAt(s, i) = front \o back
  BY DEF RemoveAt, front, back
<1>6. Len(front) + Len(back) = Len(s) - 1
  BY <1>1, <1>2, <1>3
<1>7. ASSUME NEW j \in 1 .. Len(s) - 1
      PROVE  (front \o back)[j] = IF j < i THEN s[j] ELSE s[j + 1]
  <2>1. CASE j < i
    BY <1>1, <1>2, <1>4, <1>6, <2>1
  <2>2. CASE ~(j < i)
    <3>1. j - (i - 1) \in 1 .. Len(s) - i /\ i + (j - (i - 1)) = j + 1 /\ ~(j <= i - 1)
      BY <1>1, <2>2
    <3>2. (front \o back)[j] = back[j - (i - 1)]
      BY <1>2, <1>4, <1>6, <3>1
    <3>3. back[j - (i - 1)] = s[j + 1]
      BY <1>3, <3>1
    <3> QED
      BY <2>2, <3>2, <3>3
  <2> QED
    BY <2>1, <2>2
<1> QED
  BY <1>4, <1>5, <1>6, <1>7

LEMMA AppendLemma ==
  ASSUME NEW S, NEW s \in Seq(S), NEW x \in S
  PROVE  /\ Append(s, x) \in Seq(S)
         /\ Len(Append(s, x)) = Len(s) + 1 /\ Len(s) \in Nat
         /\ \A i \in 1 .. Len(s) : Append(s, x)[i] = s[i]
         /\ Append(s, x)[Len(s) + 1] = x
  OBVIOUS

LEMMA TailLemma ==
  ASSUME NEW S, NEW s \in Seq(S), s # <<>>
  PROVE  /\ Tail(s) \in Seq(S) /\ Head(s) \in S
         /\ Len(Tail(s)) = Len(s) - 1 /\ Len(s) \in Nat \ {0}
         /\ Head(s) = s[1]
         /\ \A i \in 1 .. Len(Tail(s)) : Tail(s)[i] = s[i + 1]
  BY HeadTailProperties

\* The messages that wait for a resumed query, each of them once.
LEMMA SetToSeqsLemma ==
  ASSUME NEW S, NEW T, T \subseteq S, IsFiniteSet(S), NEW s \in SetToSeqs(T)
  PROVE  /\ s \in Seq(S)
         /\ \A i \in 1 .. Len(s) : s[i] \in T
         /\ \A i, j \in 1 .. Len(s) : s[i] = s[j] => i = j
<1>1. Cardinality(T) \in Nat
  BY FS_Subset, FS_CardinalityType
<1>2. /\ s \in [1 .. Cardinality(T) -> T]
      /\ \A i, j \in 1 .. Cardinality(T) : i # j => s[i] # s[j]
  BY DEF SetToSeqs
<1>3. s \in Seq(T) /\ Len(s) = Cardinality(T)
  BY <1>1, <1>2
<1> QED
  BY <1>2, <1>3, ElementOfSeq

-----------------------------------------------------------------------------
(* Type correctness. *)

\* A query whose disposal has begun has an outcome.
Answered == \A q \in Query : disposer[q] # "off" => outcome[q] # None

LEMMA UnqueueType ==
  ASSUME TypeOK, NEW m, Unqueue(m)
  PROVE  queue' \in Seq(Message) /\ m \in Message
<1>1. PICK i \in 1 .. Len(queue) : queue[i] = m /\ queue' = RemoveAt(queue, i)
  BY DEF Unqueue
<1> QED
  BY <1>1, RemoveAtLemma, ElementOfSeq DEF TypeOK

LEMMA PushType ==
  ASSUME TypeOK, NEW q \in Query, NEW m \in Message, Push(q, <<m>>)
  PROVE  inbox' \in [Query -> Seq(Message)]
<1>1. inbox[q] \o <<m>> \in Seq(Message)
  BY DEF TypeOK
<1> QED
  BY <1>1 DEF Push, TypeOK

LEMMA ChainType ==
  ASSUME TypeOK, Answered, TurnInv', NEW m \in Message,
         Send(m) \/ RemoveQueued(m) \/ ChainStep(m)
  PROVE  TypeOK' /\ Answered'
<1> USE DEF TypeOK, MessagePc, Goto
<1>1. /\ lastTurn' \in Nat /\ activeTurn' \in 0 .. lastTurn'
      /\ turn' \in [Message -> 0 .. lastTurn']
  BY DEF TurnInv, Counter
<1>2. CASE Send(m)
  BY <1>1, <1>2 DEF Send, query, cleanup, Answered
<1>3. CASE RemoveQueued(m)
  BY <1>1, <1>3, UnqueueType DEF RemoveQueued, agent, query, cleanup, Answered
<1>4. CASE QueueIfRunning(m)
  BY <1>1, <1>4 DEF QueueIfRunning, agent, query, cleanup, Answered
<1>5. CASE Enqueue(m)
  BY <1>1, <1>5, AppendLemma DEF Enqueue, agent, query, cleanup, Answered
<1>6. CASE OnMessageCreated(m)
  BY <1>1, <1>6 DEF OnMessageCreated, query, cleanup, Status, Answered
<1>7. CASE JoinTurn(m)
  <2>1. inbox' \in [Query -> Seq(Message)] /\ pc' \in [Message -> MessagePc]
    BY <1>7, PushType DEF JoinTurn, PushedPc
  <2> QED
    BY <1>1, <1>7, <2>1 DEF JoinTurn, agent, cleanup, Answered
<1>8. CASE ClaimTurn(m)
  BY <1>1, <1>8 DEF ClaimTurn, query, cleanup, Answered
<1>9. CASE StartQuery(m)
  <2>1. /\ inbox' \in [Query -> Seq(Message)] /\ pc' \in [Message -> MessagePc]
        /\ resuming' \in Message \cup {None}
    BY <1>9, PushType DEF StartQuery, PushedPc, Query
  <2> QED
    BY <1>1, <1>9, <2>1 DEF StartQuery, agent, cleanup, Answered
<1>10. CASE OpenQuery(m)
  <2>1. inbox' \in [Query -> Seq(Message)]
    <3>1. ASSUME NEW others \in SetToSeqs(Awaiting)
          PROVE  <<m>> \o others \in Seq(Message)
      <4>1. others \in Seq(Message)
        <5>1. IsFiniteSet(Message) /\ Awaiting \subseteq Message
          BY MessageAssumption DEF Awaiting
        <5> QED
          BY <3>1, <5>1, SetToSeqsLemma
      <4> QED
        BY <4>1
    <3>2. \/ \E others \in SetToSeqs(Awaiting) :
               inbox' = [inbox EXCEPT ![m] = <<m>> \o others]
          \/ UNCHANGED inbox
      BY <1>10 DEF OpenQuery
    <3> QED
      BY <3>1, <3>2
  <2>2. /\ pc' \in [Message -> MessagePc] /\ consumer' \in [Query -> ConsumerPc]
        /\ active' \in Query \cup {None} /\ resuming' \in Message \cup {None}
        /\ ended' \in [Query -> BOOLEAN] /\ status' \in Status
    <3>1. pc' \in [Message -> MessagePc]
      <4>1. \/ pc' = [n \in Message |-> IF n = m \/ pc[n] = "awaiting" THEN "given" ELSE pc[n]]
            \/ pc' = [pc EXCEPT ![m] = "opened"]
        BY <1>10 DEF OpenQuery, Goto
      <4>2. pc \in [Message -> MessagePc] /\ {"given", "opened"} \subseteq MessagePc
        BY DEF TypeOK, MessagePc
      <4> QED
        BY <4>1, <4>2
    <3>2. status' \in Status
      BY <1>10 DEF OpenQuery, Status
    <3>3. consumer' \in [Query -> ConsumerPc] /\ ended' \in [Query -> BOOLEAN]
      BY <1>10 DEF OpenQuery, ConsumerPc, Query
    <3>4. active' \in Query \cup {None} /\ resuming' \in Message \cup {None}
      BY <1>10 DEF OpenQuery, Query
    <3> QED
      BY <3>1, <3>2, <3>3, <3>4
  <2> QED
    BY <1>1, <1>10, <2>1, <2>2 DEF OpenQuery, cleanup, Answered
<1>11. CASE FirstPush(m)
  <2>1. inbox' \in [Query -> Seq(Message)] /\ pc' \in [Message -> MessagePc]
    BY <1>11, PushType DEF FirstPush, PushedPc, Query
  <2> QED
    BY <1>1, <1>11, <2>1 DEF FirstPush, agent, cleanup, Answered
<1>12. CASE StartFails(m)
  BY <1>1, <1>12 DEF StartFails, agent, cleanup, Answered
<1>13. CASE Recreate(m)
  BY <1>1, <1>13 DEF Recreate, query, cleanup, Answered
<1> QED
  BY <1>2, <1>3, <1>4, <1>5, <1>6, <1>7, <1>8, <1>9, <1>10, <1>11, <1>12, <1>13
     DEF ChainStep

LEMMA QueryType ==
  ASSUME TypeOK, Answered, TurnInv', NEW q \in Query,
         QueryStep(q) \/ AskUser(q) \/ Crashed(q)
  PROVE  TypeOK' /\ Answered'
<1> USE DEF TypeOK, ConsumerPc, DisposerPc, Status
<1>1. /\ lastTurn' \in Nat /\ activeTurn' \in 0 .. lastTurn'
      /\ turn' \in [Message -> 0 .. lastTurn']
  BY DEF TurnInv, Counter
<1>2. q \in Disposer /\ q # Stop
  BY NameAssumption DEF Disposer, Query
<1>3. CASE ReadMessage(q)
  <2>1. Tail(inbox[q]) \in Seq(Message) /\ Head(inbox[q]) \in Message
    BY <1>3, TailLemma DEF ReadMessage
  <2>2. /\ inbox' \in [Query -> Seq(Message)] /\ reads' \in [Message -> Nat]
        /\ consumer' \in [Query -> ConsumerPc]
    BY <1>3, <2>1, SMTT(30) DEF ReadMessage
  <2> QED
    BY <1>1, <1>3, <2>2 DEF ReadMessage, agent, cleanup, Answered
<1>11. CASE InitEvent(q)
  BY <1>1, <1>11 DEF InitEvent, message, cleanup, Answered
<1>4. ASSUME NEW verdict \in {"completed", "failed", "stopped"}, StreamEnds(q, verdict)
      PROVE  TypeOK' /\ Answered'
  BY <1>1, <1>2, <1>4 DEF StreamEnds, message, agent, Answered, None
<1>5. CASE Result(q) \/ Aborted(q) \/ Crashed(q)
  BY <1>4, <1>5, OutcomeAssumption DEF Result, Aborted, Crashed
<1>6. CASE TurnOver(q)
  BY <1>1, <1>2, <1>6 DEF TurnOver, message, Answered, None
<1>7. CASE OnTurnComplete(q) \/ ClearActiveTurn(q)
  BY <1>1, <1>7 DEF OnTurnComplete, ClearActiveTurn, Consumer, cleanup, Answered
<1>8. CASE TakeQueued(q)
  <2>1. queue # <<>> => Head(queue) \in Message
    BY TailLemma
  <2> QED
    BY <1>1, <1>8, <2>1 DEF TakeQueued, Consumer, cleanup, Answered
<1>9. CASE FlushQueued(q)
  <2>1. queue' \in Seq(Message) /\ pc' \in [Message -> MessagePc]
    BY <1>9, UnqueueType DEF FlushQueued, Goto, MessagePc
  <2> QED
    BY <1>1, <1>9, <2>1 DEF FlushQueued, Consumer, cleanup, Answered
<1>10. CASE AskUser(q)
  BY <1>1, <1>10 DEF AskUser, message, cleanup, Answered
<1> QED
  BY <1>3, <1>5, <1>6, <1>7, <1>8, <1>9, <1>10, <1>11 DEF QueryStep

LEMMA TypeStep ==
  ASSUME TypeOK, Answered, TurnInv, [Next]_vars
  PROVE  TypeOK' /\ Answered'
<1> USE DEF TypeOK
<1>1. TurnInv'
  BY TurnStep
<1>2. /\ lastTurn' \in Nat /\ activeTurn' \in 0 .. lastTurn'
      /\ turn' \in [Message -> 0 .. lastTurn']
  BY <1>1 DEF TurnInv, Counter
<1>3. CASE UNCHANGED vars
  BY <1>3 DEF vars, message, agent, query, cleanup, Answered
<1>4. ASSUME NEW d \in Disposer, Dispose(d) \/ DropActive(d)
      PROVE  TypeOK' /\ Answered'
  <2>1. disposer' \in [Disposer -> DisposerPc] /\ target' \in [Disposer -> Query \cup {None}]
    <3>1. CASE Dispose(d)
      BY <3>1 DEF Dispose, query, DisposerPc
    <3>2. CASE DropActive(d)
      BY <3>2 DEF DropActive, query, DisposerPc
    <3> QED
      BY <1>4, <3>1, <3>2
  <2>2. ended' \in [Query -> BOOLEAN] /\ active' \in Query \cup {None}
    BY <1>4 DEF Dispose, DropActive, query
  <2>3. TypeOK'
    BY <1>2, <1>4, <2>1, <2>2 DEF Dispose, DropActive, message, agent, query
  <2>4. Answered'
    BY <1>4 DEF Dispose, DropActive, query, Answered, Disposer
  <2> QED
    BY <2>3, <2>4
<1>5. CASE StopCalled \/ Stopped
  <2>1. Stop \in Disposer /\ \A q \in Query : q # Stop
    BY NameAssumption DEF Disposer, Query
  <2>2. CASE StopCalled
    BY <1>2, <2>1, <2>2 DEF StopCalled, message, agent, query, DisposerPc, Answered
  <2>3. CASE Stopped
    BY <1>2, <2>1, <2>3 DEF Stopped, message, query, DisposerPc, Status, Answered
  <2> QED
    BY <1>5, <2>2, <2>3
<1> QED
  BY <1>1, <1>3, <1>4, <1>5, ChainType, QueryType DEF Next

\* Every variable keeps its type, for every set of messages; in particular every
\* query that ends a turn has an outcome to write as the agent's status.
THEOREM TypeCorrect == Spec => [](TypeOK /\ Answered)
<1>1. Init => TypeOK /\ Answered
  <2> SUFFICES ASSUME Init PROVE TypeOK /\ Answered
    OBVIOUS
  <2>1. Answered
    BY DEF Init, Answered, Disposer
  <2>2. <<>> \in Seq(Message)
    OBVIOUS
  <2>3. /\ inbox \in [Query -> Seq(Message)] /\ queue \in Seq(Message)
        /\ pc \in [Message -> MessagePc] /\ consumer \in [Query -> ConsumerPc]
        /\ disposer \in [Disposer -> DisposerPc] /\ status \in Status
    BY <2>2 DEF Init, MessagePc, ConsumerPc, DisposerPc, Status
  <2>4. /\ turn \in [Message -> 0 .. lastTurn] /\ lastTurn \in Nat
        /\ activeTurn \in 0 .. lastTurn /\ reads \in [Message -> Nat]
    BY DEF Init
  <2> QED
    BY <2>1, <2>3, <2>4 DEF Init, TypeOK
<1>2. TypeOK /\ Answered /\ TurnInv /\ [Next]_vars => (TypeOK /\ Answered)'
  BY TypeStep
<1> QED
  BY <1>1, <1>2, TurnInit, TurnStep, PTL DEF Spec

-----------------------------------------------------------------------------
(* The queue. *)

Fresh == {"unsent", "check", "enqueue"}

\* A message is in the queue once, while it waits there, and what a flush has
\* read is the head of the queue or gone.
QueueInv ==
  /\ \A i \in 1 .. Len(queue) : pc[queue[i]] = "queued"
  /\ \A i, j \in 1 .. Len(queue) : queue[i] = queue[j] => i = j
  /\ \A q \in Query : picked[q] \in Message => pc[picked[q]] \notin Fresh
  /\ \A q \in Query : \A i \in 1 .. Len(queue) : picked[q] = queue[i] => i = 1

\* What a step does to the place of a message
KeepsQueued ==
  /\ UNCHANGED <<queue, picked>>
  /\ \A m \in Message : pc[m] = "queued" => pc'[m] = "queued"
  /\ \A m \in Message : pc[m] \notin Fresh => pc'[m] \notin Fresh

LEMMA KeepsQueuedLemma ==
  ASSUME TypeOK, QueueInv, KeepsQueued
  PROVE  QueueInv'
<1>1. \A i \in 1 .. Len(queue) : queue[i] \in Message
  BY ElementOfSeq DEF TypeOK
<1> QED
  BY <1>1 DEF QueueInv, KeepsQueued

LEMMA UnqueueLemma ==
  ASSUME TypeOK, QueueInv, NEW m \in Message, NEW label \in {"removed", "recreate"},
         Unqueue(m), Goto(m, label), UNCHANGED picked
  PROVE  QueueInv'
<1>1. PICK k \in 1 .. Len(queue) : queue[k] = m /\ queue' = RemoveAt(queue, k)
  BY DEF Unqueue
<1>2. /\ Len(queue') = Len(queue) - 1 /\ Len(queue) \in Nat
      /\ \A j \in 1 .. Len(queue') :
           queue'[j] = IF j < k THEN queue[j] ELSE queue[j + 1]
  BY <1>1, RemoveAtLemma, LenProperties DEF TypeOK
<1>3. \A j \in 1 .. Len(queue) : queue[j] \in Message
  BY ElementOfSeq DEF TypeOK
<1>4. \A i \in 1 .. Len(queue') :
        \E j \in 1 .. Len(queue) :
          queue'[i] = queue[j] /\ j # k /\ j = (IF i < k THEN i ELSE i + 1)
  BY <1>2
<1>5. \A n \in Message : pc'[n] = IF n = m THEN label ELSE pc[n]
  BY DEF Goto, TypeOK
<1>6. \A i \in 1 .. Len(queue') : pc'[queue'[i]] = "queued"
  <2> TAKE i \in 1 .. Len(queue')
  <2>1. PICK j \in 1 .. Len(queue) : queue'[i] = queue[j] /\ j # k
    BY <1>4
  <2>2. queue[j] # m /\ pc[queue[j]] = "queued"
    BY <1>1, <2>1 DEF QueueInv
  <2> QED
    BY <1>3, <1>5, <2>1, <2>2
<1>7. ASSUME NEW i \in 1 .. Len(queue'), NEW j \in 1 .. Len(queue'),
             queue'[i] = queue'[j]
      PROVE  i = j
  <2>1. PICK a \in 1 .. Len(queue) :
          queue'[i] = queue[a] /\ a = (IF i < k THEN i ELSE i + 1)
    BY <1>4
  <2>2. PICK b \in 1 .. Len(queue) :
          queue'[j] = queue[b] /\ b = (IF j < k THEN j ELSE j + 1)
    BY <1>4
  <2>3. a = b
    BY <1>7, <2>1, <2>2 DEF QueueInv
  <2> QED
    BY <1>2, <2>1, <2>2, <2>3
<1>8. \A q \in Query : picked'[q] \in Message => pc'[picked'[q]] \notin Fresh
  BY <1>5 DEF QueueInv, Fresh
<1>9. ASSUME NEW q \in Query, NEW i \in 1 .. Len(queue'), picked'[q] = queue'[i]
      PROVE  i = 1
  <2>1. PICK a \in 1 .. Len(queue) :
          queue'[i] = queue[a] /\ a # k /\ a = (IF i < k THEN i ELSE i + 1)
    BY <1>4
  <2>2. a = 1
    BY <1>9, <2>1 DEF QueueInv
  <2> QED
    BY <1>2, <2>1, <2>2
<1> QED
  BY <1>6, <1>7, <1>8, <1>9 DEF QueueInv

LEMMA EnqueueLemma ==
  ASSUME TypeOK, QueueInv, NEW m \in Message, Enqueue(m)
  PROVE  QueueInv'
<1>1. /\ pc[m] = "enqueue" /\ UNCHANGED picked
      /\ \A n \in Message : pc'[n] = IF n = m THEN "queued" ELSE pc[n]
  BY DEF Enqueue, Goto, TypeOK
<1>2. /\ Len(queue') = Len(queue) + 1 /\ Len(queue) \in Nat
      /\ \A i \in 1 .. Len(queue) : queue'[i] = queue[i]
      /\ queue'[Len(queue) + 1] = m
  BY AppendLemma DEF Enqueue, TypeOK
<1>3. \A i \in 1 .. Len(queue) : queue[i] \in Message /\ queue[i] # m
  BY <1>1, ElementOfSeq DEF QueueInv, TypeOK
<1>4. \A i \in 1 .. Len(queue') : i \in 1 .. Len(queue) \/ i = Len(queue) + 1
  BY <1>2
<1>5. \A i \in 1 .. Len(queue') : pc'[queue'[i]] = "queued"
  BY <1>1, <1>2, <1>3, <1>4 DEF QueueInv
<1>6. \A i, j \in 1 .. Len(queue') : queue'[i] = queue'[j] => i = j
  BY <1>2, <1>3, <1>4 DEF QueueInv
<1>7. \A q \in Query : picked'[q] \in Message => pc'[picked'[q]] \notin Fresh
  BY <1>1 DEF QueueInv, Fresh
<1>8. \A q \in Query : picked[q] # m
  BY <1>1 DEF QueueInv, Fresh
<1>9. \A q \in Query : \A i \in 1 .. Len(queue') : picked'[q] = queue'[i] => i = 1
  BY <1>1, <1>2, <1>4, <1>8 DEF QueueInv
<1> QED
  BY <1>5, <1>6, <1>7, <1>9 DEF QueueInv

LEMMA TakeQueuedLemma ==
  ASSUME TypeOK, QueueInv, NEW q \in Query, TakeQueued(q)
  PROVE  QueueInv'
<1>1. CASE queue = <<>>
  BY <1>1, KeepsQueuedLemma DEF TakeQueued, KeepsQueued
<1>2. CASE queue # <<>>
  <2>1. /\ UNCHANGED <<queue, pc>>
        /\ \A r \in Query : picked'[r] = IF r = q THEN queue[1] ELSE picked[r]
        /\ Len(queue) \in Nat \ {0}
    BY <1>2, TailLemma DEF TakeQueued, TypeOK
  <2>2. pc[queue[1]] = "queued"
    BY <2>1 DEF QueueInv
  <2>3. \A r \in Query : picked'[r] \in Message => pc[picked'[r]] \notin Fresh
    BY <2>1, <2>2 DEF QueueInv, Fresh
  <2>4. \A r \in Query : \A i \in 1 .. Len(queue) : picked'[r] = queue[i] => i = 1
    BY <2>1 DEF QueueInv
  <2> QED
    BY <2>1, <2>3, <2>4 DEF QueueInv
<1> QED
  BY <1>1, <1>2

\* A query that opens takes its own message and those that wait for it.
LEMMA OpenQueryPlaces ==
  ASSUME TypeOK, NEW m \in Message, OpenQuery(m)
  PROVE  \A n \in Message :
           \/ pc'[n] = pc[n]
           \/ pc[n] \in {"opening", "awaiting"} /\ pc'[n] \in {"given", "opened"}
<1>1. \/ pc' = [n \in Message |-> IF n = m \/ pc[n] = "awaiting" THEN "given" ELSE pc[n]]
      \/ Goto(m, "opened")
  BY DEF OpenQuery
<1>2. pc[m] = "opening"
  BY DEF OpenQuery
<1> QED
  BY <1>1, <1>2 DEF Goto, TypeOK

LEMMA QueueInvStep ==
  ASSUME TypeOK, QueueInv, [Next]_vars
  PROVE  QueueInv'
<1>1. CASE UNCHANGED vars
  BY <1>1, KeepsQueuedLemma DEF vars, message, KeepsQueued
<1>2. ASSUME NEW m \in Message, Send(m) \/ RemoveQueued(m) \/ ChainStep(m)
      PROVE  QueueInv'
  <2>1. CASE RemoveQueued(m)
    BY <2>1, UnqueueLemma DEF RemoveQueued
  <2>2. CASE Enqueue(m)
    BY <2>2, EnqueueLemma
  <2>3. CASE Send(m) \/ QueueIfRunning(m)
    BY <2>3, KeepsQueuedLemma DEF Send, QueueIfRunning, Goto, KeepsQueued, Fresh, TypeOK
  <2>4. CASE OnMessageCreated(m) \/ JoinTurn(m) \/ ClaimTurn(m) \/ Recreate(m)
    <3>1. /\ UNCHANGED <<queue, picked>>
          /\ \A n \in Message : n # m => pc'[n] = pc[n]
          /\ pc[m] \in {"notify", "dispatch", "recreate"} /\ pc'[m] \notin Fresh
      BY <2>4 DEF OnMessageCreated, JoinTurn, ClaimTurn, Recreate, PushedPc, Goto,
         Fresh, TypeOK
    <3> QED
      BY <3>1, KeepsQueuedLemma DEF KeepsQueued
  <2>5. CASE StartQuery(m) \/ FirstPush(m) \/ StartFails(m)
    <3>1. /\ UNCHANGED <<queue, picked>>
          /\ \A n \in Message :
               \/ pc'[n] = pc[n]
               \/ pc[n] # "queued" /\ pc'[n] \notin Fresh
      <4>1. CASE StartQuery(m)
        BY <4>1 DEF StartQuery, PushedPc, Goto, Fresh, TypeOK
      <4>2. CASE FirstPush(m)
        BY <4>2 DEF FirstPush, PushedPc, Goto, Fresh, TypeOK
      <4>3. CASE StartFails(m)
        BY <4>3 DEF StartFails, Fresh, TypeOK
      <4> QED
        BY <2>5, <4>1, <4>2, <4>3
    <3> QED
      BY <3>1, KeepsQueuedLemma DEF KeepsQueued
  <2>6. CASE OpenQuery(m)
    <3>1. UNCHANGED <<queue, picked>>
      BY <2>6 DEF OpenQuery
    <3> QED
      BY <2>6, <3>1, OpenQueryPlaces, KeepsQueuedLemma DEF KeepsQueued, Fresh
  <2> QED
    BY <1>2, <2>1, <2>2, <2>3, <2>4, <2>5, <2>6 DEF ChainStep
<1>3. ASSUME NEW q \in Query, QueryStep(q) \/ AskUser(q) \/ Crashed(q)
      PROVE  QueueInv'
  <2>1. CASE TakeQueued(q)
    BY <2>1, TakeQueuedLemma
  <2>2. CASE FlushQueued(q)
    <3>1. CASE picked[q] \in Range(queue)
      <4>1. Unqueue(picked[q]) /\ Goto(picked[q], "recreate") /\ UNCHANGED picked
        BY <2>2, <3>1 DEF FlushQueued
      <4> QED
        BY <4>1, UnqueueType, UnqueueLemma
    <3>2. CASE picked[q] \notin Range(queue)
      BY <2>2, <3>2, KeepsQueuedLemma DEF FlushQueued, KeepsQueued
    <3> QED
      BY <3>1, <3>2
  <2>3. CASE ~TakeQueued(q) /\ ~FlushQueued(q)
    <3>1. UNCHANGED <<pc, queue, picked>>
      BY <1>3, <2>3 DEF QueryStep, ReadMessage, InitEvent, Result, Aborted, Crashed,
         StreamEnds,
         AskUser, TurnOver, OnTurnComplete, ClearActiveTurn, message
    <3> QED
      BY <3>1, KeepsQueuedLemma DEF KeepsQueued
  <2> QED
    BY <2>1, <2>2, <2>3
<1>4. ASSUME NEW d \in Disposer, Dispose(d) \/ DropActive(d)
      PROVE  QueueInv'
  BY <1>4, KeepsQueuedLemma DEF Dispose, DropActive, message, KeepsQueued
<1>5. CASE StopCalled \/ Stopped
  BY <1>5, KeepsQueuedLemma DEF StopCalled, Stopped, message, KeepsQueued
<1> QED
  BY <1>1, <1>2, <1>3, <1>4, <1>5 DEF Next

LEMMA QueueInvCorrect == Spec => []QueueInv
<1>1. Init => QueueInv
  BY NameAssumption DEF Init, QueueInv
<1>2. TypeOK /\ QueueInv /\ [Next]_vars => QueueInv'
  BY QueueInvStep
<1> QED
  BY <1>1, <1>2, TypeCorrect, PTL DEF Spec

\* However many flushes overlap and whatever the user removes, what is sent is
\* the message that has waited longest (flushNextQueuedTurn).
THEOREM ServedInOrder == Spec => OldestFirst
<1>1. TypeOK /\ QueueInv /\ [Next]_vars =>
        [\A m \in Message :
           pc[m] = "queued" /\ pc'[m] = "recreate" => m = Head(queue)]_vars
  <2> SUFFICES ASSUME TypeOK, QueueInv, Next, NEW m \in Message,
                      pc[m] = "queued", pc'[m] = "recreate"
               PROVE  m = Head(queue)
    OBVIOUS
  <2>1. ASSUME NEW n \in Message, Send(n) \/ RemoveQueued(n) \/ ChainStep(n)
        PROVE  FALSE
    <3>1. CASE Send(n) \/ RemoveQueued(n) \/ QueueIfRunning(n) \/ Enqueue(n)
               \/ OnMessageCreated(n)
      BY <3>1 DEF Send, RemoveQueued, QueueIfRunning, Enqueue, OnMessageCreated, Goto,
         TypeOK
    <3>2. CASE JoinTurn(n) \/ ClaimTurn(n) \/ StartQuery(n) \/ FirstPush(n)
      BY <3>2 DEF JoinTurn, ClaimTurn, StartQuery, FirstPush, PushedPc, Goto, TypeOK
    <3>3. CASE StartFails(n) \/ Recreate(n)
      BY <3>3 DEF StartFails, Recreate, Goto, TypeOK
    <3>4. CASE OpenQuery(n)
      BY <3>4, OpenQueryPlaces
    <3> QED
      BY <2>1, <3>1, <3>2, <3>3, <3>4 DEF ChainStep
  <2>2. PICK q \in Query : FlushQueued(q)
    <3>1. pc' # pc
      OBVIOUS
    <3> QED
      BY <2>1, <3>1 DEF Next, QueryStep, ReadMessage, InitEvent, Result, Aborted,
         Crashed, StreamEnds,
         AskUser, TurnOver, OnTurnComplete, ClearActiveTurn, TakeQueued, message,
         Dispose, DropActive, StopCalled, Stopped
  <2>3. picked[q] = m /\ Unqueue(m)
    BY <2>2, UnqueueType DEF FlushQueued, Goto, TypeOK
  <2>4. PICK i \in 1 .. Len(queue) : queue[i] = m
    BY <2>3 DEF Unqueue
  <2>5. i = 1
    BY <2>3, <2>4 DEF QueueInv
  <2> QED
    BY <2>4, <2>5, TailLemma DEF TypeOK
<1> QED
  BY <1>1, TypeCorrect, QueueInvCorrect, PTL DEF Spec, OldestFirst

-----------------------------------------------------------------------------
(* The inboxes of the queries. *)

\* A message that a query has, or has read, was given to it and to no other.
InboxInv ==
  /\ \A q \in Query : \A i \in 1 .. Len(inbox[q]) :
       pc[inbox[q][i]] = "given" /\ reads[inbox[q][i]] = 0
  /\ \A q, r \in Query : \A i \in 1 .. Len(inbox[q]) : \A j \in 1 .. Len(inbox[r]) :
       inbox[q][i] = inbox[r][j] => q = r /\ i = j
  /\ \A m \in Message : reads[m] # 0 => reads[m] = 1 /\ pc[m] = "given"

LEMMA InboxType ==
  ASSUME TypeOK, NEW q \in Query
  PROVE  /\ inbox[q] \in Seq(Message) /\ Len(inbox[q]) \in Nat
         /\ \A i \in 1 .. Len(inbox[q]) : inbox[q][i] \in Message
  BY ElementOfSeq DEF TypeOK

LEMMA NothingDelivered ==
  ASSUME TypeOK, InboxInv, UNCHANGED <<inbox, reads>>,
         \A m \in Message : pc[m] = "given" => pc'[m] = "given"
  PROVE  InboxInv'
  BY InboxType DEF InboxInv

LEMMA OneDelivered ==
  ASSUME TypeOK, InboxInv, NEW q \in Query, NEW m \in Message, pc[m] # "given",
         Push(q, <<m>>), Goto(m, PushedPc(q)), UNCHANGED reads
  PROVE  InboxInv'
<1>1. \A n \in Message : n # m => pc'[n] = pc[n]
  BY DEF Goto, TypeOK
<1>2. CASE ended[q]
  BY <1>1, <1>2, NothingDelivered DEF Push
<1>3. CASE ~ended[q]
  <2>1. /\ pc'[m] = "given"
        /\ inbox'[q] = inbox[q] \o <<m>>
        /\ \A r \in Query : r # q => inbox'[r] = inbox[r]
    BY <1>3 DEF Push, Goto, PushedPc, TypeOK
  <2>2. /\ Len(inbox'[q]) = Len(inbox[q]) + 1 /\ Len(inbox[q]) \in Nat
        /\ \A i \in 1 .. Len(inbox[q]) : inbox'[q][i] = inbox[q][i]
        /\ inbox'[q][Len(inbox[q]) + 1] = m
    BY <2>1, InboxType
  <2>3. reads[m] = 0
    BY DEF InboxInv
  <2>4. \A r \in Query : \A i \in 1 .. Len(inbox[r]) :
          inbox[r][i] # m /\ inbox[r][i] \in Message
    BY InboxType DEF InboxInv
  <2>5. \A r \in Query : \A i \in 1 .. Len(inbox'[r]) :
          \/ i \in 1 .. Len(inbox[r]) /\ inbox'[r][i] = inbox[r][i]
          \/ r = q /\ i = Len(inbox[q]) + 1 /\ inbox'[r][i] = m
    BY <2>1, <2>2
  <2>6. \A r \in Query : \A i \in 1 .. Len(inbox'[r]) :
          pc'[inbox'[r][i]] = "given" /\ reads'[inbox'[r][i]] = 0
    BY <1>1, <2>1, <2>3, <2>4, <2>5 DEF InboxInv
  <2>7. ASSUME NEW r \in Query, NEW u \in Query,
               NEW i \in 1 .. Len(inbox'[r]), NEW j \in 1 .. Len(inbox'[u]),
               inbox'[r][i] = inbox'[u][j]
        PROVE  r = u /\ i = j
    <3>1. CASE inbox'[r][i] = m
      <4>1. r = q /\ i = Len(inbox[q]) + 1
        BY <2>4, <2>5, <3>1
      <4>2. u = q /\ j = Len(inbox[q]) + 1
        BY <2>4, <2>5, <2>7, <3>1
      <4> QED
        BY <4>1, <4>2
    <3>2. CASE inbox'[r][i] # m
      <4>1. /\ i \in 1 .. Len(inbox[r]) /\ j \in 1 .. Len(inbox[u])
            /\ inbox[r][i] = inbox[u][j]
        BY <2>5, <2>7, <3>2
      <4> QED
        BY <4>1 DEF InboxInv
    <3> QED
      BY <3>1, <3>2
  <2>8. \A n \in Message : reads'[n] # 0 => reads'[n] = 1 /\ pc'[n] = "given"
    BY <1>1, <2>1 DEF InboxInv
  <2> QED
    BY <2>6, <2>7, <2>8 DEF InboxInv
<1> QED
  BY <1>2, <1>3

LEMMA AllDelivered ==
  ASSUME TypeOK, InboxInv, NEW m \in Message, OpenQuery(m)
  PROVE  InboxInv'
<1>1. pc[m] = "opening" /\ UNCHANGED reads
  BY DEF OpenQuery
<1>2. CASE ~snap[m].session
  BY <1>1, <1>2, NothingDelivered, OpenQueryPlaces DEF OpenQuery
<1>3. CASE snap[m].session
  <2>1. PICK others \in SetToSeqs(Awaiting) :
          inbox' = [inbox EXCEPT ![m] = <<m>> \o others]
    BY <1>3 DEF OpenQuery
  <2>2. \A n \in Message :
          pc'[n] = IF n = m \/ pc[n] = "awaiting" THEN "given" ELSE pc[n]
    BY <1>3 DEF OpenQuery
  <2>3. /\ others \in Seq(Message)
        /\ \A i \in 1 .. Len(others) : others[i] \in Awaiting
        /\ \A i, j \in 1 .. Len(others) : others[i] = others[j] => i = j
    BY SetToSeqsLemma, MessageAssumption DEF Awaiting
  <2> DEFINE all == <<m>> \o others
  <2>4. /\ Len(all) = Len(others) + 1 /\ Len(others) \in Nat
        /\ all[1] = m
        /\ \A i \in 1 .. Len(all) : i # 1 => i - 1 \in 1 .. Len(others) /\ all[i] = others[i - 1]
    BY <2>3
  <2>5. /\ inbox'[m] = all
        /\ \A r \in Query : r # m => inbox'[r] = inbox[r]
    BY <2>1 DEF TypeOK, Query
  <2> HIDE DEF all
  <2>6. \A i \in 1 .. Len(all) : /\ all[i] \in Message /\ pc[all[i]] # "given"
                                 /\ pc'[all[i]] = "given"
    <3> TAKE i \in 1 .. Len(all)
    <3>1. CASE i = 1
      BY <1>1, <2>2, <2>4, <3>1
    <3>2. CASE i # 1
      <4>1. all[i] \in Awaiting
        BY <2>3, <2>4, <3>2
      <4> QED
        BY <2>2, <4>1 DEF Awaiting
    <3> QED
      BY <3>1, <3>2
  <2>7. \A i, j \in 1 .. Len(all) : all[i] = all[j] => i = j
    <3> TAKE i, j \in 1 .. Len(all)
    <3> HAVE all[i] = all[j]
    <3>1. \A k \in 1 .. Len(all) : k # 1 => all[k] # m
      BY <1>1, <2>3, <2>4 DEF Awaiting
    <3>2. CASE i = 1 \/ j = 1
      BY <2>4, <3>1, <3>2
    <3>3. CASE i # 1 /\ j # 1
      <4>1. i - 1 = j - 1
        BY <2>3, <2>4, <3>3
      <4> QED
        BY <2>4, <4>1
    <3> QED
      BY <3>2, <3>3
  <2>8. \A r \in Query : \A i \in 1 .. Len(inbox[r]) :
          /\ inbox[r][i] \in Message /\ pc[inbox[r][i]] = "given"
          /\ pc'[inbox[r][i]] = "given" /\ reads[inbox[r][i]] = 0
    BY <1>1, <2>2, InboxType DEF InboxInv
  <2>9. \A i \in 1 .. Len(all) : reads[all[i]] = 0
    BY <2>6 DEF InboxInv
  <2>10. \A r \in Query : \A i \in 1 .. Len(inbox'[r]) :
           pc'[inbox'[r][i]] = "given" /\ reads'[inbox'[r][i]] = 0
    BY <1>1, <2>5, <2>6, <2>8, <2>9
  <2>11. ASSUME NEW r \in Query, NEW u \in Query,
                NEW i \in 1 .. Len(inbox'[r]), NEW j \in 1 .. Len(inbox'[u]),
                inbox'[r][i] = inbox'[u][j]
         PROVE  r = u /\ i = j
    <3>1. CASE r = m /\ u = m
      BY <2>5, <2>7, <2>11, <3>1
    <3>2. CASE r # m /\ u # m
      BY <2>5, <2>11, <3>2 DEF InboxInv
    <3>3. CASE r = m /\ u # m
      BY <2>5, <2>6, <2>8, <2>11, <3>3
    <3>4. CASE r # m /\ u = m
      BY <2>5, <2>6, <2>8, <2>11, <3>4
    <3> QED
      BY <3>1, <3>2, <3>3, <3>4
  <2>12. \A n \in Message : reads'[n] # 0 => reads'[n] = 1 /\ pc'[n] = "given"
    BY <1>1, <2>2 DEF InboxInv
  <2> QED
    BY <2>10, <2>11, <2>12 DEF InboxInv
<1> QED
  BY <1>2, <1>3

LEMMA OneRead ==
  ASSUME TypeOK, InboxInv, NEW q \in Query, ReadMessage(q)
  PROVE  InboxInv'
<1>1. /\ UNCHANGED pc /\ inbox[q] # <<>>
      /\ inbox'[q] = Tail(inbox[q])
      /\ \A r \in Query : r # q => inbox'[r] = inbox[r]
  BY DEF ReadMessage, TypeOK
<1>2. /\ Len(inbox'[q]) = Len(inbox[q]) - 1 /\ Len(inbox[q]) \in Nat \ {0}
      /\ Head(inbox[q]) = inbox[q][1] /\ Head(inbox[q]) \in Message
      /\ \A i \in 1 .. Len(inbox'[q]) : inbox'[q][i] = inbox[q][i + 1]
  BY <1>1, InboxType, TailLemma
<1>3. \A n \in Message :
        reads'[n] = IF n = inbox[q][1] THEN reads[n] + 1 ELSE reads[n]
  BY <1>2 DEF ReadMessage, TypeOK
<1>4. pc[inbox[q][1]] = "given" /\ reads[inbox[q][1]] = 0
  BY <1>2 DEF InboxInv
<1>5. \A r \in Query : \A i \in 1 .. Len(inbox'[r]) :
        \E k \in 1 .. Len(inbox[r]) :
          /\ inbox'[r][i] = inbox[r][k]
          /\ k = (IF r = q THEN i + 1 ELSE i)
  <2> TAKE r \in Query
  <2> TAKE i \in 1 .. Len(inbox'[r])
  <2>1. CASE r = q
    <3>1. i \in 1 .. Len(inbox'[q]) /\ i + 1 \in 1 .. Len(inbox[q])
      BY <1>2, <2>1
    <3>2. inbox'[q][i] = inbox[q][i + 1]
      BY <1>2, <3>1
    <3> QED
      BY <2>1, <3>1, <3>2
  <2>2. CASE r # q
    <3>1. inbox'[r] = inbox[r]
      BY <1>1, <2>2
    <3> QED
      BY <2>2, <3>1
  <2> QED
    BY <2>1, <2>2
<1>6. ASSUME NEW r \in Query, NEW i \in 1 .. Len(inbox'[r])
      PROVE  pc'[inbox'[r][i]] = "given" /\ reads'[inbox'[r][i]] = 0
  <2>1. PICK k \in 1 .. Len(inbox[r]) :
          inbox'[r][i] = inbox[r][k] /\ k = (IF r = q THEN i + 1 ELSE i)
    BY <1>5
  <2>2. inbox[r][k] # inbox[q][1]
    <3>1. r = q => k # 1
      BY <1>1, <1>2, <2>1
    <3> QED
      BY <1>2, <3>1 DEF InboxInv
  <2>3. pc[inbox[r][k]] = "given" /\ reads[inbox[r][k]] = 0 /\ inbox[r][k] \in Message
    BY InboxType DEF InboxInv
  <2> QED
    BY <1>1, <1>3, <2>1, <2>2, <2>3
<1>7. ASSUME NEW r \in Query, NEW u \in Query,
             NEW i \in 1 .. Len(inbox'[r]), NEW j \in 1 .. Len(inbox'[u]),
             inbox'[r][i] = inbox'[u][j]
      PROVE  r = u /\ i = j
  <2>1. PICK k \in 1 .. Len(inbox[r]) :
          inbox'[r][i] = inbox[r][k] /\ k = (IF r = q THEN i + 1 ELSE i)
    BY <1>5
  <2>2. PICK l \in 1 .. Len(inbox[u]) :
          inbox'[u][j] = inbox[u][l] /\ l = (IF u = q THEN j + 1 ELSE j)
    BY <1>5
  <2>3. inbox[r][k] = inbox[u][l]
    BY <1>7, <2>1, <2>2
  <2>4. \A s, t \in Query : \A a \in 1 .. Len(inbox[s]) : \A b \in 1 .. Len(inbox[t]) :
          inbox[s][a] = inbox[t][b] => s = t /\ a = b
    BY DEF InboxInv
  <2>5. r = u /\ k = l
    BY <2>3, <2>4
  <2> QED
    BY <1>1, <1>2, <2>1, <2>2, <2>5
<1>8. \A n \in Message : reads'[n] # 0 => reads'[n] = 1 /\ pc'[n] = "given"
  BY <1>1, <1>2, <1>3, <1>4 DEF InboxInv
<1> QED
  BY <1>6, <1>7, <1>8 DEF InboxInv

LEMMA InboxInvStep ==
  ASSUME TypeOK, QueueInv, InboxInv, [Next]_vars
  PROVE  InboxInv'
<1>1. ASSUME NEW m \in Message, Unqueue(m), NEW label, Goto(m, label)
      PROVE  \A n \in Message : pc[n] = "given" => pc'[n] = "given"
  BY <1>1 DEF Unqueue, QueueInv, Goto, TypeOK
<1>2. CASE UNCHANGED vars
  BY <1>2, NothingDelivered DEF vars, message, query
<1>3. ASSUME NEW m \in Message, Send(m) \/ RemoveQueued(m) \/ ChainStep(m)
      PROVE  InboxInv'
  <2>1. CASE RemoveQueued(m)
    BY <1>1, <2>1, NothingDelivered DEF RemoveQueued, query
  <2>2. CASE Send(m) \/ QueueIfRunning(m) \/ Enqueue(m)
    BY <2>2, NothingDelivered DEF Send, QueueIfRunning, Enqueue, Goto, query, TypeOK
  <2>3. CASE OnMessageCreated(m) \/ ClaimTurn(m) \/ StartFails(m) \/ Recreate(m)
    BY <2>3, NothingDelivered DEF OnMessageCreated, ClaimTurn, StartFails, Recreate,
       Goto,
       query, TypeOK
  <2>4. CASE JoinTurn(m)
    <3>1. pc[m] = "dispatch" /\ UNCHANGED reads /\ active \in Query
      BY <2>4 DEF JoinTurn, TypeOK
    <3>2. \/ Goto(m, "rejected") /\ UNCHANGED inbox
          \/ Push(active, <<m>>) /\ Goto(m, PushedPc(active))
      BY <2>4 DEF JoinTurn
    <3>3. CASE Goto(m, "rejected") /\ UNCHANGED inbox
      BY <3>1, <3>3, NothingDelivered DEF Goto, TypeOK
    <3> QED
      BY <3>1, <3>2, <3>3, OneDelivered
  <2>5. CASE StartQuery(m)
    <3>1. pc[m] = "claimed" /\ UNCHANGED reads /\ (active # None => active \in Query)
      BY <2>5 DEF StartQuery, TypeOK
    <3>2. \/ (Goto(m, "awaiting") \/ Goto(m, "opening")) /\ UNCHANGED inbox
          \/ active # None /\ Push(active, <<m>>) /\ Goto(m, PushedPc(active))
      BY <2>5 DEF StartQuery
    <3>3. CASE (Goto(m, "awaiting") \/ Goto(m, "opening")) /\ UNCHANGED inbox
      BY <3>1, <3>3, NothingDelivered DEF Goto, TypeOK
    <3> QED
      BY <3>1, <3>2, <3>3, OneDelivered
  <2>6. CASE FirstPush(m)
    BY <2>6, OneDelivered DEF FirstPush, Query
  <2>7. CASE OpenQuery(m)
    BY <2>7, AllDelivered
  <2> QED
    BY <1>3, <2>1, <2>2, <2>3, <2>4, <2>5, <2>6, <2>7 DEF ChainStep
<1>4. ASSUME NEW q \in Query, QueryStep(q) \/ AskUser(q) \/ Crashed(q)
      PROVE  InboxInv'
  <2>1. CASE ReadMessage(q)
    BY <2>1, OneRead
  <2>2. CASE FlushQueued(q)
    <3>1. UNCHANGED <<inbox, reads>>
      BY <2>2 DEF FlushQueued, Consumer
    <3>2. \/ Unqueue(picked[q]) /\ Goto(picked[q], "recreate")
          \/ UNCHANGED pc
      BY <2>2 DEF FlushQueued
    <3>3. CASE Unqueue(picked[q]) /\ Goto(picked[q], "recreate")
      BY <1>1, <3>1, <3>3, UnqueueType, NothingDelivered
    <3> QED
      BY <3>1, <3>2, <3>3, NothingDelivered
  <2>3. CASE ~ReadMessage(q) /\ ~FlushQueued(q)
    <3>1. UNCHANGED <<pc, inbox, reads>>
      BY <1>4, <2>3 DEF QueryStep, InitEvent, Result, Aborted, Crashed, StreamEnds,
         AskUser, TurnOver,
         OnTurnComplete, ClearActiveTurn, TakeQueued, Consumer, message
    <3> QED
      BY <3>1, NothingDelivered
  <2> QED
    BY <2>1, <2>2, <2>3
<1>5. ASSUME NEW d \in Disposer, Dispose(d) \/ DropActive(d)
      PROVE  InboxInv'
  BY <1>5, NothingDelivered DEF Dispose, DropActive, message, query
<1>6. CASE StopCalled \/ Stopped
  BY <1>6, NothingDelivered DEF StopCalled, Stopped, message, query
<1> QED
  BY <1>2, <1>3, <1>4, <1>5, <1>6 DEF Next

LEMMA InboxInvCorrect == Spec => []InboxInv
<1>1. Init => InboxInv
  BY DEF Init, InboxInv
<1>2. TypeOK /\ QueueInv /\ InboxInv /\ [Next]_vars => InboxInv'
  BY InboxInvStep
<1> QED
  BY <1>1, <1>2, TypeCorrect, QueueInvCorrect, PTL DEF Spec

\* Whatever overlaps, no two queries read the same message, and none reads it
\* twice: the queue, a resumption and a dispatch hand it on exactly once.
THEOREM MessageReadOnce == Spec => []ReadOnce
<1>1. InboxInv => ReadOnce
  BY DEF InboxInv, ReadOnce
<1> QED
  BY <1>1, InboxInvCorrect, PTL

-----------------------------------------------------------------------------
(* Where starting a query does not fail, an agent at rest does not claim to  *)
(* be running.                                                               *)

\* A chain that is on its way to a query, and a query whose turn is not over.
Working(m) == pc[m] \in {"dispatch", "claimed", "opening", "awaiting"}
Alive(q)   == consumer[q] \in {"open", "begun", "reading", "disposing"}

\* Somebody is responsible for the status 'running'.
Attended ==
  status = "running" => (\E m \in Message : Working(m)) \/ (\E q \in Query : Alive(q))

\* The query that is stored, which a message may be pushed into, is one whose
\* turn is not over: its dispose has not let go of it.
StoredAlive ==
  \A q \in Query : active = q =>
    Alive(q) /\ (consumer[q] = "disposing" => disposer[q] \in {"called", "finishing"})

\* A query disposes of itself once, and is opened once, by its own message.
OpenedOnce ==
  \A q \in Query :
    /\ consumer[q] \in {"none", "open", "begun", "reading"} => disposer[q] = "off"
    /\ consumer[q] # "none" => pc[q] \in {"opened", "given", "dropped"}

RestInv == Attended /\ StoredAlive /\ OpenedOnce

-----------------------------------------------------------------------------
(* Chains. *)

\* No step of a chain but the opening of a query touches the queries.
LEMMA QueriesUntouched ==
  ASSUME TypeOK, RestInv, UNCHANGED <<active, consumer, disposer>>,
         \A n \in Message : pc[n] \in {"opened", "given", "dropped"}
                              => pc'[n] \in {"opened", "given", "dropped"}
  PROVE  StoredAlive' /\ OpenedOnce'
  BY DEF RestInv, StoredAlive, OpenedOnce, Alive, Query

\* A query that is stored attends to the agent.
LEMMA StoredAttends ==
  ASSUME TypeOK, RestInv, active # None, UNCHANGED consumer
  PROVE  Attended'
<1>1. active \in Query /\ Alive(active)
  BY DEF TypeOK, RestInv, StoredAlive
<1> QED
  BY <1>1 DEF Attended, Alive

\* A query that opens attends to the agent, and was never open before.
LEMMA OpenAttends ==
  ASSUME TypeOK, RestInv, NEW m \in Message, OpenQuery(m)
  PROVE  RestInv'
<1>1. /\ pc[m] = "opening" /\ active' = m /\ m \in Query /\ UNCHANGED disposer
      /\ \A q \in Query : consumer'[q] = IF q = m THEN "open" ELSE consumer[q]
  BY DEF OpenQuery, TypeOK, Query, cleanup
<1>2. consumer[m] = "none" /\ disposer[m] = "off"
  BY <1>1 DEF RestInv, OpenedOnce
<1>3. \A n \in Message :
        \/ pc'[n] = pc[n]
        \/ pc[n] \in {"opening", "awaiting"} /\ pc'[n] \in {"given", "opened"}
  BY OpenQueryPlaces
<1>4. pc'[m] \in {"given", "opened"}
  BY <1>1 DEF OpenQuery, Goto, TypeOK
<1>5. Attended'
  BY <1>1 DEF Attended, Alive
<1>6. StoredAlive'
  BY <1>1 DEF StoredAlive, Alive
<1>7. OpenedOnce'
  BY <1>1, <1>2, <1>3, <1>4 DEF RestInv, OpenedOnce, Query
<1> QED
  BY <1>5, <1>6, <1>7 DEF RestInv

\* A message that is not queued any more was not on its way.
LEMMA UnqueueAttends ==
  ASSUME TypeOK, QueueInv, RestInv, UNCHANGED <<status, active, consumer, disposer>>,
         NEW m \in Message, Unqueue(m), NEW label, Goto(m, label)
  PROVE  Attended'
  BY DEF Unqueue, QueueInv, Goto, TypeOK, RestInv, Attended, Working, Alive

\* A consumer goes on reading, or goes on after its turn.
LEMMA ConsumerAttends ==
  ASSUME TypeOK, RestInv, UNCHANGED <<pc, active, disposer>>,
         status' = status \/ status' # "running",
         NEW q \in Query, NEW label,
         consumer' = [consumer EXCEPT ![q] = label],
         \/ Alive(q) /\ label \in {"open", "begun", "reading"} /\ consumer[q] # "disposing"
         \/ ~Alive(q) /\ consumer[q] # "none" /\ label \notin {"none", "open", "begun", "reading", "disposing"}
  PROVE  RestInv'
<1>1. \A r \in Query : consumer'[r] = IF r = q THEN label ELSE consumer[r]
  BY DEF TypeOK
<1>2. Attended'
  BY <1>1 DEF RestInv, Attended, Working, Alive
<1>3. StoredAlive'
  BY <1>1 DEF RestInv, StoredAlive, Alive
<1>4. OpenedOnce'
  BY <1>1 DEF RestInv, OpenedOnce, Alive
<1> QED
  BY <1>2, <1>3, <1>4 DEF RestInv

LEMMA ChainAttends ==
  ASSUME ~MayFail, TypeOK, QueueInv, RestInv, NEW m \in Message,
         Send(m) \/ RemoveQueued(m) \/ ChainStep(m)
  PROVE  RestInv'
<1>1. CASE Send(m) \/ QueueIfRunning(m) \/ Enqueue(m) \/ Recreate(m)
  <2>1. /\ UNCHANGED <<status, active, consumer, disposer>>
        /\ ~Working(m) /\ pc[m] \notin {"opened", "given", "dropped"}
        /\ \A n \in Message : n # m => pc'[n] = pc[n]
    BY <1>1 DEF Send, QueueIfRunning, Enqueue, Recreate, Goto, Working, TypeOK, agent,
       query,
       cleanup
  <2>2. Attended'
    BY <2>1 DEF RestInv, Attended, Working, Alive
  <2> QED
    BY <2>1, <2>2, QueriesUntouched DEF RestInv
<1>2. CASE RemoveQueued(m)
  <2>1. /\ UNCHANGED <<status, active, consumer, disposer>>
        /\ Unqueue(m) /\ Goto(m, "removed")
    BY <1>2 DEF RemoveQueued, agent, query, cleanup
  <2>2. \A n \in Message : pc[n] \in {"opened", "given", "dropped"} => pc'[n] = pc[n]
    BY <2>1 DEF Unqueue, QueueInv, Goto, TypeOK
  <2> QED
    BY <2>1, <2>2, UnqueueAttends, QueriesUntouched DEF RestInv
<1>3. CASE OnMessageCreated(m) \/ ClaimTurn(m)
  <2>1. /\ UNCHANGED <<active, consumer, disposer>>
        /\ pc[m] \notin {"opened", "given", "dropped"} /\ pc'[m] \in {"dispatch", "claimed"}
        /\ \A n \in Message : n # m => pc'[n] = pc[n]
    BY <1>3 DEF OnMessageCreated, ClaimTurn, Goto, TypeOK, query, cleanup
  <2>2. Attended'
    BY <2>1 DEF Attended, Working
  <2> QED
    BY <2>1, <2>2, QueriesUntouched DEF RestInv
<1>4. CASE JoinTurn(m)
  <2>1. /\ UNCHANGED <<active, consumer, disposer>> /\ active # None
        /\ pc[m] = "dispatch" /\ \A n \in Message : n # m => pc'[n] = pc[n]
    BY <1>4 DEF JoinTurn, Goto, TypeOK, cleanup
  <2> QED
    BY <2>1, StoredAttends, QueriesUntouched DEF RestInv
<1>5. CASE StartQuery(m)
  <2>1. /\ UNCHANGED <<active, consumer, disposer>>
        /\ pc[m] = "claimed" /\ \A n \in Message : n # m => pc'[n] = pc[n]
        /\ active # None \/ pc'[m] \in {"awaiting", "opening"}
    BY <1>5 DEF StartQuery, Goto, TypeOK, cleanup
  <2>2. Attended'
    BY <2>1, StoredAttends DEF Attended, Working
  <2> QED
    BY <2>1, <2>2, QueriesUntouched DEF RestInv
<1>6. CASE OpenQuery(m)
  BY <1>6, OpenAttends
<1>7. CASE FirstPush(m)
  <2>1. /\ UNCHANGED <<status, active, consumer, disposer>>
        /\ pc[m] = "opened" /\ pc'[m] \in {"given", "dropped"}
        /\ \A n \in Message : n # m => pc'[n] = pc[n]
    BY <1>7 DEF FirstPush, PushedPc, Goto, TypeOK, agent, cleanup
  <2>2. Attended'
    BY <2>1 DEF RestInv, Attended, Working, Alive
  <2> QED
    BY <2>1, <2>2, QueriesUntouched DEF RestInv
<1> QED
  BY <1>1, <1>2, <1>3, <1>4, <1>5, <1>6, <1>7 DEF ChainStep, StartFails

-----------------------------------------------------------------------------
(* Queries and their dispose. *)

LEMMA StreamEndAttends ==
  ASSUME TypeOK, RestInv, NEW q \in Query, consumer[q] \in {"open", "begun", "reading"},
         NEW verdict, StreamEnds(q, verdict)
  PROVE  RestInv'
<1>1. /\ UNCHANGED <<pc, status, active>>
      /\ \A r \in Query : consumer'[r] = IF r = q THEN "disposing" ELSE consumer[r]
      /\ \A r \in Query : disposer'[r] = IF r = q THEN "called" ELSE disposer[r]
  BY DEF StreamEnds, message, agent, TypeOK, Disposer
<1>2. Attended'
  BY <1>1 DEF RestInv, Attended, Working, Alive
<1>3. StoredAlive'
  BY <1>1 DEF RestInv, StoredAlive, Alive
<1>4. OpenedOnce'
  BY <1>1 DEF RestInv, OpenedOnce
<1> QED
  BY <1>2, <1>3, <1>4 DEF RestInv

\* When the turn of a query ends, the query is not the one that is stored.
LEMMA TurnOverAttends ==
  ASSUME TypeOK, RestInv, NEW q \in Query, TurnOver(q)
  PROVE  RestInv'
<1>1. disposer[q] = "closed"
  BY DEF TurnOver
<1>2. active # q /\ consumer[q] \notin {"none", "open", "begun", "reading"}
  BY <1>1 DEF RestInv, StoredAlive, OpenedOnce, Alive
<1>3. /\ UNCHANGED <<pc, active>>
      /\ \A r \in Query : r # q => consumer'[r] = consumer[r] /\ disposer'[r] = disposer[r]
      /\ consumer'[q] \in {"complete", "done"}
  BY DEF TurnOver, message, TypeOK
<1>4. status' # "running"
  <2>1. outcome[q] # "running" /\ status' \in {"approval", outcome[q]}
    BY DEF TurnOver, TypeOK, None
  <2> QED
    BY <2>1
<1>5. Attended'
  BY <1>4 DEF Attended
<1>6. StoredAlive'
  BY <1>2, <1>3 DEF RestInv, StoredAlive, Alive
<1>7. OpenedOnce'
  BY <1>2, <1>3 DEF RestInv, OpenedOnce
<1> QED
  BY <1>5, <1>6, <1>7 DEF RestInv

LEMMA QueryAttends ==
  ASSUME TypeOK, QueueInv, RestInv, NEW q \in Query,
         QueryStep(q) \/ AskUser(q) \/ Crashed(q)
  PROVE  RestInv'
<1>1. CASE ReadMessage(q)
  BY <1>1, ConsumerAttends DEF ReadMessage, Runs, Alive, agent, cleanup
<1>7. CASE InitEvent(q)
  BY <1>7, ConsumerAttends DEF InitEvent, Alive, message, cleanup
<1>2. CASE AskUser(q)
  BY <1>2, QueriesUntouched DEF AskUser, message, cleanup, Attended, RestInv
<1>3. CASE Result(q) \/ Crashed(q) \/ Aborted(q)
  <2>1. /\ consumer[q] \in {"open", "begun", "reading"}
        /\ \E verdict \in Outcome \cup {"failed", "stopped"} : StreamEnds(q, verdict)
    BY <1>3 DEF Result, Crashed, Aborted, Runs
  <2> QED
    BY <2>1, StreamEndAttends
<1>4. CASE TurnOver(q)
  BY <1>4, TurnOverAttends
<1>5. CASE OnTurnComplete(q) \/ ClearActiveTurn(q) \/ TakeQueued(q)
  BY <1>5, ConsumerAttends DEF OnTurnComplete, ClearActiveTurn, TakeQueued, Consumer,
     Alive, cleanup
<1>6. CASE FlushQueued(q)
  <2>1. /\ UNCHANGED <<status, active, disposer>>
        /\ consumer[q] = "remove" /\ consumer' = [consumer EXCEPT ![q] = "done"]
    BY <1>6 DEF FlushQueued, Consumer, cleanup
  <2>2. \A n \in Message : pc'[n] = pc[n] \/ (pc[n] = "queued" /\ pc'[n] = "recreate")
    <3>1. \/ Unqueue(picked[q]) /\ Goto(picked[q], "recreate")
          \/ UNCHANGED pc
      BY <1>6 DEF FlushQueued
    <3> QED
      BY <3>1 DEF Unqueue, QueueInv, Goto, TypeOK
  <2>3. \A r \in Query : consumer'[r] = IF r = q THEN "done" ELSE consumer[r]
    BY <2>1 DEF TypeOK
  <2>4. Attended'
    BY <2>1, <2>2, <2>3 DEF RestInv, Attended, Working, Alive
  <2>5. StoredAlive'
    BY <2>1, <2>3 DEF RestInv, StoredAlive, Alive
  <2>6. OpenedOnce'
    BY <2>1, <2>2, <2>3 DEF RestInv, OpenedOnce, Query
  <2> QED
    BY <2>4, <2>5, <2>6 DEF RestInv
<1> QED
  BY <1>1, <1>2, <1>3, <1>4, <1>5, <1>6, <1>7 DEF QueryStep

LEMMA DisposeAttends ==
  ASSUME TypeOK, RestInv, NEW d \in Disposer, Dispose(d) \/ DropActive(d)
  PROVE  RestInv'
<1>1. /\ UNCHANGED <<pc, status, consumer>>
      /\ active' = active \/ active' = None
      /\ disposer[d] \in {"called", "finishing"}
      /\ \A q \in Query : q # d => disposer'[q] = disposer[q]
      /\ active' # None => disposer'[d] \in {"called", "finishing"}
  <2>1. CASE Dispose(d)
    BY <2>1 DEF Dispose, message, agent, query, TypeOK
  <2>2. CASE DropActive(d)
    BY <2>2 DEF DropActive, message, agent, TypeOK
  <2> QED
    BY <2>1, <2>2
<1>2. Attended'
  BY <1>1 DEF RestInv, Attended, Working, Alive
<1>3. StoredAlive'
  BY <1>1, NameAssumption DEF RestInv, StoredAlive, Alive, Query
<1>4. OpenedOnce'
  BY <1>1 DEF RestInv, OpenedOnce
<1> QED
  BY <1>2, <1>3, <1>4 DEF RestInv

LEMMA StopAttends ==
  ASSUME TypeOK, RestInv, StopCalled \/ Stopped
  PROVE  RestInv'
<1>1. /\ UNCHANGED <<pc, active, consumer>>
      /\ status' = status \/ status' = "stopped"
      /\ \A q \in Query : disposer'[q] = disposer[q]
  BY NameAssumption DEF StopCalled, Stopped, message, agent, query, TypeOK, Query,
     Disposer
<1>2. Attended'
  BY <1>1 DEF RestInv, Attended, Working, Alive
<1> QED
  BY <1>1, <1>2 DEF RestInv, StoredAlive, OpenedOnce, Alive

-----------------------------------------------------------------------------
LEMMA RestInvCorrect ==
  ASSUME ~MayFail
  PROVE  Spec => []RestInv
<1>1. Init => RestInv
  BY NameAssumption DEF Init, RestInv, Attended, StoredAlive, OpenedOnce, Query,
     Disposer
<1>2. TypeOK /\ QueueInv /\ RestInv /\ [Next]_vars => RestInv'
  <2> SUFFICES ASSUME TypeOK, QueueInv, RestInv, [Next]_vars
               PROVE  RestInv'
    OBVIOUS
  <2>1. CASE UNCHANGED vars
    BY <2>1, QueriesUntouched DEF vars, message, agent, query, cleanup, RestInv,
       Attended,
       Working, Alive
  <2> QED
    BY <2>1, ChainAttends, QueryAttends, DisposeAttends, StopAttends DEF Next
<1> QED
  BY <1>1, <1>2, TypeCorrect, QueueInvCorrect, PTL DEF Spec

\* Where starting a query does not throw, nothing leaves an agent 'running' with
\* nobody at work for it, whatever turns, flushes, aborts and stops overlap.
THEOREM RestIsNotRunning ==
  ASSUME ~MayFail
  PROVE  Spec => []IdleNotRunning
<1>1. RestInv => IdleNotRunning
  BY DEF RestInv, Attended, Working, Alive, IdleNotRunning, Quiescent, Settled
<1> QED
  BY <1>1, RestInvCorrect, PTL

=============================================================================
