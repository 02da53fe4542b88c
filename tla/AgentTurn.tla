------------------------------- MODULE AgentTurn -------------------------------
(***************************************************************************)
(* User messages and turns of one builder agent on the Claude SDK, from    *)
(* the create hooks of the messages service to the SDK query and back to   *)
(* the queue: messages.service, turn-assignment, queued-messages.service,  *)
(* sessions.service (onMessageCreated, onTurnComplete) and                 *)
(* claude-agent.service.                                                   *)
(*                                                                         *)
(* Each message is carried by one asynchronous call chain, each query by   *)
(* its consumer (processMessages), and a stop by a third kind of chain; a  *)
(* step runs from one await to the next.  What a chain reads from the      *)
(* database is current when it goes on, what it writes is there when it    *)
(* awaits the write.  Hooks and reads that touch none of the state below   *)
(* are part of the step before them.                                       *)
(***************************************************************************)
EXTENDS Naturals, Sequences, FiniteSets, SequencesExt

CONSTANTS
  Message,     \* user messages that will be sent
  Forced,      \* sent with force: they steer a running turn
  Primary,     \* the agent is the session's primary builder
  Outcome,     \* what an SDK result can be: completed, failed
  MayFail,     \* starting a query can throw (no such config, no credentials)
  MayStop      \* the user may stop the agent (once)

ASSUME MessageAssumption == IsFiniteSet(Message) /\ Forced \subseteq Message
ASSUME OutcomeAssumption == Outcome \subseteq {"completed", "failed"}
ASSUME FlagAssumption == {Primary, MayFail, MayStop} \subseteq BOOLEAN

None == "none"
Stop == "stop"
ASSUME NameAssumption == {None, Stop} \cap Message = {}

\* A query is named by the message whose chain opened it.
Query    == Message
Disposer == Query \cup {Stop}     \* the callers of _disposeActiveSession

Status == {"idle", "running", "completed", "failed", "stopped", "approval"}

VARIABLES
  status,      \* agents.status
  activeTurn,  \* agents.active_turn_id, 0 for null
  lastTurn,    \* agents.current_turn_id
  hasSession,  \* agents.claude_session_id is set
  queue,       \* queued_messages of kind turn, oldest first
  pc, turn,    \* per message: where its chain is, its turn id
  snap,        \* per message: the agent row its dispatch has read
  reads,       \* per message: how often a query has read it
  active,      \* _activeSessions: the query stored for the agent, or None
  resuming,    \* _resumePromises: whose chain resumes a query, or None
  consumer,    \* per query: where its consumer is
  inbox,       \* per query: what was pushed and not read yet
  ended,       \* per query: channel ended and query aborted
  asked,       \* per query: endTurnAwaitingUser
  outcome,     \* per query
  disposer, target,  \* _disposeActiveSession: where it is, for which query
  picked       \* per query: the queued message its flush has read

message == <<pc, turn, snap, reads>>
agent   == <<status, activeTurn, lastTurn, hasSession>>
query   == <<active, resuming, consumer, inbox, ended, asked, outcome>>
cleanup == <<disposer, target>>
vars    == <<message, agent, queue, query, cleanup, picked>>

MessagePc == {"unsent", "check", "enqueue", "queued", "removed", "recreate",
              "notify", "dispatch", "claimed", "opening", "awaiting", "opened",
              "given", "dropped", "rejected", "failed"}
ConsumerPc == {"none", "open", "begun", "reading", "disposing", "complete", "flush",
               "take", "remove", "done"}
DisposerPc == {"off", "called", "finishing", "closed", "done"}

TypeOK ==
  /\ status \in Status
  /\ activeTurn \in 0 .. lastTurn /\ lastTurn \in Nat
  /\ hasSession \in BOOLEAN
  /\ queue \in Seq(Message)
  /\ pc \in [Message -> MessagePc]
  /\ turn \in [Message -> 0 .. lastTurn]
  /\ snap \in [Message -> [running : BOOLEAN, session : BOOLEAN]]
  /\ reads \in [Message -> Nat]
  /\ active \in Query \cup {None} /\ resuming \in Message \cup {None}
  /\ consumer \in [Query -> ConsumerPc]
  /\ inbox \in [Query -> Seq(Message)]
  /\ ended \in [Query -> BOOLEAN] /\ asked \in [Query -> BOOLEAN]
  /\ outcome \in [Query -> {None, "completed", "failed", "stopped"}]
  /\ disposer \in [Disposer -> DisposerPc]
  /\ target \in [Disposer -> Query \cup {None}]
  /\ picked \in [Query -> Message \cup {None}]

Init ==
  /\ status = "idle" /\ activeTurn = 0 /\ lastTurn = 0 /\ hasSession = FALSE
  /\ queue = <<>>
  /\ pc = [m \in Message |-> "unsent"] /\ turn = [m \in Message |-> 0]
  /\ snap = [m \in Message |-> [running |-> FALSE, session |-> FALSE]]
  /\ reads = [m \in Message |-> 0]
  /\ active = None /\ resuming = None
  /\ consumer = [q \in Query |-> "none"] /\ inbox = [q \in Query |-> <<>>]
  /\ ended = [q \in Query |-> FALSE] /\ asked = [q \in Query |-> FALSE]
  /\ outcome = [q \in Query |-> None]
  /\ disposer = [d \in Disposer |-> "off"]
  /\ target = [d \in Disposer |-> None]
  /\ picked = [q \in Query |-> None]

-----------------------------------------------------------------------------
(* messages.create *)

Goto(m, label) == pc' = [pc EXCEPT ![m] = label]

\* Mutant: the next turn id is computed from the turn in progress.
AssignTurnStale(m, force) ==
  IF force /\ status = "running" /\ activeTurn # 0
  THEN turn' = [turn EXCEPT ![m] = activeTurn] /\ UNCHANGED lastTurn
  ELSE /\ turn' = [turn EXCEPT ![m] = activeTurn + 1]
       /\ lastTurn' = IF lastTurn < activeTurn + 1 THEN activeTurn + 1 ELSE lastTurn

\* Mutant: the incremented id is used but not stored.
AssignTurnUnstored(m, force) ==
  IF force /\ status = "running" /\ activeTurn # 0
  THEN turn' = [turn EXCEPT ![m] = activeTurn] /\ UNCHANGED lastTurn
  ELSE /\ turn' = [turn EXCEPT ![m] = lastTurn + 1]
       /\ UNCHANGED lastTurn

\* assignTurn: steering joins the turn in progress, anything else gets the
\* next id, in one UPDATE.
AssignTurn(m, force) ==
  IF force /\ status = "running" /\ activeTurn # 0
  THEN turn' = [turn EXCEPT ![m] = activeTurn] /\ UNCHANGED lastTurn
  ELSE /\ turn' = [turn EXCEPT ![m] = lastTurn + 1]
       /\ lastTurn' = lastTurn + 1

\* A message arrives over REST, or runDue has claimed it and creates it as if
\* it had.
Send(m) ==
  /\ pc[m] = "unsent"
  /\ AssignTurn(m, m \in Forced)
  /\ Goto(m, "check")
  /\ UNCHANGED <<snap, reads, status, activeTurn, hasSession, queue, query,
                 cleanup, picked>>

\* queueIfRunning, and the insert of the row when the message is not queued
QueueIfRunning(m) ==
  /\ pc[m] = "check"
  /\ Goto(m, IF m \notin Forced /\ status = "running" THEN "enqueue" ELSE "notify")
  /\ UNCHANGED <<turn, snap, reads, agent, queue, query, cleanup, picked>>

\* queueTurnMessage
Enqueue(m) ==
  /\ pc[m] = "enqueue"
  /\ queue' = Append(queue, m)
  /\ Goto(m, "queued")
  /\ UNCHANGED <<turn, snap, reads, agent, query, cleanup, picked>>

\* The row of a queued message is deleted.
Unqueue(m) ==
  \E i \in 1 .. Len(queue) : queue[i] = m /\ queue' = RemoveAt(queue, i)

\* The user deletes a message that waits in the queue.
RemoveQueued(m) ==
  /\ Unqueue(m)
  /\ Goto(m, "removed")
  /\ UNCHANGED <<turn, snap, reads, agent, query, cleanup, picked>>

\* sessions.onMessageCreated
OnMessageCreated(m) ==
  /\ pc[m] = "notify"
  /\ status' = "running"
  /\ Goto(m, "dispatch")
  /\ UNCHANGED <<turn, snap, reads, activeTurn, lastTurn, hasSession, queue,
                 query, cleanup, picked>>

-----------------------------------------------------------------------------
(* claude-agent.handleMessageCreated *)

\* channel.push: a channel that has ended drops what is pushed.
Push(q, ms) ==
  inbox' = IF ended[q] THEN inbox ELSE [inbox EXCEPT ![q] = @ \o ms]

PushedPc(q) == IF ended[q] THEN "dropped" ELSE "given"

\* A query runs: the message joins it, unless it is of another turn.
JoinTurn(m) ==
  /\ pc[m] = "dispatch" /\ active # None
  /\ IF activeTurn # 0 /\ turn[m] # activeTurn
     THEN Goto(m, "rejected") /\ UNCHANGED inbox
     ELSE Push(active, <<m>>) /\ Goto(m, PushedPc(active))
  /\ UNCHANGED <<turn, snap, reads, agent, queue, active, resuming, consumer,
                 ended, asked, outcome, cleanup, picked>>

\* No query runs: the turn becomes the active one.
ClaimTurn(m) ==
  /\ pc[m] = "dispatch" /\ active = None
  /\ activeTurn' = turn[m]
  /\ snap' = [snap EXCEPT ![m] = [running |-> status = "running",
                                  session |-> hasSession]]
  /\ Goto(m, "claimed")
  /\ UNCHANGED <<turn, reads, status, lastTurn, hasSession, queue, query,
                 cleanup, picked>>

\* createAgentSession starts a query; ensureActiveSession takes the one that
\* runs, or awaits the one that is being resumed, or resumes it.
StartQuery(m) ==
  /\ pc[m] = "claimed"
  /\ IF snap[m].session /\ active # None
     THEN Push(active, <<m>>) /\ Goto(m, PushedPc(active)) /\ UNCHANGED resuming
     ELSE /\ UNCHANGED inbox
          /\ IF snap[m].session /\ resuming # None
             THEN Goto(m, "awaiting") /\ UNCHANGED resuming
             ELSE /\ Goto(m, "opening")
                  /\ resuming' = IF snap[m].session THEN m ELSE resuming
  /\ UNCHANGED <<turn, snap, reads, agent, queue, active, consumer, ended, asked,
                 outcome, cleanup, picked>>

Awaiting == {m \in Message : pc[m] = "awaiting"}

\* _startAgentLoop has read user, credentials and options: _openQuery.  A
\* resumed query gets its messages at once (in any order), a new one when the database has
\* answered.
OpenQuery(m) ==
  /\ pc[m] = "opening"
  /\ active' = m
  /\ consumer' = [consumer EXCEPT ![m] = "open"]
  /\ ended' = [ended EXCEPT ![m] = FALSE]
  /\ IF snap[m].session
     THEN /\ \E others \in SetToSeqs(Awaiting) :
               inbox' = [inbox EXCEPT ![m] = <<m>> \o others]
          /\ pc' = [n \in Message |-> IF n = m \/ pc[n] = "awaiting"
                                      THEN "given" ELSE pc[n]]
          /\ resuming' = None
          /\ UNCHANGED status
     ELSE /\ Goto(m, "opened")
          /\ status' = IF snap[m].running THEN status ELSE "running"
          /\ UNCHANGED <<inbox, resuming>>
  /\ UNCHANGED <<turn, snap, reads, activeTurn, lastTurn, hasSession, queue,
                 asked, outcome, cleanup, picked>>

\* createAgentSession has returned.
FirstPush(m) ==
  /\ pc[m] = "opened"
  /\ Push(m, <<m>>)
  /\ Goto(m, PushedPc(m))
  /\ UNCHANGED <<turn, snap, reads, agent, queue, active, resuming, consumer,
                 ended, asked, outcome, cleanup, picked>>

\* No model, no agent config, no credentials: afterCreateDispatchAgent logs it.
StartFails(m) ==
  /\ MayFail
  /\ pc[m] = "opening"
  /\ pc' = [n \in Message |-> IF n = m \/ (resuming = m /\ pc[n] = "awaiting")
                              THEN "failed" ELSE pc[n]]
  /\ resuming' = IF resuming = m THEN None ELSE resuming
  /\ UNCHANGED <<turn, snap, reads, agent, queue, active, consumer, inbox, ended,
                 asked, outcome, cleanup, picked>>

-----------------------------------------------------------------------------
(* _consumeQuery and the SDK *)

\* The stream of a query has not ended.
Runs(q) == consumer[q] \in {"open", "begun", "reading"}

\* The SDK takes a message from the channel.
ReadMessage(q) ==
  /\ Runs(q) /\ ~ended[q] /\ inbox[q] # <<>>
  /\ consumer' = [consumer EXCEPT ![q] = IF @ = "open" THEN "begun" ELSE @]
  /\ inbox' = [inbox EXCEPT ![q] = Tail(@)]
  /\ reads' = [reads EXCEPT ![Head(inbox[q])] = @ + 1]
  /\ UNCHANGED <<pc, turn, snap, agent, queue, active, resuming, ended, asked,
                 outcome, cleanup, picked>>

\* The first event that answers a message names the SDK's session; it may be
\* on its way when the query is aborted.
InitEvent(q) ==
  /\ consumer[q] = "begun"
  /\ consumer' = [consumer EXCEPT ![q] = "reading"]
  /\ hasSession' = TRUE
  /\ UNCHANGED <<message, status, activeTurn, lastTurn, queue, active, resuming,
                 inbox, ended, asked, outcome, cleanup, picked>>

\* A tool asks the user; the turn is to end, but is not ended by this.
AskUser(q) ==
  /\ consumer[q] = "reading" /\ ~ended[q] /\ ~asked[q]
  /\ asked' = [asked EXCEPT ![q] = TRUE]
  /\ status' = "approval"
  /\ UNCHANGED <<message, activeTurn, lastTurn, hasSession, queue, active,
                 resuming, consumer, inbox, ended, outcome, cleanup, picked>>

StreamEnds(q, verdict) ==
  /\ outcome' = [outcome EXCEPT ![q] = verdict]
  /\ consumer' = [consumer EXCEPT ![q] = "disposing"]
  /\ disposer' = [disposer EXCEPT ![q] = "called"]
  /\ UNCHANGED <<message, agent, queue, active, resuming, inbox, ended, asked,
                 target, picked>>

\* A result, which may have been on its way when the query was aborted
Result(q) ==
  /\ consumer[q] = "reading"
  /\ \E verdict \in Outcome : StreamEnds(q, verdict)

\* The stream fails or drains before anything was answered.
Crashed(q) ==
  /\ consumer[q] \in {"open", "begun"} /\ "failed" \in Outcome
  /\ StreamEnds(q, "failed")

Aborted(q) == Runs(q) /\ ended[q] /\ StreamEnds(q, "stopped")

\* _disposeActiveSession acts on the query that is stored when it is called.
Dispose(d) ==
  /\ disposer[d] = "called"
  /\ disposer' = [disposer EXCEPT ![d] = IF active = None THEN "closed" ELSE "finishing"]
  /\ target' = [target EXCEPT ![d] = active]
  /\ UNCHANGED <<message, agent, queue, query, picked>>

\* The writer has finished: the channel ends, the query is aborted and
\* whatever is stored now is dropped.
DropActive(d) ==
  /\ disposer[d] = "finishing"
  /\ ended' = [ended EXCEPT ![target[d]] = TRUE]
  /\ active' = None
  /\ disposer' = [disposer EXCEPT ![d] = "closed"]
  /\ UNCHANGED <<message, agent, queue, resuming, consumer, inbox, asked,
                 outcome, target, picked>>

\* Mutant: a failed result leaves the status to the next turn.
TurnOverCompletedOnly(q) ==
  /\ disposer[q] = "closed"
  /\ disposer' = [disposer EXCEPT ![q] = "done"]
  /\ status' = IF asked[q] THEN "approval"
               ELSE IF outcome[q] = "failed" THEN status ELSE outcome[q]
  /\ activeTurn' = 0
  /\ consumer' = [consumer EXCEPT ![q] =
       IF asked[q] \/ outcome[q] = "completed" THEN "complete" ELSE "done"]
  /\ UNCHANGED <<message, lastTurn, hasSession, queue, active, resuming, inbox,
                 ended, asked, outcome, target, picked>>

\* processMessages: the terminal status of the turn
TurnOver(q) ==
  /\ disposer[q] = "closed"
  /\ disposer' = [disposer EXCEPT ![q] = "done"]
  /\ status' = IF asked[q] THEN "approval" ELSE outcome[q]
  /\ activeTurn' = 0
  /\ consumer' = [consumer EXCEPT ![q] =
       IF asked[q] \/ outcome[q] = "completed" THEN "complete" ELSE "done"]
  /\ UNCHANGED <<message, lastTurn, hasSession, queue, active, resuming, inbox,
                 ended, asked, outcome, target, picked>>

-----------------------------------------------------------------------------
(* sessions.onTurnComplete and flushNextQueuedTurn *)

Consumer(q, from, to) ==
  /\ consumer[q] = from
  /\ consumer' = [consumer EXCEPT ![q] = to]
  /\ UNCHANGED <<turn, snap, reads, status, lastTurn, hasSession, active,
                 resuming, inbox, ended, asked, outcome, cleanup>>

\* No flush for an agent that waits for the user, nor for one that was stopped:
\* a primary agent counts as stopped when its session does too, and the row of
\* the session says "stopped" or something else (it is being archived).
OnTurnComplete(q) ==
  /\ \E sessionStopped \in BOOLEAN :
       Consumer(q, "complete",
         IF status = "approval" \/ (status = "stopped" /\ (Primary => sessionStopped))
         THEN "done" ELSE "flush")
  /\ UNCHANGED <<pc, activeTurn, queue, picked>>

ClearActiveTurn(q) ==
  /\ Consumer(q, "flush", "take")
  /\ activeTurn' = 0
  /\ UNCHANGED <<pc, queue, picked>>

\* Mutant: the newest queued message is taken.
TakeQueuedNewest(q) ==
  /\ Consumer(q, "take", IF queue = <<>> THEN "done" ELSE "remove")
  /\ picked' = IF queue = <<>> THEN picked ELSE [picked EXCEPT ![q] = Last(queue)]
  /\ UNCHANGED <<pc, activeTurn, queue>>

TakeQueued(q) ==
  /\ Consumer(q, "take", IF queue = <<>> THEN "done" ELSE "remove")
  /\ picked' = IF queue = <<>> THEN picked ELSE [picked EXCEPT ![q] = Head(queue)]
  /\ UNCHANGED <<pc, activeTurn, queue>>

\* Mutant: the removal of a row that is gone does not throw.
FlushQueuedUnchecked(q) ==
  /\ Consumer(q, "remove", "done")
  /\ queue' = Remove(queue, picked[q])
  /\ Goto(picked[q], "recreate")
  /\ UNCHANGED <<activeTurn, picked>>

\* The removal throws NotFound when another flush or the user was faster.
FlushQueued(q) ==
  /\ Consumer(q, "remove", "done")
  /\ IF picked[q] \in Range(queue)
     THEN Unqueue(picked[q]) /\ Goto(picked[q], "recreate")
     ELSE UNCHANGED <<queue, pc>>
  /\ UNCHANGED <<activeTurn, picked>>

\* messages.create without provider: never queued again
Recreate(m) ==
  /\ pc[m] = "recreate"
  /\ AssignTurn(m, FALSE)
  /\ Goto(m, "notify")
  /\ UNCHANGED <<snap, reads, status, activeTurn, hasSession, queue, query,
                 cleanup, picked>>

-----------------------------------------------------------------------------
(* agents.stop *)

StopCalled ==
  /\ MayStop /\ disposer[Stop] = "off"
  /\ disposer' = [disposer EXCEPT ![Stop] = "called"]
  /\ UNCHANGED <<message, agent, queue, query, target, picked>>

Stopped ==
  /\ disposer[Stop] = "closed"
  /\ disposer' = [disposer EXCEPT ![Stop] = "done"]
  /\ status' = "stopped" /\ activeTurn' = 0
  /\ UNCHANGED <<message, lastTurn, hasSession, queue, query, target, picked>>

-----------------------------------------------------------------------------
ChainStep(m) ==
  \/ QueueIfRunning(m) \/ Enqueue(m) \/ OnMessageCreated(m) \/ JoinTurn(m)
  \/ ClaimTurn(m) \/ StartQuery(m) \/ OpenQuery(m) \/ FirstPush(m)
  \/ StartFails(m) \/ Recreate(m)

QueryStep(q) ==
  \/ ReadMessage(q) \/ InitEvent(q) \/ Result(q) \/ Aborted(q) \/ TurnOver(q)
  \/ OnTurnComplete(q) \/ ClearActiveTurn(q) \/ TakeQueued(q) \/ FlushQueued(q)

Next ==
  \/ \E m \in Message : Send(m) \/ RemoveQueued(m) \/ ChainStep(m)
  \/ \E q \in Query : QueryStep(q) \/ AskUser(q) \/ Crashed(q)
  \/ \E d \in Disposer : Dispose(d) \/ DropActive(d)
  \/ StopCalled \/ Stopped

Spec == Init /\ [][Next]_vars

\* Calls that were begun go on, the SDK reads what it is given, answers it and
\* reacts to an abort.  Users need not send, stop or remove anything.
Fairness ==
  /\ \A m \in Message : WF_vars(ChainStep(m)) /\ WF_vars(QueryStep(m))
  /\ \A d \in Disposer : WF_vars(Dispose(d)) /\ WF_vars(DropActive(d))
  /\ WF_vars(Stopped)

FairSpec == Spec /\ Fairness

-----------------------------------------------------------------------------
(* What makes the protocol right. *)

Settled(m) == pc[m] \in {"unsent", "queued", "removed", "given", "dropped",
                         "rejected", "failed"}

\* No call is in progress and no query runs.
Quiescent ==
  /\ \A m \in Message : Settled(m)
  /\ \A q \in Query : consumer[q] \in {"none", "done"}
  /\ disposer[Stop] \in {"off", "done"}

\* A message is answered by at most one query, however many flushes run at the
\* same time and whatever the user removes (flushNextQueuedTurn, remove).
ReadOnce == \A m \in Message : reads[m] <= 1

\* Two messages that did not steer never share a turn id, so that no two turns
\* write under the same id (allocateNextTurnId).
UniqueTurns ==
  \A m, n \in Message \ Forced :
    m # n /\ turn[m] # 0 => turn[m] # turn[n]

\* The queue is served oldest first: a flush never takes a message over the
\* head of one that was queued before it.
OldestFirst ==
  [][\A m \in Message :
       pc[m] = "queued" /\ pc'[m] = "recreate" => m = Head(queue)]_vars

\* When nothing is going on, the agent does not claim to be running.
IdleNotRunning == Quiescent => status # "running"

\* An agent that runs comes to rest or asks, in every interleaving of turns
\* and stops.
RunningEnds == status = "running" ~> status # "running"

-----------------------------------------------------------------------------
(* What comments of the repository say and the code does not do: each is     *)
(* refuted by a run.                                                         *)

\* A message that arrives while a turn runs does not start a parallel agent.
NoParallelAgent == Cardinality({q \in Query : Runs(q) /\ ~ended[q]}) <= 1

\* A query is ended by its own consumer or by a stop, never by the dispose of
\* another one.
EndedByItself ==
  [][\A q \in Query : ended'[q] /\ ~ended[q] =>
        consumer[q] = "disposing" \/ disposer[Stop] = "finishing"]_vars

\* A query only accepts messages of the turn it processes.
OneTurnPerQuery ==
  \A q \in Query, m \in Message :
    m \in Range(inbox[q]) /\ Runs(q) => turn[m] = turn[q]

\* When a turn is completed, what was queued for its end is sent.
FollowUpsStart == Quiescent /\ status = "completed" => queue = <<>>

=============================================================================
