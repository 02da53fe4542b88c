# baguette in TLA+

baguette is a web application that runs coding agents: a Node.js server keeps
sessions (a git worktree, agents, a transcript), feeds user messages to agent
SDKs, streams their answers into database rows, and runs the commands and
development servers of a project as tasks. This directory models the parts of
that server whose correctness depends on the order of callbacks, awaits, kills
and timers, checks them with TLC on small instances, and proves some of the
results with TLAPS for every instance.

Paths below are relative to `src/`. The server is one JavaScript process:
code between two `await`s is atomic, and whatever else can happen in the
meantime can happen at an `await`. Every module is built on that rule and says
at its head how it applies it.

    TaskTree.tla         tasks, their dependencies, processes and timers
    DependencyLease.tla  what TaskTree promises, without processes and timers
    TaskTreeProofs.tla   theorems about TaskTree: types, the kill cascade
    TaskLeaseProofs.tla  theorems about its processes, and the refinement of
                         DependencyLease
    MCTaskTree.tla       small dependency graphs for TLC
    StreamWriter.tla     one turn's stream of operations written to rows
    StreamProofs.tla     theorems about StreamWriter: order, loss, settled calls
    AgentTurn.tla        user messages, the turn queue and SDK queries
    AgentTurnProofs.tla  theorems about its turn ids, queue, inboxes and status
    MCAgentTurn.tla      symmetry of the messages, for TLC
    SessionLifecycle.tla setup, archive, restore, removal and recovery of a session
    SessionProofs.tla    theorems about SessionLifecycle
    TaskStore.tla        overlapping creates, the shared init task, eviction, shutdown
    StoreProofs.tla      theorems about TaskStore
    MCTaskStore.tla      a small .baguette.yaml for TLC
    LoopSchedule.tla     the recurrence of loops over changes of a zone's offset
    LoopScheduler.tla    the tick: scheduled messages and loops
    LoopProofs.tla       theorems about both
    MCLoopScheduler.tla  small days, weeks and zones for TLC
    DevProxy.tla         one preview address: states, tasks, loading pages
    ProxyProofs.tla      theorems about DevProxy

To repeat a check: `tlc -config AgentTurn_queue.cfg MCAgentTurn`; to repeat the
proofs: `tlapm TaskTreeProofs.tla`.

## 1. Inventory

The components, what each keeps, and what makes it right. `PROJECT.json` lists
them all with their files and status, and the hazards of each at their lines.

| Component | State | Operations | Hard behaviour | Correct means |
|---|---|---|---|---|
| **Task tree** (`server/services/task.js`) | per task: status, exit code, kill reason, `_dependents`, child process, idle TTL timer, run-time cap, heartbeat interval | create, `start`, `_startProcess`, `waitForReady`, `kill`, `exit`, `heartbeat` | `start` awaits dependencies, ports, files and images while `kill` may come; `exit` cascades through a shared graph | dependencies are ready before a spawn; orphans stop, needed tasks do not; killed tasks and whole trees end |
| **Task store** (`feathers/tasks.service.js`) | the map of tasks, the pending init task, `MAX_TASKS` | create with dependencies, delete, kill by session, kill all | concurrent creates, eviction, shutdown | one init task per session in the store; a task that is dropped has ended or is being killed; shutdown leaves no child |
| **Dev proxy** (`dev-proxy.js`, `preview.js`, ...) | per host: state, task, waiting requests | dispatch, attach task, crash and listening callbacks | callbacks of a task that was replaced | a request ends up at the current task or gets an error |
| **User messages and turns** (`messages.service.js`, `queued-messages.service.js`, `shared/turn-assignment.js`, parts of `sessions.service.js`) | rows of messages, the queue, `agents.status`, `active_turn_id`, `current_turn_id` | create hooks, queue, flush, remove, dispatch | check-then-act over the database between requests and flushes | no message answered twice, ids unique, queue in order, no message forgotten, status true |
| **Claude agent service** (`claude-agent.service.ts`, `claude-sdk-turn.ts`, `message-channel.js`) | `_activeSessions`, `_resumePromises`, per query a channel and an abort controller | handle message, open or resume query, consume, dispose, stop | overlapping queries of one agent; a stop or a result at any await | one query per agent, a turn ends once, with its own status |
| **Message stream writer** (`shared/message-stream-writer.ts`) | text buffer, pending tools, two debounce timers | `apply` of each op, `finish` | timers and a stop interleave with an op that awaits the database | rows in order of the stream, nothing lost, every call settled |
| Cursor, Pi, mock agents | as Claude | as Claude | same protocol, other SDKs | as Claude |
| Agents service, review turns | agent rows, refs, reviewer turn state | allocate, stop with children, review | unique refs under concurrent creates | |
| **Session lifecycle** (`sessions.service.js`) | row (status, `archived_at`, `session_path`), worktree, `_archivePendingSessionIds`, `_provisioningAbortSessionIds`, agent status | provision, archive, cleanup, restore, remove, stop, recover at boot | calls that read the row, await git and use what they have read; crashes between files and row | one archive at a time; an archived or deleted session leaves no files and no working agent; an archive that began is completed |
| **Loops, scheduled messages** (`loops.service.js`, `queued-messages.service.js`, `loop-schedule.js`) | `next_run_at`, tied session, due rows | tick, claim, re-arm, run, edit | crash between claim and run, edits during a run, offsets that change | an occurrence runs at most once, at its local time; a cancelled message is not sent; a tick is never stuck |
| File cache, realtime | entries and in-flight fetches; subscribers | get, clear; publish | clear during a fetch | no stale entry after a clear |
| Git/GitHub, docker CLI, project configuration, MCP tools, accounts, client, migrations | | | I/O, parsing, CRUD, user interface | not modelled |

How they interact: the messages service calls the sessions service (status) and
the agent service (dispatch); the agent service opens a query, hands its events
to a stream writer, and at the end of a turn calls the sessions service, which
takes a queued message and creates it as a message again. Tools of the agent
and the dev proxy create and heartbeat tasks through the task store; archiving
a session kills them.

## 2. Plan

The order is by how much goes wrong, and how hard it is to see, when the part
is wrong.

1. *Done*: TaskTree with its abstract specification DependencyLease, its
   inductive invariant and proofs.
2. *Done*: StreamWriter; AgentTurn and the uniqueness of its turn ids.
3. *Done*: SessionLifecycle and its proofs; TaskStore, the store around
   TaskTree; LoopSchedule, LoopScheduler and their proofs; DevProxy.
4. ClaudeStream: `claude-sdk-turn.ts` with background tasks, the continuation
   deadline and aborts, composed with the terminal status of AgentTurn.
5. TaskTtl: heartbeats with discrete time, for the idle TTL of a shared
   dependency.
6. The Cursor, Pi and mock agent services as variations of AgentTurn; reviewer
   turns; usage totals; the file cache.
7. *Done*: the refinement of DependencyLease; every type invariant and every
   safety property the passing runs check, most for all constants, some under
   a condition without which they are false (section 5). To do: abstract
   specifications of the turn protocol and of the writer, and the theorems that
   AgentTurn and StreamWriter implement them; `ArchivedFilesGone` and
   `RowMatchesFiles` next to a setup or a restore, in the scenarios where TLC
   finds them true.

Abstract specifications worth stating: DependencyLease (done); for the turn
protocol, a queue whose elements are answered at most once; for the writer, an
append-only transcript that the rows show with a delay.

## 3. The modules

### TaskTree

One record of variables per task object. `start()` is the sequence
`StartCalled` (up to the first await), `StartDep`/`GiveUp` (the head of the
loop), `DepListens`, `DepCompleted`, `DepFailed`, `DepTimesOut` (the ways
`waitForReady` can settle), then `EnterRunning` and `Launch`; `_startProcess()`
is `PortsAllocated`, `Prepared` and `Spawn`, where `SlowSpawn` names the tasks
that await something first. `exit()` runs synchronously and recursively:
`calls` is the stack of calls in progress, `Release` is one turn of the loop in
`#releaseDependsOn` with `#tryStopIfOrphan`, `Finish` the end of a call. While
the stack is not empty nothing else may run; promise reactions go before
timers and I/O (`Quiet`). Timers (`IdleExpires`, `CapExpires`, `Escalate`) can
fire whenever they are armed. Exit codes are 0 and 1, for any failure.

`DependencyLease` is what this means to a user of the tree: a task holds a
lease on each dependency until it ends; the loss of the last lease brings a
dependency down at once, and nothing else about leases does. `LeaseKept` maps
status and stack to a phase and `_dependents` to the holders.

### StreamWriter

One turn. `sent` numbers the ops the provider delivers; a row holds the
numbers of the ops it shows, which is all the properties need of contents. The
stream (the `for await` loop that applies ops), the flushes of the tool progress
timer (`Ticker`: the timer may fire again while a flush still awaits its
patches) and two callers of `finish()` (a stop and the end of the stream) are
actors; each runs from one `await` to the next, and while one runs no other
does (`Quiet`). A patch is in its row when it is issued and its caller goes on
when it is answered, in order: there is one connection, and SQLite executes
statements in the order they arrive. `Progress` selects providers with progress
payloads (Cursor), `MayStop` the services that call `finish()` while the stream
is still being applied (`_disposeActiveSession`).

### AgentTurn

One builder agent. A message's `pc` follows its call chain: `check`
(`queueIfRunning`), `enqueue`, `queued` or `notify` (`onMessageCreated`),
`dispatch` and `claimed` (`_handleMessageCreatedImpl`), `opening`
(`_startAgentLoop`, `_openQuery`), and where it ends: `given` to a query,
`dropped` by an ended channel, `rejected`, `failed`. A query is named by the
message that opened it; its consumer goes through `open`, `begun` (the SDK has
taken a message), `reading` (its init event has named the session: `hasSession`),
`disposing`, `complete` (`onTurnComplete`) and the steps of
`flushNextQueuedTurn`. `onTurnComplete` flushes nothing for a primary agent that
is stopped when the row of its session says `stopped`, too; that row is not
modelled and may say so or not. `_disposeActiveSession` is a small process of its own
(`Dispose`, `DropActive`) because it is called by every consumer and by a stop,
and looks its query up by the agent's key when it runs. The SDK is external: it
reads what is in the channel, answers, fails, or reacts to an abort; a result
may have been on its way when the abort comes. Scheduled messages enter as
`Send`, for `runDue` creates them as if a user had sent them.

### SessionLifecycle

One session. The row, the worktree and the agent's status survive a crash; the
calls in progress and the two sets of session ids do not. `scheduleSession-
Provisioning` is `CreateFiles`, `CheckCancelled`, `RecordPath`, ... `Settle`,
with `FailRead`, `FailRemove`, `FailMark` for `failSessionProvisioning`, which
the recovery calls too. An `archive()` goes through `ArchiveCalled`,
`CancelSetup`, `Reread`, `Enter` (its own guard), `MarkArchiving`, `StopAgents`
and `RunCleanup`; the cleanup task outlives the call and ends in
`_finalizeRemoval` (`RemoveFiles`, `MarkArchived`), which the recovery calls as
well. Both catches of a failed `removeWorktree` are there (`RemoveOrLeave`: the
setup goes on with the files in place), and `FinalizeFails` is a finalization
that throws before it removes the files or after it (the trim of messages, the
strong loops), is logged and leaves the row `archiving`; `left` remembers which
of the two the last one left behind. A message is `SendMessage` (the hook reads
the session), `SetRunning`, `Dispatch` (which looks for the archive again, and
returns or goes on) and `OpenTurn`, for the user and for the recovery that
resumes a turn (`RestartTurn`). `Crash` forgets all calls; then `AbandonSetup`, `CompleteArchives`,
`RepairStatus` and `SelectInterrupted` are the recovery in its order. `snap` is
the row an `archive()` has read and goes on using. What may happen in one
behaviour is chosen at the start (`may`), because the code does not keep the
properties for every combination (section 4).

### TaskStore

`create()` from await to await, with a stack for its nested calls on
`depends_on`. `Resolve` is `_getOrCreateSessionInitTask` up to its first await;
a call that finds another one making the init task waits for its promise, and
`MakeInit` or `FailInit` resumes all of them at once (`Sharers`). `Stop` is
where the loop over `depends_on` has to await: all the tasks before it were
found in the store. `Room` is the eviction of `createTask`. Tasks run, stop and
end as they like; TaskTree says how. Their ids are their age, so `DepsComplete`
includes the acyclic graph TaskTree assumes.

### LoopSchedule and LoopScheduler

`LoopSchedule` is `computeNextRun` as an operator over instants in hours, with
a zone whose offset changes once, next to a definition of what a schedule means
(`IsOccurrence`, `First`). `LoopScheduler` is the tick: `Tick`, `Claim` and
`Send` for messages; `SelectLoops`, `Rearm`, `Start`, `AskGitHub`,
`StartSession` and `Patch` or `PatchError` for loops, which go on with the rows
they have read (`due`, `Read`). A user's patch of a loop is two steps
(`EditRead`, `EditWrite`), for its hook reads the row the patch is written over.
`Clock` waits for such a patch: it takes milliseconds, and `RunOnce` is refuted
when an hour passes in it.

### DevProxy

One address. A state of the proxy is a number, so that calls that still await
something of a dropped state can go on with it; `current` is the one in the
map. `Built`, `Waited`, `Probed`, `Listening` are a state's start-up;
`Noticed` is `_onExited`, the reaction to the exit of a task, and is part of
the step that ends the task, as `exit()` calls its listeners. `replay` is the
first event in the channel's log that a loading page reacts to: a page that is
replayed `ready` closes the stream and reloads, one that gets an error stops.
A page that reloads asks again (`Get`), as one does whose server is not up
although the log says `ready`: it comes back to the loading page (`Misled`).
Some pages are of nobody (`Guest`): each of their requests passes
`allowIpPublicAccess` (`Let`), which refuses a crashed state, so such a page may
be turned away, for good when it is its event stream that is refused. An idle
stop may come at any time after the spawn, during the start-up too. The `create()`
of the Preview tab may throw.

## 4. The runs

Passing:

| Run | Instance | Distinct states | Shows |
|---|---|---|---|
| `tasks_preview` | preview -> api, gen; api -> gen; code server alone; awaited spawns, idle TTLs, lazy start by the dev proxy | 762,249 | types; a child is spawned only when each dependency listens or has exited with 0 (`DepsReadyBeforeSpawn`); a child can only outlive its task through a kill during an awaited spawn (`ChildOwned`); every step is a step of DependencyLease (`LeaseKept`) |
| `tasks_shared` | app -> gen, lib; gen -> lib; cron -> lib; caps, fair timers | 70,601 | `OrphansStopped`, `SparedWhileNeeded`; every killed task ends though its child ignores SIGTERM (`KilledEnds`); a capped task and its whole tree end (`TreeEnds`) |
| `writer_turn` | two calls, five ops, no progress payloads, no stop, fair database and timers | 242,357 | types; every op ends up in a row (`NothingLost`); no call is left running (`ToolsSettled`); a result is never overwritten (`ResultKept`; with progress payloads it can be, see `StreamWriter_progress`); text reaches its row though the provider falls silent (`TextReachesRow`) |
| `writer_stop` | one call, five ops, progress payloads with two flushes that overlap, a stop at any point | 855,573 | rows are in the order of the stream (`TranscriptOrder`) |
| `agent_turns` | two messages to a primary agent, one steering; results of both kinds, crashes, a stop; fair | 807,115 | types; an agent nobody works for is not `running` (`IdleNotRunning`); one that runs comes to rest or asks (`RunningEnds`) |
| `agent_queue` | three messages, no steering, starts that fail; messages symmetric | 1,380,014 | a message is read by a query at most once, whatever flushes and removals overlap (`ReadOnce`); turn ids are unique (`UniqueTurns`); the queue is first in, first out (`OldestFirst`) |
| `sessions_calls` | six scenarios: setup, archive and a second archive, restore, removal, messages, stop, failures, removals and finalizations that fail, two crashes; cleanup task | 68,900 | types; `archive()` excludes itself (`OneArchiver`); an archived session leaves no worktree (`ArchivedFilesGone`) and row and worktree agree (`RowMatchesFiles`), except for one that could not be removed; a row is marked after its files are gone (`MarkedAfterFiles`); an archive whose finalization does not fail completes, over crashes too (`ArchiveCompletes`) |
| `store_calls` | two calls, two sessions, five keys with nested needs, a store of three; kills, failures, archives or a shutdown | 328,235 | types; the store holds one active init task per session (`OneInit`); tasks have all their dependencies, the init task included (`DepsComplete`); what leaves the store has ended or is being killed, unless it is the oldest of a store full of active tasks (`LeavesDying`); calls return and the server exits (`CallsAndServerEnd`) |
| `loops_ticks` | two loops or two messages, days of four hours, weeks of three days, a zone whose clock falls back over midnight and one whose clock springs forward, an edit, a crash | 201,526 | types; `RunOnce`; an enabled loop has a next run (`ArmedWhenOn`), which is the first by the local clock (`NextIsFirst`); `CancelledNotSent`; whatever is due is dealt with (`DueLeaves`) |
| `proxy_pages` | two states, two tasks, a page of a user and one of a guest, a WebSocket, restarts and the Preview tab | 410,283 | types; a channel never loses the end of its server (`SettledTold`); the page of a user comes to the site or an error, unless the state was dropped or the log says `ready` of a server that is not up (`PageLeaves`) |

Refuted, each a statement the repository makes and the code does not keep:

| Run | Statement | What happens |
|---|---|---|
| `agent_parallel` | `NoParallelAgent` | the status is read before the message row exists and set to running after: two messages to an idle agent each open a query |
| `loops_unarmed` | `ArmedWhenOn` with a change at hour 17 | where the clock skips midnight on the only day of a weekly loop, the shifted instant is on the day before and rejected, and the walk ends a day before the next occurrence: the loop stays enabled without a next run |

### Refuted, without a run

TLC refutes these too, each within seconds under the configuration named. They
are kept as files, so that a change of the code can be tried against them.

| Configuration | Statement | What happens |
|---|---|---|
| `TaskTree_no_child` (MCTaskTree) | `NoChildOfEndedTask` | `_startProcess` does not look at the status after its awaits: a kill during them ends the task, then the child is spawned and nothing can kill it |
| `TaskTree_cancelled` (MCTaskTree) | `CancelledStaysDown` | a waiting dependency without dependencies of its own that a user stops is started nevertheless when its dependent reaches it |
| `TaskTree_completed` (MCTaskTree) | `CompletedMeansRan` | a dependency stopped before it had a process exits with 0, which its dependent takes for success |
| `TaskTree_heartbeat` (MCTaskTree) | `NoHeartbeatAfterExit` | the heartbeat interval of an ended dependency is armed again |
| `TaskStore_init` (MCTaskStore) | `InitializedByRun` | an init task killed while it waits exits with 0 and its hook marks the session initialized |
| `StreamWriter_progress` | `ToolsSettled` | the progress flush awaits one patch per dirty call; a call that is settled meanwhile is patched back to `running` |
| `StreamWriter_dangling` | `ToolsSettled` | with a stop, the row of a call is created after `finish()` has settled the others |
| `StreamWriter_shrink` | `TextGrows` | `finish()` resumes after its flush and resets a buffer the stream has refilled |
| `AgentTurn_forgotten` | `FollowUpsStart` | a message that saw the agent running is queued after the flush at the end of the turn; nothing flushes it until another turn completes |
| `AgentTurn_stuck` | `IdleNotRunning` | the agent is set to running before the dispatch; when that throws, the error is logged and the status stays |
| `AgentTurn_dispose` | `EndedByItself` | a query that ends aborts the one that was stored under its key |
| `AgentTurn_mixed` | `OneTurnPerQuery` | the end of a turn clears the id of the next one, and a message of a third turn is accepted |
| `SessionLifecycle_failed` | `StatusMatches` | a setup that notices the archive after `archive()` has returned finds no abort id and marks the archived session failed |
| `SessionLifecycle_ghost` | `GhostFree` | the recovery selects by the agent's status and marks only the session stopped |
| `SessionLifecycle_lingers` | `ArchivedRests` | a message has read the session before the archive and sets the agent to `running` after the archive has stopped it; the dispatch sees the archive and returns, or has looked before it and opens a turn |
| `SessionLifecycle_leftover` | `NothingLeft` | `removeWorktree` fails in `failSessionProvisioning`, which logs it and clears the path of the row: the files stay and nothing names them |
| `SessionLifecycle_stalled` | `ArchiveAlwaysCompletes` | a finalization throws and is only logged: the session stays `archiving` until somebody archives it again or the server restarts |
| `DevProxy_reload` | `NoReloadLoop` | a WebSocket that times out on a server that was up marks it crashed and leaves `ready` first in the log: the page reloads for ever |
| `DevProxy_guest` | `GuestLeaves` | the server of a guest crashes before its page has subscribed: the event stream is refused and the page goes on spinning |

The passing run of SessionLifecycle separates scenarios because the code does
not keep the properties when they meet. With setup, archive and stop
`ArchivedFilesGone` fails, as the stop hides the status the setup looks for; with
setup, archive and a failing git as well, as a `createWorktree` that fails after
the archive is over leaves what it has made, and `failSessionProvisioning`
removes nothing of an archived session; with a restore whose git fails
likewise. With a restore that meets a second archive, a setup or a crash, row and
files disagree; with a removal during a restore, files stay. After
a second archive of an archived session the status stays `archiving` until the
next start, and the recovery overwrites `archiving` with `stopped` when it
meets an archive twice. TaskStore states `ArchivedEmpty` (a create that read
the session before the archive makes a task after it) and `NoChildLeft`
(a task that was exiting already, was evicted or is made during the shutdown is
not waited for); both are refuted under `TaskStore_calls` with their names
added. Three more statements were tried on LoopScheduler and found wrong in the
same way, by a patch or a write with a row read earlier: a disabled loop has no
next run, a changed schedule is not overwritten by the run in progress, and a
loop that was freed of its session stays free.

### Bounds, and why they are enough

* *Graphs.* Four tasks. The cascade's cases are a dependency held by several
  tasks, held along two paths, with dependencies of its own, and a panel task
  next to one that is not; the two graphs have them all. The theorems about
  TaskTree remove the bound for its safety properties.
* *Ops.* Five ops and two calls: two overlapping calls with their results and
  one op more, which is what an interleaving of a flush, a settled call and an
  op in progress needs; the refuted properties of this module need three ops,
  or five with two calls.
* *Sessions.* Two calls of each kind and two crashes: a third call of
  `archive()` finds the state a second one has left; SessionProofs removes the
  bound for the archive.
* *The store.* Three entries of `MAX_TASKS` = 20: fewer than the tasks of two
  calls with nested dependencies, so that evictions of every kind happen. Ten
  tasks at most are made, by the two calls and their dependencies.
* *Time.* Days of four hours and weeks of three days keep every relation of a
  schedule to a change of offset (before, in, and after the skipped or repeated
  hour; on the wanted day or next to it). `NextIsFirst` and `ArmedWhenOn` are
  evaluated at every hour up to `MaxTime` = 5, across the change at hour 3 of one
  zone and up to the one at hour 5 of the other; `loops_unarmed` puts it at
  hour 17, on the last of the days that are walked.
  The proofs hold for all lengths, zones and schedules.
* *The proxy.* Two states: one that was dropped and the current one are what
  stale callbacks confuse. Two tasks, because the Preview tab can attach a
  second one to a state.
* *Messages.* Two messages suffice for a parallel query, a lost wake-up and
  every race of a stop with a message; three for two queries whose flushes
  compete for one queued message. `MCAgentTurn` uses the symmetry of messages
  for safety only, and assumes that none is `Forced`. The check that
  `ReadOnce` is not vacuous is the mutant that ignores the missing row: TLC
  finds the second read.
* `CHECK_DEADLOCK FALSE` everywhere: tasks end, turns end, users may do nothing
  more.

### Fairness

Each specification names what it assumes. In TaskTree: callbacks that are due
run, run-time caps expire, the escalation of a kill (after 30 s) fires and a
child that got SIGKILL dies; nothing about children that got SIGTERM, about
users, idle timers or how long a preparation takes. Tasks that were created are
started and dependencies that were created get their dependent: both happen in
one call of `create()`. In StreamWriter: the database answers and timers fire;
the provider may fall silent. In AgentTurn: calls go on, and the SDK reads,
answers and reacts to aborts; without an answer a turn is rightly running.
In SessionLifecycle:
calls, the cleanup task and the recovery go on, while the server is up. In
TaskStore: calls go on, a task that is stopped ends (what TaskTree shows as
`KilledEnds`), and the server exits when it may. In LoopScheduler: the interval
ticks, calls return and time passes. In DevProxy: what a start-up awaits has a
time limit, a task's dependencies are up or it fails, and the browser
reconnects an event stream by itself.
Crashes of the SDK, users and removals are not fair. Weak fairness is enough
everywhere, since nothing that is due is disabled again by others for ever.

## 5. The proofs

`TaskTreeProofs` proves, from the assumptions TaskTree makes about its
constants (a finite acyclic graph, which tasks are panel tasks), for every
graph:

* `TypeCorrect`: `Spec => []TypeOK`.
* `OrphansAlwaysStopped`: `Spec => []OrphansStopped`.
* `NeededTasksSpared`: `Spec => SparedWhileNeeded`.

`OrphansStopped` speaks of moments when no `exit()` is in progress, and says
nothing about why a dependency that runs has a dependent that is active. The
inductive invariant `OrphanInv` does:

* `OneThread`: only one task is in the synchronous part of `start()`, and never
  while an `exit()` is in progress;
* `Registered`: a task that has not begun to end is in `_dependents` of all it
  depends on, and nothing is there but created tasks that depend on it;
* `Unwinding`: an `exit()` in progress is still registered only with those of
  its dependencies the loop has not reached;
* `StartedByHolder`: a dependency that is about to enter `running` has been
  reached by an active task;
* `NeededWhileUp`: a dependency that may run on, and is not on the stack, has
  an active dependent.

The proof has one lemma per part, with a step per action, and lemmas about pushing to and popping
from the stack. `SparedWhileNeeded` follows for each step from the invariant:
only `Release` stops a task, and only under `#tryStopIfOrphan`'s test.

`TaskLeaseProofs` adds, for every graph:

* `DependenciesReady`: `Spec => []DepsReadyBeforeSpawn`;
* `ChildrenOwned`: `Spec => []ChildOwned`.

A dependency is looked at when `waitForReady` resolves, and the child is
spawned much later: the proof shows that what was found stays so. `StackOrdered`
says that the tasks of the `exit()` calls in progress have not ended and that
each depends on the next, so that no task ends twice and its exit code is
final; `Passed`, that `start()` has left behind only dependencies that are
ready (`Served`), and that none of those that ended is about to be started
again; `SpawnedAfter`, that the process comes after the last of them. For
`ChildOwned`, `OneChild` says that `exit()` is never called while the child
runs, and `KilledEarly`, that a task which ends while its process is being
prepared was killed. `MoveKinds` lists the seven things a step can do to one
`start()`; the lemmas about the parts use that list and not the actions.

It proves `LeaseImplemented` as well: `Spec => LeaseKept`, the refinement
of DependencyLease, for every graph. The mapping of the phases needs two facts
more: a task that is `exiting` has a child that is still to exit or is on the
stack of `exit()` (`ExitingEnds`), and a task that enters `running` without
dependencies, as one that was stopped before its turn may, does so on behalf of
a task that goes on (`StartedInTurn`). `LeaseStep` has one case per kind of step.

`AgentTurnProofs` proves `TurnIdsUnique`: `Spec => []UniqueTurns`, for every
set of messages. Uniqueness alone is not inductive: a new id is unused because
`current_turn_id` is above every id in use and above the active one, which
steering messages copy (`Counter`). One lemma treats the allocation, one the
steps that allocate nothing.

It adds, for every set of messages and both kinds of agent:

* `TypeCorrect`: `Spec => []TypeOK`, together with what the type of the status
  needs, that a query whose dispose has begun has an outcome (`Answered`);
* `ServedInOrder`: `Spec => OldestFirst`. A flush takes the row it has read
  before, so the proof is about what was read: `QueueInv` says that the rows of
  the queue are the messages that wait, each once, and that what a flush has
  picked is the head as long as it is in the queue. New rows are appended, and
  none returns;
* `MessageReadOnce`: `Spec => []ReadOnce`. `InboxInv` says that a message in an
  inbox was given and not read yet, is in no other inbox and there only once,
  and that one which was read was read once. `OneDelivered` treats the pushes,
  `AllDelivered` the query that opens with all messages that wait for it,
  `OneRead` the SDK; it rests on `QueueInv`, as a flush must not send again what
  was given.

Last, it proves `RestIsNotRunning`: `Spec => []IdleNotRunning` where
starting a query does not throw (`~MayFail`, without which `AgentTurn_stuck.cfg`
refutes it). `Attended` says that for a status of `running` there is a message
on its way to a query or a query whose turn is not over. A message that joins a
query leaves its way, so the query must be alive: `StoredAlive`, that
`_activeSessions` holds a query only until its own dispose is done, whoever
else disposes of it; `OpenedOnce` is what that needs.

`SessionProofs` proves, for any calls, scenarios and number of crashes:

* `TypeCorrect`, and `ArchivesExclusive`: `OneArchiver`, no two calls of
  `archive()` are past the guard together. `Flagged` strengthens it: a call past
  the guard has put the session's id into the pending set, which nobody else
  takes out.
* `ArchivedLeavesNothing` and `ArchivedAfterFiles`: `ArchivedFilesGone` and
  `MarkedAfterFiles`, when neither a setup nor a restore can create a worktree
  (`NothingCreates`): whatever archives, removals, stops, messages and crashes
  overlap and whatever of them fails. Both theorems also state the stronger
  formula without the exceptions: an archived session has no worktree at any
  moment, because a finalization whose removal fails never marks the row. The
  invariant `Settled` says that every finalizer that is about to mark the row has
  removed the files before, and that a row that is marked has none. The condition
  is what TLC needs as well: with a restore or a setup next to overlapping
  archives the statements are false (section 4).
* `RowNamesFiles`: `RowMatchesFiles`, when nothing creates a worktree and
  nothing overwrites the status of an archive that a crash interrupted
  (`ArchivesLast`); and that under the same condition a worktree on disk is always
  named by its row once nothing goes on, failed removals included. Row and files
  disagree between the removal and the mark; the invariant `Kept` says who will
  write the mark meanwhile: a finalizer, the recovery of a server that finds the
  session `archiving`, or, when the finalization has thrown in between, nobody
  until the next one (`Removing`). That status has to last till then (`Lasting`),
  and a call finalizes once (`FinalOnce`). Each part of the condition is needed:
  TLC refutes `RowMatchesFiles` for `{archive, crash, stop}` and
  `{archive, crash, turns}` with two crashes, for `{setup, archive, crash}`,
  `{setup, archive, fail}`, `{archive, restore, crash}` and
  `{archive, again, restore}`.

`LoopProofs` proves, for any loops, messages, schedules, zones, batch and
number of restarts: `TypeCorrect`, `OccurrenceRunsOnce` (`RunOnce`) and
`CancelledIsNotSent`. `RunOnce` looks at the moment a run starts; the invariant
`IInv` adds that what the tick has read is not older than what ran, and that a
row armed anew is later than any occurrence that ran, which is the lemma
`NextRunLater`: `computeNextRun` returns an instant after the one it was given,
in every zone.

About the recurrence itself it proves, for days and weeks of any length:

* `NextIsTheFirst`: `NextIsFirst`, in zones whose offset is less than a day and
  changes by at most a day (`Earthly`): the next run is the first occurrence by
  the local clock, unless a day around it has no or two occurrences. The lemmas
  say that an occurrence is shown once on a regular day (`ShownOnce`), that the
  walk meets it (`OccurrenceIsCandidate`), that the candidates it accepts grow
  (`CandidatesGrow`), and that one within the week is accepted (`SomeAccepted`).
  `Horizon`, the days that must be regular, includes the day before the walk
  begins: without it the lemma fails, for a clock that falls back over midnight
  is on that day again, and TLC finds the case in the first of the two zones of
  `loops_ticks`.
* `OnIsArmed`: `ArmedWhenOn`, in such zones and where the weekly loops have a
  day and no change of offset (`AlwaysNext`); `loops_unarmed` is what happens
  otherwise. A patch is written with the row its hook has read, so the
  invariant `ArmedInv` speaks of the row of the edit in progress, too
  (`EditArmed`).

`StoreProofs` proves, for any sessions, graphs of `depends_on`, number of calls
and size of the store:

* `TypeCorrect`; `MAX_TASKS` is never exceeded.
* `DependsComplete`: `Spec => []DepsComplete`. A task gets the dependencies its
  call has collected over many awaits; the invariant `DepsInv` says of every
  nested `create()` what it has collected so far (`FramesComplete`), whom it
  works for (`FramesNested`), and that the outermost one goes beyond the init
  task only with it or in a session that is initialized (`OutermostInit`).
* `InitShared`: `Spec => []OneInit`, the store holds one active init task per
  session, if nobody asks for it by its name (`InitImplicit`): a request that names it makes one without looking for
  another, and a `depends_on` that names it does not see the one that is being
  made. `Maker` says
  that `_sessionInitCreation` holds the one call that makes the init task, and
  that there is none in the store while it does. The statement is about the store:
  an init task that was deleted may still be exiting, and one that was evicted
  still running, when the next is made.
* `DropsDying`: `Spec => LeavesDying`, from the types. What leaves the store has
  ended or is being killed; the exception, the oldest task of a store full of
  active ones, is what the code does, and no later kill reaches that task.

`ProxyProofs` proves `TypeCorrect` and `EndsAreTold` (`SettledTold`) of
DevProxy, for any number of states, tasks, pages and WebSockets. The statement
is nearly inductive: a call that goes on with a dropped state must not have
lost the task it waits for (`BootOk`), and a page that is subscribed has been
sent what is in the log. It says that some `ready` or `error` is in the log, not
that the current server wrote it.

`StreamProofs` proves of StreamWriter, for any calls and any number of ops:

* `TypeCorrect` and `RowsInOrder` (`TranscriptOrder`), with progress payloads
  and a stop at any point. The rows are not all: a patch writes what is in
  memory. `OrderInv` says that what is in memory is in order with the rows
  before the one it will go to (`InOrder`), that text goes to the last row
  (`Pointers`) and that the row just created holds only the op that is applied
  (`NewRow`).
* `TextStays` (`TextGrows`: text never disappears from its row), where no stop
  runs `finish()` beside the stream (`~MayStop`). `Buffered`: the buffer has all
  that its row shows. With a stop, `StreamWriter_shrink` refutes it.
* `ResultsStay` (`ResultKept`), `AllSettled` (`ToolsSettled`) and `AllShown`
  (`NothingLost`), where in addition the provider sends no progress payloads
  (`~Progress`), as in `writer_turn`. `Calls` ties `pendingTools` to the rows
  that say `running`, except for the call that is being settled; `Shows` says
  that every op written so far is in a row or in the buffer; `Finishing`, what
  `finish()` has done at each of its awaits. Of `ToolsSettled`,
  `StreamWriter_dangling` and `StreamWriter_progress` show that both conditions
  are needed.

### Only model-checked

* Liveness, which needs fairness and so `ENABLED`: `KilledEnds`, `TreeEnds`,
  `TextReachesRow`, `RunningEnds`, `ArchiveCompletes`, `CallsAndServerEnd`,
  `DueLeaves` and `PageLeaves`.
* The safety properties in the instances that a condition above excludes:
  `RowMatchesFiles`, `ArchivedFilesGone` and `MarkedAfterFiles` in the four
  scenarios of `sessions_calls` that create worktrees; `ArmedWhenOn` for a
  weekly loop when the offset changes, in the zones of `loops_ticks`.

## 6. What is left out

* In TaskTree: output history, stdin, how ports are chosen. Docker tasks are
  tasks whose preparation awaits and can fail. Idle timers may expire at any
  time, so that a property that needs "not within the TTL" cannot be stated.
* In StreamWriter: the log of raw messages, truncation, the mapping of provider
  events to ops, and what payloads contain. Failures of the database.
* In AgentTurn: queueing while a session is provisioned, archived sessions,
  reviewers, messages of baguette itself, subagents, tool approvals, usage and
  auto-push, and the wait for background tasks after a result. Restarts of the
  server; SessionLifecycle has them.
* In SessionLifecycle: several sessions (they share no state but the disk),
  merging, pushing and pull requests, usage totals, forks, global sessions,
  docker volumes. Failures of git are one step that may fail, a failing removal
  removes nothing.
* In TaskStore: how a command, its arguments and its environment are found;
  several servers.
* In LoopScheduler: what a run sends, runs started by hand, validation. A clock
  that goes back. Several servers with one database.
* In DevProxy: the access checks other than the guest's (`allowUser`, approved
  users, the session's flags, which do not depend on the state of the server);
  several addresses, the code server and Vite handlers, headers
  and bytes, retries of the proxied request, and the order of log lines.
* The components marked `not_modelled` in `PROJECT.json`, with the reason.
