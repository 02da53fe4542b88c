---------------------------- MODULE SessionLifecycle ----------------------------
(***************************************************************************)
(* One session with a worktree: its setup, archive, restore and permanent  *)
(* removal, and what the server does about it when it starts again         *)
(* (sessions.service and the worktrees of github.js).                      *)
(*                                                                         *)
(* The row (status, archived_at, session_path) and the files survive a     *)
(* crash; the calls in progress and the two sets of session ids do not.    *)
(* A call runs from one await to the next; what it has read before an      *)
(* await it may use after it.  A write through the service or the database *)
(* is in the row when its await ends.                                      *)
(***************************************************************************)
EXTENDS Naturals, FiniteSets

CONSTANTS
  Archive,      \* calls of archive()
  Restore,      \* calls of restore()
  Remove,       \* calls of remove()
  HasCleanup,   \* .baguette.yaml has session.cleanup
  Scenario,     \* sets of what may happen in one behaviour, see Event
  MaxCrashes    \* how often the server goes down

ASSUME CallAssumption ==
  IsFiniteSet(Archive) /\ IsFiniteSet(Restore) /\ IsFiniteSet(Remove)
ASSUME CleanupAssumption == HasCleanup \in BOOLEAN
ASSUME CrashAssumption == MaxCrashes \in Nat

\* setup: the session has just been created; fail: git, GitHub, the cleanup task,
\* the first message or the start of a turn may fail; leave: the removal of the
\* worktree or another part of a finalization may fail; again: archive() may be
\* called again before an archive is over; turns: the agent gets messages; stop:
\* the user may stop the session; crash: the server may go down.
Event == {"setup", "fail", "leave", "archive", "again", "restore", "remove",
          "turns", "stop", "crash"}
ASSUME ScenarioAssumption == Scenario \subseteq SUBSET Event

Job  == "job"     \* scheduleSessionProvisioning
Boot == "boot"    \* restartInterruptedSessions
ASSUME NameAssumption == {Job, Boot} \cap Archive = {}

Failer    == {Job, Boot}            \* callers of failSessionProvisioning
Finalizer == Archive \cup {Boot}    \* callers of _finalizeRemoval
Sender    == {"user", Boot}         \* who gives the agent a message

Status == {"provisioning", "stopped", "failed", "archiving", "archived", "gone"}

VARIABLES
  may,                       \* what may happen in this behaviour
  status, archivedAt, path,  \* the row: status ("gone" for no row), archived_at
                             \* and session_path are set
  files,                     \* the worktree is on disk
  left,                      \* history: "files" when the last removal of the
                             \* worktree failed, "archive" when the last
                             \* finalization did
  pending,                   \* _archivePendingSessionIds has the session
  abort,                     \* _provisioningAbortSessionIds has the session
  job, boot,                 \* where the setup and the recovery are
  failing, aborted,          \* per Failer: where it is, what it has read
  archive, snap,             \* per archive(): where it is, the row it has read
  cleanup,                   \* per archive(): its cleanup task is running
  final,                     \* per Finalizer: where it is
  agent, working,            \* status of the primary builder; a turn is in
                             \* progress in this process
  sending,                   \* per Sender: where its message is
  restore, remove,           \* per call: where it is
  crashes

row    == <<status, archivedAt, path>>
memory == <<pending, abort>>
setup  == <<job, failing, aborted>>
calls  == <<archive, snap, cleanup>>
others == <<restore, remove>>
agents == <<agent, working, sending>>
vars   == <<may, row, files, left, memory, setup, boot, calls, final, agents, others,
            crashes>>

RowRead == [status : Status, archived : BOOLEAN, path : BOOLEAN]
JobPc == {"off", "create", "check", "undo", "record", "finish", "first", "last",
          "settle", "failing"}
BootPc == {"up", "abandon", "failing", "archives", "finalizing", "repair",
           "agents", "restart", "resuming", "interrupted"}
ArchivePc == {"idle", "check", "reread", "enter", "entered", "agents", "cleanup",
              "finalizing", "off"}
SendPc == {"off", "read", "dispatch", "open"}
RestorePc == {"idle", "create", "record", "adopt", "off"}

TypeOK ==
  /\ may \in Scenario
  /\ status \in Status /\ archivedAt \in BOOLEAN /\ path \in BOOLEAN
  /\ files \in BOOLEAN /\ left \subseteq {"files", "archive"}
  /\ pending \in BOOLEAN /\ abort \in BOOLEAN
  /\ job \in JobPc /\ boot \in BootPc
  /\ failing \in [Failer -> {"off", "read", "remove", "mark"}]
  /\ aborted \in [Failer -> BOOLEAN]
  /\ archive \in [Archive -> ArchivePc] /\ snap \in [Archive -> RowRead]
  /\ cleanup \in [Archive -> BOOLEAN]
  /\ final \in [Finalizer -> {"off", "files", "mark"}]
  /\ agent \in {"stopped", "running", "approval"}
  /\ working \in BOOLEAN /\ sending \in [Sender -> SendPc]
  /\ restore \in [Restore -> RestorePc]
  /\ remove \in [Remove -> {"idle", "delete", "off"}]
  /\ crashes \in 0 .. MaxCrashes

Row == [status |-> status, archived |-> archivedAt, path |-> path]

\* A session that was just created, or one that has been used for a while.
Init ==
  /\ may \in Scenario
  /\ status = IF "setup" \in may THEN "provisioning" ELSE "stopped"
  /\ archivedAt = FALSE /\ path = ("setup" \notin may)
  /\ files = path /\ left = {}
  /\ pending = FALSE /\ abort = FALSE
  /\ job = IF "setup" \in may THEN "create" ELSE "off"
  /\ boot = "up"
  /\ failing = [f \in Failer |-> "off"] /\ aborted = [f \in Failer |-> FALSE]
  /\ archive = [a \in Archive |-> "idle"]
  /\ snap = [a \in Archive |-> Row]
  /\ cleanup = [a \in Archive |-> FALSE]
  /\ final = [f \in Finalizer |-> "off"]
  /\ agent = "stopped" /\ working = FALSE
  /\ sending = [s \in Sender |-> "off"]
  /\ restore = [r \in Restore |-> "idle"] /\ remove = [x \in Remove |-> "idle"]
  /\ crashes = 0

-----------------------------------------------------------------------------
(* Setup *)

Cancelled == abort \/ archivedAt \/ status \in {"archiving", "archived"}

\* failSessionProvisioning up to its first await, in the step that throws
Fail(f) ==
  /\ failing' = [failing EXCEPT ![f] = "read"]
  /\ aborted' = [aborted EXCEPT ![f] = abort]

\* provisionSessionEnvironment: createWorktree, metadata, git checkout
CreateFiles ==
  /\ job = "create"
  /\ \/ files' = TRUE /\ job' = "check" /\ UNCHANGED <<failing, aborted>>
     \/ "fail" \in may /\ files' \in {files, TRUE} /\ job' = "failing" /\ Fail(Job)
  /\ UNCHANGED <<may, row, left, memory, boot, calls, final, agents, others, crashes>>

\* Mutant: only the ids in memory are looked at, not the row.
CheckCancelledInMemory ==
  /\ job = "check"
  /\ job' = IF abort THEN "undo" ELSE "record"
  /\ UNCHANGED <<may, row, files, left, memory, failing, aborted, boot, calls, final,
                 agents, others, crashes>>

\* throwIfProvisioningCancelled
CheckCancelled ==
  /\ job = "check"
  /\ job' = IF Cancelled THEN "undo" ELSE "record"
  /\ UNCHANGED <<may, row, files, left, memory, failing, aborted, boot, calls, final,
                 agents, others, crashes>>

\* removeWorktree where its caller catches what it throws
RemoveOrLeave ==
  \/ files' = FALSE /\ left' = left \ {"files"}
  \/ "leave" \in may /\ files /\ UNCHANGED files /\ left' = left \cup {"files"}

UndoFiles ==
  /\ job = "undo"
  /\ RemoveOrLeave
  /\ job' = "failing" /\ Fail(Job)
  /\ UNCHANGED <<may, row, memory, boot, calls, final, agents, others, crashes>>

\* The patch with the path; it throws when there is no row any more.
RecordPath ==
  /\ job = "record"
  /\ IF status = "gone"
     THEN job' = "failing" /\ Fail(Job) /\ UNCHANGED path
     ELSE job' = "finish" /\ path' = TRUE /\ UNCHANGED <<failing, aborted>>
  /\ UNCHANGED <<may, status, archivedAt, files, left, memory, boot, calls, final,
                 agents, others, crashes>>

\* finalizeSessionAfterProvision: the first test, the first message, ...
Finish ==
  /\ job = "finish"
  /\ job' = IF Cancelled THEN "off" ELSE "first"
  /\ UNCHANGED <<may, row, files, left, memory, failing, aborted, boot, calls, final,
                 agents, others, crashes>>

FirstMessage ==
  /\ job = "first"
  /\ \/ job' = "last" /\ UNCHANGED <<failing, aborted>>
     \/ "fail" \in may /\ job' = "failing" /\ Fail(Job)
  /\ UNCHANGED <<may, row, files, left, memory, boot, calls, final, agents, others,
                 crashes>>

\* ... the second test, and the patch that ends the setup
ReadLatest ==
  /\ job = "last"
  /\ job' = IF status = "provisioning" THEN "settle" ELSE "off"
  /\ UNCHANGED <<may, row, files, left, memory, failing, aborted, boot, calls, final,
                 agents, others, crashes>>

Settle ==
  /\ job = "settle"
  /\ IF status = "gone"
     THEN job' = "failing" /\ Fail(Job) /\ UNCHANGED status
     ELSE job' = "off" /\ status' = "stopped" /\ UNCHANGED <<failing, aborted>>
  /\ UNCHANGED <<may, archivedAt, path, files, left, memory, boot, calls, final,
                 agents, others, crashes>>

\* failSessionProvisioning: the row is read, ...
FailRead(f) ==
  /\ failing[f] = "read"
  /\ failing' = [failing EXCEPT ![f] = IF status # "gone" /\ ~archivedAt
                                       THEN "remove" ELSE "mark"]
  /\ UNCHANGED <<may, row, files, left, memory, job, aborted, boot, calls, final,
                 agents, others, crashes>>

\* ... the files are removed, a message is posted, ...
FailRemove(f) ==
  /\ failing[f] = "remove"
  /\ RemoveOrLeave
  /\ failing' = [failing EXCEPT ![f] = "mark"]
  /\ UNCHANGED <<may, row, memory, job, aborted, boot, calls, final, agents, others,
                 crashes>>

\* Mutant: the path of the removed worktree stays in the row.
FailMarkKeepsPath(f) ==
  /\ failing[f] = "mark"
  /\ failing' = [failing EXCEPT ![f] = "off"]
  /\ IF aborted[f]
     THEN /\ status' = IF status = "provisioning" THEN "stopped" ELSE status
          /\ UNCHANGED path
     ELSE /\ status' = IF status = "gone" THEN status ELSE "failed"
          /\ UNCHANGED path
  /\ job' = IF f = Job THEN "off" ELSE job
  /\ boot' = IF f = Boot THEN "archives" ELSE boot
  /\ UNCHANGED <<may, archivedAt, files, left, memory, aborted, calls, final, agents,
                 others, crashes>>

\* ... and unstickProvisioningSessionRow or markSessionSetupFailed ends it.
FailMark(f) ==
  /\ failing[f] = "mark"
  /\ failing' = [failing EXCEPT ![f] = "off"]
  /\ IF aborted[f]
     THEN /\ status' = IF status = "provisioning" THEN "stopped" ELSE status
          /\ UNCHANGED path
     ELSE /\ status' = IF status = "gone" THEN status ELSE "failed"
          /\ path' = FALSE
  /\ job' = IF f = Job THEN "off" ELSE job
  /\ boot' = IF f = Boot THEN "archives" ELSE boot
  /\ UNCHANGED <<may, archivedAt, files, left, memory, aborted, calls, final, agents,
                 others, crashes>>

-----------------------------------------------------------------------------
(* Archive *)

\* The call's hook reads the row; an archived session is refused.
ArchiveCalled(a) ==
  /\ "archive" \in may /\ archive[a] = "idle" /\ status # "gone"
  /\ "again" \in may \/ \A b \in Archive : archive[b] = "idle" \/ archivedAt
  /\ snap' = [snap EXCEPT ![a] = Row]
  /\ archive' = [archive EXCEPT ![a] = IF archivedAt THEN "off" ELSE "check"]
  /\ UNCHANGED <<may, row, files, left, memory, setup, boot, cleanup, final, agents,
                 others, crashes>>

\* A setup in progress is told to stop, and unstickProvisioningSessionRow.
CancelSetup(a) ==
  /\ archive[a] = "check"
  /\ IF snap[a].status = "provisioning"
     THEN /\ abort' = TRUE
          /\ status' = IF status = "provisioning" THEN "stopped" ELSE status
          /\ archive' = [archive EXCEPT ![a] = "reread"]
     ELSE /\ archive' = [archive EXCEPT ![a] = "enter"]
          /\ UNCHANGED <<abort, status>>
  /\ UNCHANGED <<may, archivedAt, path, files, left, pending, setup, boot, snap,
                 cleanup, final, agents, others, crashes>>

Reread(a) ==
  /\ archive[a] = "reread"
  /\ snap' = [snap EXCEPT ![a] = Row]
  /\ archive' = [archive EXCEPT ![a] = IF status = "gone" \/ archivedAt
                                       THEN "off" ELSE "enter"]
  /\ UNCHANGED <<may, row, files, left, memory, setup, boot, cleanup, final, agents,
                 others, crashes>>

\* Mutant: only a call that was read as archiving is rejected.
EnterUnlessArchiving(a) ==
  /\ archive[a] = "enter"
  /\ archive' = [archive EXCEPT ![a] = IF snap[a].status = "archiving"
                                       THEN "off" ELSE "entered"]
  /\ pending' = TRUE
  /\ UNCHANGED <<may, row, files, left, abort, setup, boot, snap, cleanup, final,
                 agents, others, crashes>>

\* A second archive is rejected while the first is in archive().
Enter(a) ==
  /\ archive[a] = "enter"
  /\ archive' = [archive EXCEPT ![a] = IF pending THEN "off" ELSE "entered"]
  /\ pending' = TRUE
  /\ UNCHANGED <<may, row, files, left, abort, setup, boot, snap, cleanup, final,
                 agents, others, crashes>>

\* finally: both sets forget the session, whoever has added it.
Return == pending' = FALSE /\ abort' = FALSE

\* The draft pull request is closed, and the status set unless it was read as
\* archiving.  The former, and the patch when there is no row, may throw.
MarkArchiving(a) ==
  /\ archive[a] = "entered"
  /\ \/ /\ archive' = [archive EXCEPT ![a] = "off"]
        /\ "fail" \in may \/ (status = "gone" /\ snap[a].status # "archiving")
        /\ Return
        /\ UNCHANGED <<status, snap>>
     \/ /\ archive' = [archive EXCEPT ![a] = "agents"]
        /\ IF snap[a].status = "archiving"
           THEN UNCHANGED <<status, snap>>
           ELSE /\ status # "gone" /\ status' = "archiving"
                /\ snap' = [snap EXCEPT ![a].path = path]
        /\ UNCHANGED memory
  /\ UNCHANGED <<may, archivedAt, path, files, left, setup, boot, cleanup, final,
                 agents, others, crashes>>

\* _stopAllBuilderAgents
StopAgents == agent' = "stopped" /\ working' = FALSE

StopBuilders(a) ==
  /\ archive[a] = "agents"
  /\ StopAgents
  /\ archive' = [archive EXCEPT ![a] = "cleanup"]
  /\ UNCHANGED <<may, row, files, left, memory, setup, boot, snap, cleanup, final,
                 sending, others, crashes>>

\* _runCleanupAndFinalize.  With a cleanup task archive() returns at once.
\* Without its configuration there is none; for an archived session its creation
\* fails, and may fail anyway, and the session is finalized at once.
RunCleanup(a) ==
  /\ archive[a] = "cleanup"
  /\ LET cleans == HasCleanup /\ snap[a].path /\ files /\ status # "gone" /\ ~archivedAt
     IN  \/ /\ cleans
            /\ cleanup' = [cleanup EXCEPT ![a] = TRUE]
            /\ archive' = [archive EXCEPT ![a] = "off"]
            /\ Return
            /\ UNCHANGED final
         \/ /\ ~cleans \/ "fail" \in may
            /\ final' = [final EXCEPT ![a] = "files"]
            /\ archive' = [archive EXCEPT ![a] = "finalizing"]
            /\ UNCHANGED <<memory, cleanup>>
  /\ UNCHANGED <<may, row, files, left, setup, boot, snap, agents, others, crashes>>

\* The task exits, by itself, by its time limit or because another
\* finalization kills it, and its onExit finalizes.
CleanupExits(a) ==
  /\ cleanup[a]
  /\ cleanup' = [cleanup EXCEPT ![a] = FALSE]
  /\ final' = [final EXCEPT ![a] = "files"]
  /\ UNCHANGED <<may, row, files, left, memory, setup, boot, archive, snap, agents,
                 others, crashes>>

\* The row, where archived_at is null
MarkRow ==
  IF archivedAt \/ status = "gone"
  THEN UNCHANGED row
  ELSE status' = "archived" /\ archivedAt' = TRUE /\ path' = FALSE

\* Mutant: the row is marked archived before the worktree is removed.
RemoveFilesAfter(f) ==
  /\ final[f] = "files"
  /\ UNCHANGED <<files, left>> /\ MarkRow
  /\ final' = [final EXCEPT ![f] = "mark"]
  /\ UNCHANGED <<may, memory, setup, boot, calls, agents, others, crashes>>

\* The end of _finalizeRemoval, whether it returns or throws: archive() returns
\* or throws, the cleanup task's onExit and the recovery log the error.
FinalizeEnds(f) ==
  /\ final' = [final EXCEPT ![f] = "off"]
  /\ IF f \in Archive /\ archive[f] = "finalizing"
     THEN archive' = [archive EXCEPT ![f] = "off"] /\ Return
     ELSE UNCHANGED <<archive, memory>>
  /\ boot' = IF f = Boot THEN "repair" ELSE boot

\* _finalizeRemoval: trimSessionMessagesForArchive, removeWorktree,
\* deleteSessionTasks.  Both of the former may throw.
RemoveFiles(f) ==
  /\ final[f] = "files"
  /\ IF status = "gone"
     THEN UNCHANGED <<files, left>>
     ELSE files' = FALSE /\ left' = left \ {"files"}
  /\ final' = [final EXCEPT ![f] = "mark"]
  /\ UNCHANGED <<may, row, memory, setup, boot, calls, agents, others, crashes>>

\* ... or the strong loops of the session, which are deleted next, do.
FinalizeFails(f) ==
  /\ "leave" \in may /\ final[f] # "off"
  /\ left' = left \cup {"archive"}
  /\ FinalizeEnds(f)
  /\ UNCHANGED <<may, row, files, setup, snap, cleanup, agents, others, crashes>>

MarkArchived(f) ==
  /\ final[f] = "mark"
  /\ MarkRow
  /\ left' = left \ {"archive"}
  /\ FinalizeEnds(f)
  /\ UNCHANGED <<may, files, setup, snap, cleanup, agents, others, crashes>>

-----------------------------------------------------------------------------
(* Restore, removal, stop *)

RestoreCalled(r) ==
  /\ "restore" \in may /\ restore[r] = "idle" /\ status # "gone" /\ archivedAt
  /\ restore' = [restore EXCEPT ![r] = IF path /\ files THEN "adopt" ELSE "create"]
  /\ UNCHANGED <<may, row, files, left, memory, setup, boot, calls, final, agents,
                 remove, crashes>>

\* createWorktree, which uses a linked worktree that is there
RestoreFiles(r) ==
  /\ restore[r] = "create"
  /\ \/ /\ files' = TRUE /\ left' = left \ {"files"}
        /\ restore' = [restore EXCEPT ![r] = "record"]
     \/ /\ "fail" \in may /\ files' \in {files, TRUE} /\ UNCHANGED left
        /\ restore' = [restore EXCEPT ![r] = "off"]
  /\ UNCHANGED <<may, row, memory, setup, boot, calls, final, agents, remove,
                 crashes>>

MarkRestored(r) ==
  /\ restore[r] \in {"record", "adopt"}
  /\ IF status = "gone"
     THEN UNCHANGED row
     ELSE /\ status' = "stopped" /\ archivedAt' = FALSE
          /\ path' = (path \/ restore[r] = "record")
  /\ restore' = [restore EXCEPT ![r] = "off"]
  /\ UNCHANGED <<may, files, left, memory, setup, boot, calls, final, agents, remove,
                 crashes>>

RemoveCalled(x) ==
  /\ "remove" \in may /\ remove[x] = "idle" /\ archivedAt /\ status # "archiving"
  /\ remove' = [remove EXCEPT ![x] = "delete"]
  /\ UNCHANGED <<may, row, files, left, memory, setup, boot, calls, final, agents,
                 restore, crashes>>

\* The transaction, which does not look at the row again
RemoveRow(x) ==
  /\ remove[x] = "delete"
  /\ status' = "gone" /\ archivedAt' = FALSE /\ path' = FALSE
  /\ agent' = "stopped"
  /\ remove' = [remove EXCEPT ![x] = "off"]
  /\ UNCHANGED <<may, files, left, memory, setup, boot, calls, final, working,
                 sending, restore, crashes>>

\* stop(): whatever the status
StopSession ==
  /\ "stop" \in may /\ status # "gone"
  /\ status' = "stopped" /\ StopAgents
  /\ UNCHANGED <<may, archivedAt, path, files, left, memory, setup, boot, calls,
                 final, sending, others, crashes>>

-----------------------------------------------------------------------------
(* Turns of the primary builder, see AgentTurn *)

Usable == status \notin {"archiving", "archived", "gone"} /\ ~archivedAt

\* The recovery waits for the message it has created.
MessageEnds(s) ==
  /\ sending' = [sending EXCEPT ![s] = "off"]
  /\ boot' = IF s = Boot THEN "up" ELSE boot

\* A dispatch that throws: the failure is logged, the recovery stops the session.
MessageFails(s) ==
  /\ sending' = [sending EXCEPT ![s] = "off"]
  /\ boot' = IF s = Boot THEN "interrupted" ELSE boot

\* A message of an idle agent; onMessageCreated reads the session, ...
SendMessage ==
  /\ "turns" \in may /\ sending["user"] = "off" /\ agent # "running"
  /\ status \notin {"provisioning", "gone"}
  /\ sending' = [sending EXCEPT !["user"] = IF Usable THEN "read" ELSE "dispatch"]
  /\ UNCHANGED <<may, row, files, left, memory, setup, boot, calls, final, agent,
                 working, others, crashes>>

\* ... and sets the agent to running.
SetRunning(s) ==
  /\ sending[s] = "read"
  /\ sending' = [sending EXCEPT ![s] = "dispatch"]
  /\ agent' = IF status = "gone" THEN agent ELSE "running"
  /\ UNCHANGED <<may, row, files, left, memory, setup, boot, calls, final, working,
                 others, crashes>>

\* The agent's service reads the session again.  A session that cannot be worked
\* on is passed over, a turn in progress takes the message.
Dispatch(s) ==
  /\ sending[s] = "dispatch"
  /\ \/ status = "gone" /\ MessageFails(s)
     \/ status # "gone" /\ (~Usable \/ ~path \/ working) /\ MessageEnds(s)
     \/ Usable /\ path /\ ~working
        /\ sending' = [sending EXCEPT ![s] = "open"] /\ UNCHANGED boot
  /\ UNCHANGED <<may, row, files, left, memory, setup, calls, final, agent, working,
                 others, crashes>>

\* The query is opened.  In a new conversation the agent is set to running once
\* more, unless it was read as running.
OpenTurn(s) ==
  /\ sending[s] = "open"
  /\ \/ /\ working' = TRUE /\ MessageEnds(s)
        /\ agent' \in {agent, IF status = "gone" THEN agent ELSE "running"}
     \/ "fail" \in may /\ MessageFails(s) /\ UNCHANGED <<agent, working>>
  /\ UNCHANGED <<may, row, files, left, memory, setup, calls, final, others, crashes>>

EndTurn ==
  /\ working
  /\ \/ agent' = "stopped" /\ working' = FALSE
     \/ agent = "running" /\ agent' = "approval" /\ UNCHANGED working
  /\ UNCHANGED <<may, row, files, left, memory, setup, boot, calls, final, sending,
                 others, crashes>>

-----------------------------------------------------------------------------
(* Restart *)

\* A git command in progress may have done its work or not.
Crash ==
  /\ "crash" \in may /\ crashes < MaxCrashes /\ crashes' = crashes + 1
  /\ \/ UNCHANGED files
     \/ (job = "create" \/ \E r \in Restore : restore[r] = "create") /\ files' = TRUE
     \/ /\ \/ job = "undo"
           \/ \E f \in Failer : failing[f] = "remove"
           \/ \E f \in Finalizer : final[f] = "files"
        /\ files' = FALSE
  /\ pending' = FALSE /\ abort' = FALSE
  /\ job' = "off"
  /\ failing' = [f \in Failer |-> "off"]
  /\ archive' = [a \in Archive |-> IF archive[a] = "idle" THEN "idle" ELSE "off"]
  /\ cleanup' = [a \in Archive |-> FALSE]
  /\ final' = [f \in Finalizer |-> "off"]
  /\ restore' = [r \in Restore |-> IF restore[r] = "idle" THEN "idle" ELSE "off"]
  /\ remove' = [x \in Remove |-> IF remove[x] = "idle" THEN "idle" ELSE "off"]
  /\ working' = FALSE /\ sending' = [s \in Sender |-> "off"]
  /\ boot' = "abandon"
  /\ UNCHANGED <<may, row, left, aborted, snap, agent>>

\* restartInterruptedSessions, while requests are served again
AbandonSetup ==
  /\ boot = "abandon"
  /\ IF status = "provisioning" /\ ~archivedAt
     THEN boot' = "failing" /\ Fail(Boot)
     ELSE boot' = "archives" /\ UNCHANGED <<failing, aborted>>
  /\ UNCHANGED <<may, row, files, left, memory, job, calls, final, agents, others,
                 crashes>>

\* Mutant: nothing is completed.
CompleteNoArchives ==
  /\ boot = "archives" /\ boot' = "repair"
  /\ UNCHANGED <<may, row, files, left, memory, setup, calls, final, agents, others,
                 crashes>>

CompleteArchives ==
  /\ boot = "archives"
  /\ IF status = "archiving" /\ ~archivedAt
     THEN boot' = "finalizing" /\ final' = [final EXCEPT ![Boot] = "files"]
     ELSE boot' = "repair" /\ UNCHANGED final
  /\ UNCHANGED <<may, row, files, left, memory, setup, calls, agents, others,
                 crashes>>

RepairStatus ==
  /\ boot = "repair" /\ boot' = "agents"
  /\ status' = IF archivedAt /\ status = "archiving" THEN "archived" ELSE status
  /\ UNCHANGED <<may, archivedAt, path, files, left, memory, setup, calls, final,
                 agents, others, crashes>>

\* The primary builder that was interrupted is selected, ...
SelectInterrupted ==
  /\ boot = "agents"
  /\ boot' = IF agent # "stopped" /\ ~archivedAt THEN "restart" ELSE "up"
  /\ UNCHANGED <<may, row, files, left, memory, setup, calls, final, agents, others,
                 crashes>>

\* ... its conversation resumed by a message, if there is one, ...
RestartTurn ==
  /\ boot = "restart"
  /\ IF status = "gone"
     THEN boot' = "up" /\ UNCHANGED sending
     ELSE \/ boot' = "interrupted" /\ UNCHANGED sending
          \/ /\ boot' = "resuming"
             /\ sending' = [sending EXCEPT ![Boot] = IF Usable THEN "read" ELSE "dispatch"]
  /\ UNCHANGED <<may, row, files, left, memory, setup, calls, final, agent, working,
                 others, crashes>>

\* Mutant: the session gets a status of its own.
MarkInterrupted ==
  /\ boot = "interrupted" /\ boot' = "up"
  /\ status' = "interrupted"
  /\ UNCHANGED <<may, archivedAt, path, files, left, memory, setup, calls, final,
                 agents, others, crashes>>

\* ... or the session is stopped.
StopInterrupted ==
  /\ boot = "interrupted" /\ boot' = "up"
  /\ status' = IF status = "gone" THEN status ELSE "stopped"
  /\ UNCHANGED <<may, archivedAt, path, files, left, memory, setup, calls, final,
                 agents, others, crashes>>

-----------------------------------------------------------------------------
Setup == CreateFiles \/ CheckCancelled \/ UndoFiles \/ RecordPath \/ Finish
         \/ FirstMessage \/ ReadLatest \/ Settle
Failure(f) == FailRead(f) \/ FailRemove(f) \/ FailMark(f)
ArchiveGoesOn(a) == CancelSetup(a) \/ Reread(a) \/ Enter(a) \/ MarkArchiving(a)
                    \/ StopBuilders(a) \/ RunCleanup(a) \/ CleanupExits(a)
Finalize(f) == RemoveFiles(f) \/ FinalizeFails(f) \/ MarkArchived(f)
Recovery == AbandonSetup \/ CompleteArchives \/ RepairStatus
            \/ SelectInterrupted \/ RestartTurn \/ StopInterrupted

Deliver(s) == SetRunning(s) \/ Dispatch(s) \/ OpenTurn(s)

\* What goes on by itself once it has begun
GoesOn ==
  \/ Setup \/ Recovery \/ EndTurn
  \/ \E s \in Sender : Deliver(s)
  \/ \E f \in Failer : Failure(f)
  \/ \E a \in Archive : ArchiveGoesOn(a)
  \/ \E f \in Finalizer : Finalize(f)
  \/ \E r \in Restore : RestoreFiles(r) \/ MarkRestored(r)
  \/ \E x \in Remove : RemoveRow(x)

Next ==
  \/ GoesOn
  \/ \E a \in Archive : ArchiveCalled(a)
  \/ \E r \in Restore : RestoreCalled(r)
  \/ \E x \in Remove : RemoveCalled(x)
  \/ StopSession \/ SendMessage
  \/ Crash

Spec == Init /\ [][Next]_vars

\* Calls that have begun go on; cleanup tasks end (their run time is limited).
Fairness ==
  /\ WF_vars(Setup) /\ WF_vars(Recovery)
  /\ \A s \in Sender : WF_vars(Deliver(s))
  /\ \A f \in Failer : WF_vars(Failure(f))
  /\ \A a \in Archive : WF_vars(ArchiveGoesOn(a))
  /\ \A f \in Finalizer : WF_vars(Finalize(f))
  /\ \A r \in Restore : WF_vars(RestoreFiles(r) \/ MarkRestored(r))
  /\ \A x \in Remove : WF_vars(RemoveRow(x))

FairSpec == Spec /\ Fairness

-----------------------------------------------------------------------------
(* Properties *)

InArchive(a) == archive[a] \in {"entered", "agents", "cleanup", "finalizing"}

\* No call, job, task or message has anything left to do.
Quiet ==
  /\ job = "off" /\ boot = "up"
  /\ \A s \in Sender : sending[s] = "off"
  /\ \A f \in Failer : failing[f] = "off"
  /\ \A f \in Finalizer : final[f] = "off"
  /\ \A a \in Archive : archive[a] \in {"idle", "off"} /\ ~cleanup[a]
  /\ \A r \in Restore : restore[r] \in {"idle", "off"}
  /\ \A x \in Remove : remove[x] \in {"idle", "off"}

\* archive() excludes itself, however many calls there are, whatever they have
\* read before they wait for a setup to stop and however the first one ends
\* (_archivePendingSessionIds, which archive() clears in a finally).
OneArchiver == \A a, b \in Archive : InArchive(a) /\ InArchive(b) => a = b

\* An archived session leaves nothing on disk, also when it was archived while
\* its setup was creating the worktree (throwIfProvisioningCancelled) or when
\* the server went down in between (_completeInterruptedArchives), unless the
\* last removal of the worktree failed and its caller went on (2042-2044,
\* 2129-2131).
ArchivedFilesGone == Quiet /\ archivedAt => ~files \/ "files" \in left

\* Once nothing goes on, the row of a session that is not archived never names a
\* worktree that is gone, and a worktree without a row that names it is one that
\* the last removal could not remove.  A session whose finalization failed is
\* the exception: it waits for another archive() or the next start.
RowMatchesFiles ==
  Quiet /\ ~archivedAt /\ "archive" \notin left =>
    LET named == path /\ status # "gone"
    IN  /\ named => files
        /\ files => named \/ "files" \in left

\* _finalizeRemoval marks a session archived only after the worktree is gone
\* (the comment in it), unless a setup is still creating one, or has created one
\* in the meantime and then could not remove it.
MarkedAfterFiles ==
  [][~archivedAt /\ archivedAt' /\ job = "off" => ~files \/ "files" \in left]_vars

\* An archive that has begun is completed, by this process or the next one,
\* unless its finalization fails.
ArchiveCompletes == status = "archiving" ~> archivedAt \/ "archive" \in left

\* Refuted: an archived session has the status archived.  When its setup fails
\* after the archive is over, it is marked failed.
StatusMatches == Quiet => (archivedAt <=> status = "archived")

\* Refuted: nothing is on disk without a row that names it.  A removal that
\* fails in failSessionProvisioning is logged, and the path forgotten.
NothingLeft == Quiet /\ files => path /\ status # "gone"

\* Refuted: an archive that has begun is completed.  What a finalization throws
\* is logged, and the session stays archiving.
ArchiveAlwaysCompletes == status = "archiving" ~> archivedAt

\* Refuted: nobody works for an archived session and its agent does not claim to
\* run.  A message sets the agent to running, or opens a turn, after it has read
\* the session and after the archive has stopped the agents.
ArchivedRests == Quiet /\ archivedAt => ~working /\ agent # "running"

\* Refuted: once the server is up again, an agent that claims to run has
\* somebody working for it.  When an interrupted turn cannot be resumed, only
\* the status of the session is changed.
GhostFree == Quiet /\ agent = "running" => working
=============================================================================
