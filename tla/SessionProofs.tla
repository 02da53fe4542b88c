----------------------------- MODULE SessionProofs -----------------------------
(***************************************************************************)
(* Theorems about SessionLifecycle, for any number of calls, any scenario  *)
(* and any number of restarts: its variables have their types and          *)
(* archive() excludes itself.  As long as nothing creates worktrees a      *)
(* session is marked archived only after its worktree is gone, and the row *)
(* and the files agree whenever nothing goes on, however many removals and *)
(* finalizations fail, except while a failed finalization is not repeated. *)
(***************************************************************************)
EXTENDS SessionLifecycle, TLAPS

-----------------------------------------------------------------------------
(* Types.  TypeOK is proved in two halves, for Zenon does better with the      *)
(* variables that are true or false, and SMT with the others.                  *)

Flags ==
  /\ archivedAt \in BOOLEAN /\ path \in BOOLEAN /\ files \in BOOLEAN
  /\ pending \in BOOLEAN /\ abort \in BOOLEAN
  /\ working \in BOOLEAN

Places ==
  /\ may \in Scenario
  /\ status \in Status
  /\ job \in JobPc /\ boot \in BootPc
  /\ failing \in [Failer -> {"off", "read", "remove", "mark"}]
  /\ aborted \in [Failer -> BOOLEAN]
  /\ archive \in [Archive -> ArchivePc] /\ snap \in [Archive -> RowRead]
  /\ cleanup \in [Archive -> BOOLEAN]
  /\ final \in [Finalizer -> {"off", "files", "mark"}]
  /\ agent \in {"stopped", "running", "approval"}
  /\ left \subseteq {"files", "archive"}
  /\ sending \in [Sender -> SendPc]
  /\ restore \in [Restore -> RestorePc]
  /\ remove \in [Remove -> {"idle", "delete", "off"}]
  /\ crashes \in 0 .. MaxCrashes

LEMMA Parts == /\ TypeOK <=> Flags /\ Places
               /\ TypeOK' <=> Flags' /\ Places'
  BY DEF TypeOK, Flags, Places

Turns == StopSession \/ SendMessage \/ EndTurn \/ \E s \in Sender : Deliver(s)

LEMMA Failers == Job \in Failer /\ Boot \in Failer /\ Boot \in Finalizer /\ Archive \subseteq Finalizer
  BY DEF Failer, Finalizer

LEMMA FailTyped ==
  ASSUME Flags, Places, NEW f \in Failer, Fail(f)
  PROVE  /\ failing' \in [Failer -> {"off", "read", "remove", "mark"}]
         /\ aborted' \in [Failer -> BOOLEAN]
  BY DEF Flags, Places, Fail

LEMMA SetupTyped ==
  ASSUME Flags, Places, Setup
  PROVE  Flags' /\ Places'
<1>1. CASE CreateFiles
  <2>1. Flags'
    BY <1>1, Zenon
    DEF CreateFiles, row, memory, calls, agents, others, Flags
  <2>2. Places'
    BY <1>1, FailTyped, Failers
    DEF CreateFiles, row, memory, calls, agents, others, JobPc, Flags, Places
  <2> QED
    BY <2>1, <2>2
<1>2. CASE CheckCancelled
  <2>1. Flags'
    BY <1>2, Zenon
    DEF CheckCancelled, row, memory, calls, agents, others, Flags
  <2>2. Places'
    BY <1>2
    DEF CheckCancelled, row, memory, calls, agents, others, JobPc, Flags,
        Places
  <2> QED
    BY <2>1, <2>2
<1>3. CASE UndoFiles
  <2>1. Flags'
    BY <1>3, Zenon
    DEF UndoFiles, RemoveOrLeave, row, memory, calls, agents, others, Flags
  <2>2. Places'
    BY <1>3, FailTyped, Failers
    DEF UndoFiles, RemoveOrLeave, row, memory, calls, agents, others, JobPc, Flags,
       Places
  <2> QED
    BY <2>1, <2>2
<1>4. CASE RecordPath
  <2>1. Flags'
    BY <1>4, Zenon
    DEF RecordPath, memory, calls, agents, others, Flags
  <2>2. Places'
    BY <1>4, FailTyped, Failers
    DEF RecordPath, memory, calls, agents, others, JobPc, Flags, Places
  <2> QED
    BY <2>1, <2>2
<1>5. CASE Finish
  <2>1. Flags'
    BY <1>5, Zenon
    DEF Finish, row, memory, calls, agents, others, Flags
  <2>2. Places'
    BY <1>5
    DEF Finish, row, memory, calls, agents, others, JobPc, Flags, Places
  <2> QED
    BY <2>1, <2>2
<1>6. CASE FirstMessage
  <2>1. Flags'
    BY <1>6, Zenon
    DEF FirstMessage, row, memory, calls, agents, others, Flags
  <2>2. Places'
    BY <1>6, FailTyped, Failers
    DEF FirstMessage, row, memory, calls, agents, others, JobPc, Flags, Places
  <2> QED
    BY <2>1, <2>2
<1>7. CASE ReadLatest
  <2>1. Flags'
    BY <1>7, Zenon
    DEF ReadLatest, row, memory, calls, agents, others, Flags
  <2>2. Places'
    BY <1>7
    DEF ReadLatest, row, memory, calls, agents, others, JobPc, Flags, Places
  <2> QED
    BY <2>1, <2>2
<1>8. CASE Settle
  <2>1. Flags'
    BY <1>8, Zenon
    DEF Settle, memory, calls, agents, others, Flags
  <2>2. Places'
    BY <1>8, FailTyped, Failers
    DEF Settle, memory, calls, agents, others, JobPc, Status, Flags, Places
  <2> QED
    BY <2>1, <2>2
<1> QED
  BY <1>1, <1>2, <1>3, <1>4, <1>5, <1>6, <1>7, <1>8 DEF Setup

LEMMA FailureTyped ==
  ASSUME Flags, Places, NEW f \in Failer, Failure(f)
  PROVE  Flags' /\ Places'
<1>1. CASE FailRead(f)
  <2>1. Flags'
    BY <1>1, Zenon
    DEF FailRead, row, memory, calls, agents, others, Flags
  <2>2. Places'
    BY <1>1
    DEF FailRead, row, memory, calls, agents, others, Flags, Places
  <2> QED
    BY <2>1, <2>2
<1>2. CASE FailRemove(f)
  <2>1. Flags'
    BY <1>2, Zenon
    DEF FailRemove, RemoveOrLeave, row, memory, calls, agents, others, Flags
  <2>2. Places'
    BY <1>2
    DEF FailRemove, RemoveOrLeave, row, memory, calls, agents, others, Flags, Places
  <2> QED
    BY <2>1, <2>2
<1>3. CASE FailMark(f)
  <2>1. Flags'
    BY <1>3, Zenon
    DEF FailMark, memory, calls, agents, others, Flags
  <2>2. Places'
    BY <1>3
    DEF FailMark, memory, calls, agents, others, JobPc, BootPc, Status, Flags,
        Places
  <2> QED
    BY <2>1, <2>2
<1> QED
  BY <1>1, <1>2, <1>3 DEF Failure

LEMMA ArchiveTyped ==
  ASSUME Flags, Places, NEW a \in Archive, ArchiveCalled(a) \/ ArchiveGoesOn(a)
  PROVE  Flags' /\ Places'
<1>1. CASE ArchiveCalled(a)
  <2>1. Flags'
    BY <1>1, Zenon
    DEF ArchiveCalled, Row, row, memory, setup, agents, others, Flags
  <2>2. Places'
    BY <1>1
    DEF ArchiveCalled, Row, row, memory, setup, agents, others, ArchivePc,
        RowRead, Status, Flags, Places
  <2> QED
    BY <2>1, <2>2
<1>2. CASE CancelSetup(a)
  <2>1. Flags'
    BY <1>2, Zenon
    DEF CancelSetup, setup, agents, others, Flags
  <2>2. Places'
    BY <1>2
    DEF CancelSetup, setup, agents, others, ArchivePc, Status, Flags, Places
  <2> QED
    BY <2>1, <2>2
<1>3. CASE Reread(a)
  <2>1. Flags'
    BY <1>3, Zenon
    DEF Reread, Row, row, memory, setup, agents, others, Flags
  <2>2. Places'
    BY <1>3
    DEF Reread, Row, row, memory, setup, agents, others, ArchivePc, RowRead,
        Status, Flags, Places
  <2> QED
    BY <2>1, <2>2
<1>4. CASE Enter(a)
  <2>1. Flags'
    BY <1>4, Zenon
    DEF Enter, row, setup, agents, others, Flags
  <2>2. Places'
    BY <1>4
    DEF Enter, row, setup, agents, others, ArchivePc, Flags, Places
  <2> QED
    BY <2>1, <2>2
<1>5. CASE MarkArchiving(a)
  <2>1. Flags'
    BY <1>5, Zenon
    DEF MarkArchiving, Return, memory, setup, agents, others, Flags
  <2>2. status' \in Status
    BY <1>5 DEF MarkArchiving, Status, Places
  <2>3. snap' \in [Archive -> RowRead]
    <3>1. [snap[a] EXCEPT !.path = path] \in RowRead
      BY DEF RowRead, Flags, Places
    <3>2. snap' = snap \/ snap' = [snap EXCEPT ![a] = [snap[a] EXCEPT !.path = path]]
      BY <1>5 DEF MarkArchiving
    <3> QED
      BY <3>1, <3>2 DEF Places
  <2>4. archive' \in [Archive -> ArchivePc]
    BY <1>5 DEF MarkArchiving, ArchivePc, Places
  <2>5. Places'
    BY <1>5, <2>2, <2>3, <2>4
    DEF MarkArchiving, setup, agents, others, Places
  <2> QED
    BY <2>1, <2>5
<1>6. CASE StopBuilders(a)
  <2>1. Flags'
    BY <1>6, Zenon
    DEF StopBuilders, StopAgents, row, memory, setup, agents, others, Flags
  <2>2. Places'
    BY <1>6
    DEF StopBuilders, StopAgents, row, memory, setup, agents, others,
        ArchivePc, Flags, Places
  <2> QED
    BY <2>1, <2>2
<1>7. CASE RunCleanup(a)
  <2>1. Flags'
    BY <1>7, Zenon
    DEF RunCleanup, Return, row, memory, setup, agents, others, Flags
  <2>2. Places'
    BY <1>7
    DEF RunCleanup, Return, row, memory, setup, agents, others, ArchivePc,
        Flags, Places
  <2> QED
    BY <2>1, <2>2
<1>8. CASE CleanupExits(a)
  <2>1. Flags'
    BY <1>8, Zenon
    DEF CleanupExits, row, memory, setup, agents, others, Flags
  <2>2. Places'
    BY <1>8
    DEF CleanupExits, row, memory, setup, agents, others, Flags, Places
  <2> QED
    BY <2>1, <2>2
<1> QED
  BY <1>1, <1>2, <1>3, <1>4, <1>5, <1>6, <1>7, <1>8 DEF ArchiveGoesOn

LEMMA FinalizeTyped ==
  ASSUME Flags, Places, NEW f \in Finalizer, Finalize(f)
  PROVE  Flags' /\ Places'
<1>1. CASE RemoveFiles(f)
  <2>1. Flags'
    BY <1>1, Zenon
    DEF RemoveFiles, row, memory, setup, calls, agents, others, Flags
  <2>2. Places'
    BY <1>1
    DEF RemoveFiles, row, memory, setup, calls, agents, others, Flags, Places
  <2> QED
    BY <2>1, <2>2
<1>2. CASE FinalizeFails(f)
  <2>1. Flags'
    BY <1>2, Zenon
    DEF FinalizeFails, FinalizeEnds, Return, row, memory, setup, agents, others,
        Flags
  <2>2. Places'
    BY <1>2
    DEF FinalizeFails, FinalizeEnds, Return, row, memory, setup, agents, others,
        BootPc, ArchivePc, Flags, Places
  <2> QED
    BY <2>1, <2>2
<1>3. CASE MarkArchived(f)
  <2>1. Flags'
    BY <1>3, Zenon
    DEF MarkArchived, FinalizeEnds, Return, MarkRow, row, memory, setup, agents,
        others, Flags
  <2>2. Places'
    BY <1>3
    DEF MarkArchived, FinalizeEnds, Return, MarkRow, row, memory, setup, agents,
        others, BootPc, ArchivePc, Status, Flags, Places
  <2> QED
    BY <2>1, <2>2
<1> QED
  BY <1>1, <1>2, <1>3 DEF Finalize

LEMMA RecoveryTyped ==
  ASSUME Flags, Places, Recovery
  PROVE  Flags' /\ Places'
<1>1. CASE AbandonSetup
  <2>1. Flags'
    BY <1>1, Zenon
    DEF AbandonSetup, row, memory, calls, agents, others, Flags
  <2>2. Places'
    BY <1>1, FailTyped, Failers
    DEF AbandonSetup, row, memory, calls, agents, others, BootPc, Flags,
        Places
  <2> QED
    BY <2>1, <2>2
<1>2. CASE CompleteArchives
  <2>1. Flags'
    BY <1>2, Zenon
    DEF CompleteArchives, row, memory, setup, calls, agents, others, Flags
  <2>2. Places'
    BY <1>2
    DEF CompleteArchives, row, memory, setup, calls, agents, others, BootPc,
        Flags, Places
  <2> QED
    BY <2>1, <2>2
<1>3. CASE RepairStatus
  <2>1. Flags'
    BY <1>3, Zenon
    DEF RepairStatus, memory, setup, calls, agents, others, Flags
  <2>2. Places'
    BY <1>3
    DEF RepairStatus, memory, setup, calls, agents, others, BootPc, Status,
        Flags, Places
  <2> QED
    BY <2>1, <2>2
<1>4. CASE SelectInterrupted
  <2>1. Flags'
    BY <1>4, Zenon
    DEF SelectInterrupted, row, memory, setup, calls, agents, others, Flags
  <2>2. Places'
    BY <1>4
    DEF SelectInterrupted, row, memory, setup, calls, agents, others, BootPc,
        Flags, Places
  <2> QED
    BY <2>1, <2>2
<1>5. CASE RestartTurn
  <2>1. Flags'
    BY <1>5, Zenon
    DEF RestartTurn, row, memory, setup, calls, others, Flags
  <2>2. Places'
    BY <1>5
    DEF RestartTurn, row, memory, setup, calls, others, BootPc, SendPc, Flags,
        Places
  <2> QED
    BY <2>1, <2>2
<1>6. CASE StopInterrupted
  <2>1. Flags'
    BY <1>6, Zenon
    DEF StopInterrupted, memory, setup, calls, agents, others, Flags
  <2>2. Places'
    BY <1>6
    DEF StopInterrupted, memory, setup, calls, agents, others, BootPc, Status,
        Flags, Places
  <2> QED
    BY <2>1, <2>2
<1> QED
  BY <1>1, <1>2, <1>3, <1>4, <1>5, <1>6 DEF Recovery

LEMMA RestoreTyped ==
  ASSUME Flags, Places, NEW r \in Restore, RestoreCalled(r) \/ RestoreFiles(r) \/ MarkRestored(r)
  PROVE  Flags' /\ Places'
<1>1. CASE RestoreCalled(r)
  <2>1. Flags'
    BY <1>1, Zenon
    DEF RestoreCalled, row, memory, setup, calls, agents, Flags
  <2>2. Places'
    BY <1>1
    DEF RestoreCalled, row, memory, setup, calls, agents, RestorePc, Flags,
        Places
  <2> QED
    BY <2>1, <2>2
<1>2. CASE RestoreFiles(r)
  <2>1. Flags'
    BY <1>2, Zenon
    DEF RestoreFiles, row, memory, setup, calls, agents, Flags
  <2>2. Places'
    BY <1>2
    DEF RestoreFiles, row, memory, setup, calls, agents, RestorePc, Flags,
        Places
  <2> QED
    BY <2>1, <2>2
<1>3. CASE MarkRestored(r)
  <2>1. Flags'
    BY <1>3, Zenon
    DEF MarkRestored, row, memory, setup, calls, agents, Flags
  <2>2. Places'
    BY <1>3
    DEF MarkRestored, row, memory, setup, calls, agents, RestorePc, Status,
        Flags, Places
  <2> QED
    BY <2>1, <2>2
<1> QED
  BY <1>1, <1>2, <1>3

LEMMA RemoveTyped ==
  ASSUME Flags, Places, NEW x \in Remove, RemoveCalled(x) \/ RemoveRow(x)
  PROVE  Flags' /\ Places'
<1>1. CASE RemoveCalled(x)
  <2>1. Flags'
    BY <1>1, Zenon
    DEF RemoveCalled, row, memory, setup, calls, agents, Flags
  <2>2. Places'
    BY <1>1
    DEF RemoveCalled, row, memory, setup, calls, agents, Flags, Places
  <2> QED
    BY <2>1, <2>2
<1>2. CASE RemoveRow(x)
  <2>1. Flags'
    BY <1>2, Zenon
    DEF RemoveRow, memory, setup, calls, Flags
  <2>2. Places'
    BY <1>2
    DEF RemoveRow, memory, setup, calls, Status, Flags, Places
  <2> QED
    BY <2>1, <2>2
<1> QED
  BY <1>1, <1>2

LEMMA DeliverTyped ==
  ASSUME Flags, Places, NEW s \in Sender, Deliver(s)
  PROVE  Flags' /\ Places'
<1>1. CASE SetRunning(s)
  <2>1. Flags'
    BY <1>1, Zenon
    DEF SetRunning, row, memory, setup, calls, others, Flags
  <2>2. Places'
    BY <1>1
    DEF SetRunning, row, memory, setup, calls, others, SendPc, Flags, Places
  <2> QED
    BY <2>1, <2>2
<1>2. CASE Dispatch(s)
  <2>1. Flags'
    BY <1>2, Zenon
    DEF Dispatch, MessageEnds, MessageFails, row, memory, setup, calls, others, Flags
  <2>2. Places'
    BY <1>2
    DEF Dispatch, MessageEnds, MessageFails, row, memory, setup, calls, others, SendPc,
        BootPc, Flags, Places
  <2> QED
    BY <2>1, <2>2
<1>3. CASE OpenTurn(s)
  <2>1. Flags'
    BY <1>3, Zenon
    DEF OpenTurn, MessageEnds, MessageFails, row, memory, setup, calls, others, Flags
  <2>2. Places'
    BY <1>3
    DEF OpenTurn, MessageEnds, MessageFails, row, memory, setup, calls, others, SendPc,
        BootPc, Flags, Places
  <2> QED
    BY <2>1, <2>2
<1> QED
  BY <1>1, <1>2, <1>3 DEF Deliver

LEMMA TurnTyped ==
  ASSUME Flags, Places, Turns
  PROVE  Flags' /\ Places'
<1>1. CASE StopSession
  <2>1. Flags'
    BY <1>1, Zenon
    DEF StopSession, StopAgents, memory, setup, calls, others, Flags
  <2>2. Places'
    BY <1>1
    DEF StopSession, StopAgents, memory, setup, calls, others, Status, Flags,
        Places
  <2> QED
    BY <2>1, <2>2
<1>2. CASE SendMessage
  <2>1. Flags'
    BY <1>2, Zenon
    DEF SendMessage, row, memory, setup, calls, others, Flags
  <2>2. Places'
    BY <1>2
    DEF SendMessage, row, memory, setup, calls, others, SendPc, Flags, Places
  <2> QED
    BY <2>1, <2>2
<1>3. CASE EndTurn
  <2>1. Flags'
    BY <1>3, Zenon
    DEF EndTurn, row, memory, setup, calls, others, Flags
  <2>2. Places'
    BY <1>3
    DEF EndTurn, row, memory, setup, calls, others, Flags, Places
  <2> QED
    BY <2>1, <2>2
<1>4. CASE \E s \in Sender : Deliver(s)
  BY <1>4, DeliverTyped
<1> QED
  BY <1>1, <1>2, <1>3, <1>4 DEF Turns

LEMMA CrashTyped ==
  ASSUME Flags, Places, Crash
  PROVE  Flags' /\ Places'
<1>1. CASE Crash
  <2>1. Flags'
    BY <1>1, Zenon
    DEF Crash, row, Flags
  <2>2. Places'
    BY <1>1, CrashAssumption
    DEF Crash, row, JobPc, BootPc, ArchivePc, SendPc, RestorePc, Flags, Places
  <2> QED
    BY <2>1, <2>2
<1> QED
  BY <1>1

LEMMA InitTyped == Init => TypeOK
<1> SUFFICES ASSUME Init
             PROVE  TypeOK
  OBVIOUS
<1>1. Flags
  BY Zenon DEF Init, Flags
<1>2. aborted \in [Failer -> BOOLEAN] /\ cleanup \in [Archive -> BOOLEAN]
  BY Zenon DEF Init
<1>3. status \in Status /\ job \in JobPc /\ boot \in BootPc
  BY DEF Init, Status, JobPc, BootPc
<1>4. snap \in [Archive -> RowRead]
  BY <1>1, <1>3 DEF Init, Flags, Row, RowRead
<1>5. Places
  BY <1>2, <1>3, <1>4, CrashAssumption
     DEF Init, Places, ArchivePc, SendPc, RestorePc
<1> QED
  BY <1>1, <1>5, Parts

LEMMA StepTyped == TypeOK /\ [Next]_vars => TypeOK'
<1> SUFFICES ASSUME Flags, Places, [Next]_vars
             PROVE  Flags' /\ Places'
  BY Parts
<1>1. CASE Setup
  BY <1>1, SetupTyped
<1>2. CASE Recovery
  BY <1>2, RecoveryTyped
<1>3. CASE \E f \in Failer : Failure(f)
  BY <1>3, FailureTyped
<1>4. CASE \E a \in Archive : ArchiveCalled(a) \/ ArchiveGoesOn(a)
  BY <1>4, ArchiveTyped
<1>5. CASE \E f \in Finalizer : Finalize(f)
  BY <1>5, FinalizeTyped
<1>6. CASE \E r \in Restore : RestoreCalled(r) \/ RestoreFiles(r) \/ MarkRestored(r)
  BY <1>6, RestoreTyped
<1>7. CASE \E x \in Remove : RemoveCalled(x) \/ RemoveRow(x)
  BY <1>7, RemoveTyped
<1>8. CASE Turns
  BY <1>8, TurnTyped
<1>9. CASE Crash
  BY <1>9, CrashTyped
<1>10. CASE UNCHANGED vars
  BY <1>10 DEF vars, row, memory, setup, calls, agents, others, Flags, Places
<1> QED
  BY <1>1, <1>2, <1>3, <1>4, <1>5, <1>6, <1>7, <1>8, <1>9, <1>10 DEF Next, GoesOn, Turns

\* In every reachable state the variables have their types.
THEOREM TypeCorrect == Spec => []TypeOK
<1> QED
  BY InitTyped, StepTyped, PTL DEF Spec

-----------------------------------------------------------------------------
(* archive() excludes itself.  The flag is what makes this inductive: it is    *)
(* set while a call is in archive(), and only that call clears it.             *)

Flagged == \A a \in Archive : InArchive(a) => pending

Mutex == TypeOK /\ Flagged /\ OneArchiver

LEMMA InitMutex == Init => Mutex
<1> SUFFICES ASSUME Init
             PROVE  Mutex
  OBVIOUS
<1>1. \A a \in Archive : archive[a] = "idle"
  BY DEF Init
<1> QED
  BY <1>1, InitTyped DEF Mutex, Flagged, OneArchiver, InArchive

\* Steps that leave the calls of archive() where they are, and the flag alone
LEMMA CallsUntouched ==
  ASSUME Mutex, TypeOK', UNCHANGED <<archive, pending>>
  PROVE  Mutex'
  BY DEF Mutex, Flagged, OneArchiver, InArchive

\* Steps of one call that is in archive() before or not after
LEMMA OneCallMoves ==
  ASSUME Mutex, TypeOK', NEW a \in Archive, NEW label \in ArchivePc,
         archive' = [archive EXCEPT ![a] = label],
         \/ UNCHANGED pending /\ (InArchive(a) \/ label \in {"check", "reread", "enter", "off"})
         \/ InArchive(a) /\ label = "off"
  PROVE  Mutex'
<1>1. \A b \in Archive : archive'[b] = IF b = a THEN label ELSE archive[b]
  BY DEF Mutex, TypeOK
<1> QED
  BY <1>1 DEF Mutex, Flagged, OneArchiver, InArchive

LEMMA StepMutex == Mutex /\ [Next]_vars => Mutex'
<1> SUFFICES ASSUME Mutex, [Next]_vars
             PROVE  Mutex'
  OBVIOUS
<1>0. TypeOK'
  BY StepTyped DEF Mutex
<1>1. CASE Setup
  BY <1>0, <1>1, CallsUntouched
     DEF Setup, CreateFiles, CheckCancelled, UndoFiles, RecordPath, Finish,
         FirstMessage, ReadLatest, Settle, calls, memory
<1>2. CASE Recovery
  BY <1>0, <1>2, CallsUntouched
     DEF Recovery, AbandonSetup, CompleteArchives, RepairStatus,
         SelectInterrupted, RestartTurn, StopInterrupted, calls, memory
<1>3. CASE \E f \in Failer : Failure(f)
  BY <1>0, <1>3, CallsUntouched
     DEF Failure, FailRead, FailRemove, FailMark, calls, memory
<1>4. ASSUME NEW a \in Archive, ArchiveCalled(a) \/ ArchiveGoesOn(a)
      PROVE  Mutex'
  <2>1. CASE ArchiveCalled(a)
    BY <1>0, <2>1, OneCallMoves DEF ArchiveCalled, ArchivePc, memory
  <2>2. CASE CancelSetup(a)
    BY <1>0, <2>2, OneCallMoves DEF CancelSetup, ArchivePc
  <2>3. CASE Reread(a)
    BY <1>0, <2>3, OneCallMoves DEF Reread, ArchivePc, memory
  <2>4. CASE Enter(a)
    <3>1. CASE pending
      BY <1>0, <2>4, <3>1, OneCallMoves DEF Enter, ArchivePc
    <3>2. CASE ~pending
      <4>1. \A b \in Archive : ~InArchive(b)
        BY <3>2 DEF Mutex, Flagged
      <4>2. \A b \in Archive : b # a => archive'[b] = archive[b]
        BY <2>4 DEF Enter, Mutex, TypeOK
      <4>3. pending'
        BY <2>4 DEF Enter
      <4> QED
        BY <1>0, <4>1, <4>2, <4>3 DEF Mutex, Flagged, OneArchiver, InArchive
    <3> QED
      BY <3>1, <3>2
  <2>5. CASE MarkArchiving(a)
    BY <1>0, <2>5, OneCallMoves DEF MarkArchiving, InArchive, ArchivePc, memory
  <2>6. CASE StopBuilders(a)
    BY <1>0, <2>6, OneCallMoves DEF StopBuilders, InArchive, ArchivePc, memory
  <2>7. CASE RunCleanup(a)
    BY <1>0, <2>7, OneCallMoves DEF RunCleanup, InArchive, ArchivePc, memory
  <2>8. CASE CleanupExits(a)
    BY <1>0, <2>8, CallsUntouched DEF CleanupExits, memory
  <2> QED
    BY <1>4, <2>1, <2>2, <2>3, <2>4, <2>5, <2>6, <2>7, <2>8 DEF ArchiveGoesOn
<1>5. ASSUME NEW f \in Finalizer, Finalize(f)
      PROVE  Mutex'
  <2>1. CASE RemoveFiles(f)
    BY <1>0, <2>1, CallsUntouched DEF RemoveFiles, calls, memory
  <2>2. CASE FinalizeFails(f) \/ MarkArchived(f)
    <3>e. FinalizeEnds(f)
      BY <2>2 DEF FinalizeFails, MarkArchived
    <3>1. CASE f \in Archive /\ archive[f] = "finalizing"
      BY <1>0, <3>e, <3>1, OneCallMoves DEF FinalizeEnds, InArchive, ArchivePc
    <3>2. CASE ~(f \in Archive /\ archive[f] = "finalizing")
      BY <1>0, <3>e, <3>2, CallsUntouched DEF FinalizeEnds, memory
    <3> QED
      BY <3>1, <3>2
  <2> QED
    BY <1>5, <2>1, <2>2 DEF Finalize
<1>6. CASE \E r \in Restore : RestoreCalled(r) \/ RestoreFiles(r) \/ MarkRestored(r)
  BY <1>0, <1>6, CallsUntouched
     DEF RestoreCalled, RestoreFiles, MarkRestored, calls, memory
<1>7. CASE \E x \in Remove : RemoveCalled(x) \/ RemoveRow(x)
  BY <1>0, <1>7, CallsUntouched DEF RemoveCalled, RemoveRow, calls, memory
<1>8. CASE Turns
  BY <1>0, <1>8, CallsUntouched
     DEF Turns, StopSession, SendMessage, EndTurn, Deliver, SetRunning, Dispatch,
        OpenTurn, MessageEnds, MessageFails, calls, memory
<1>9. CASE Crash
  <2>1. \A a \in Archive : archive'[a] \in {"idle", "off"}
    BY <1>9 DEF Crash
  <2> QED
    BY <1>0, <2>1 DEF Mutex, Flagged, OneArchiver, InArchive
<1>10. CASE UNCHANGED vars
  BY <1>0, <1>10, CallsUntouched DEF vars, calls, memory
<1> QED
  BY <1>1, <1>2, <1>3, <1>4, <1>5, <1>6, <1>7, <1>8, <1>9, <1>10 DEF Next, GoesOn, Turns

\* At most one call of archive() is past the test of
\* _archivePendingSessionIds, however many were made and whatever they read.
THEOREM ArchivesExclusive == Spec => []OneArchiver
<1>1. Mutex => OneArchiver
  BY DEF Mutex
<1> QED
  BY <1>1, InitMutex, StepMutex, PTL DEF Spec

-----------------------------------------------------------------------------
(* Where nothing creates a worktree, no setup and no restore, a finalization   *)
(* that has removed the files finds them still removed when it marks the row,  *)
(* however many archives, removals, cleanup tasks and restarts there are.      *)

NothingCreates == \A m \in Scenario : "setup" \notin m /\ "restore" \notin m

Settled ==
  /\ TypeOK
  /\ "restore" \notin may
  /\ job = "off"
  /\ \A r \in Restore : restore[r] = "idle"
  /\ \A f \in Finalizer : final[f] = "mark" => ~files \/ status = "gone"
  /\ archivedAt => ~files

LEMMA InitSettled ==
  ASSUME NothingCreates, Init
  PROVE  Settled
<1>1. "setup" \notin may /\ "restore" \notin may
  BY DEF NothingCreates, Init
<1>2. \A f \in Finalizer : final[f] = "off"
  BY DEF Init
<1> QED
  BY <1>1, <1>2, InitTyped DEF Init, Settled

\* Steps that leave the files, the finalizations and what could disturb them
LEMMA FilesUntouched ==
  ASSUME Settled, TypeOK', UNCHANGED <<may, files, job, restore>>,
         status = "gone" => status' = "gone", archivedAt' => archivedAt,
         \A f \in Finalizer : final'[f] = "mark" => final[f] = "mark"
  PROVE  Settled'
  BY DEF Settled

LEMMA StepSettled == Settled /\ [Next]_vars => Settled'
<1> SUFFICES ASSUME Settled, [Next]_vars
             PROVE  Settled'
  OBVIOUS
<1>0. TypeOK'
  BY StepTyped DEF Settled
<1>t. final \in [Finalizer -> {"off", "files", "mark"}]
  BY DEF Settled, TypeOK
<1>1. CASE Setup
  BY <1>1 DEF Settled, Setup, CreateFiles, CheckCancelled, UndoFiles,
     RecordPath, Finish, FirstMessage, ReadLatest, Settle
<1>2. CASE Recovery
  BY <1>0, <1>2, <1>t, FilesUntouched
     DEF Recovery, AbandonSetup, CompleteArchives, RepairStatus,
         SelectInterrupted, RestartTurn, StopInterrupted, Fail, row, setup,
         calls, agents, others
<1>3. ASSUME NEW f \in Failer, Failure(f)
      PROVE  Settled'
  <2>1. CASE FailRead(f)
    BY <1>0, <2>1, FilesUntouched DEF FailRead, row, others
  <2>2. CASE FailRemove(f)
    BY <1>0, <2>2 DEF FailRemove, RemoveOrLeave, row, memory, others, Settled
  <2>3. CASE FailMark(f)
    BY <1>0, <2>3 DEF FailMark, others, Settled
  <2> QED
    BY <1>3, <2>1, <2>2, <2>3 DEF Failure
<1>4. ASSUME NEW a \in Archive, ArchiveCalled(a) \/ ArchiveGoesOn(a)
      PROVE  Settled'
  BY <1>0, <1>4, <1>t, FilesUntouched
     DEF ArchiveCalled, ArchiveGoesOn, CancelSetup, Reread, Enter,
         MarkArchiving, StopBuilders, RunCleanup, CleanupExits, row, setup,
         others
<1>5. ASSUME NEW f \in Finalizer, Finalize(f)
      PROVE  Settled'
  <2>1. CASE RemoveFiles(f)
    BY <1>0, <1>t, <2>1 DEF RemoveFiles, row, setup, others, Settled
  <2>2. CASE MarkArchived(f)
    BY <1>0, <1>t, <2>2
       DEF MarkArchived, FinalizeEnds, MarkRow, row, setup, others, Settled
  <2>3. CASE FinalizeFails(f)
    BY <1>0, <1>t, <2>3, FilesUntouched
       DEF FinalizeFails, FinalizeEnds, row, setup, others, Settled
  <2> QED
    BY <1>5, <2>1, <2>2, <2>3 DEF Finalize
<1>6. CASE \E r \in Restore : RestoreCalled(r) \/ RestoreFiles(r) \/ MarkRestored(r)
  BY <1>6 DEF RestoreCalled, RestoreFiles, MarkRestored, Settled
<1>7. CASE \E x \in Remove : RemoveCalled(x) \/ RemoveRow(x)
  BY <1>0, <1>7, FilesUntouched DEF RemoveCalled, RemoveRow, row, setup
<1>8. CASE Turns
  BY <1>0, <1>8, FilesUntouched
     DEF Turns, StopSession, SendMessage, EndTurn, Deliver, SetRunning, Dispatch,
        OpenTurn, MessageEnds, MessageFails, row, setup, others
<1>9. CASE Crash
  BY <1>0, <1>9 DEF Crash, row, Settled
<1>10. CASE UNCHANGED vars
  BY <1>0, <1>10, FilesUntouched DEF vars, row, setup, others
<1> QED
  BY <1>1, <1>2, <1>3, <1>4, <1>5, <1>6, <1>7, <1>8, <1>9, <1>10 DEF Next, GoesOn, Turns

\* Only a finalization marks a session archived.
LEMMA Archives ==
  ASSUME Next, ~archivedAt, archivedAt'
  PROVE  \E f \in Finalizer : MarkArchived(f)
<1>1. CASE Setup
  BY <1>1 DEF Setup, CreateFiles, CheckCancelled, UndoFiles, RecordPath,
     Finish, FirstMessage, ReadLatest, Settle, row
<1>2. CASE Recovery
  BY <1>2 DEF Recovery, AbandonSetup, CompleteArchives, RepairStatus,
     SelectInterrupted, RestartTurn, StopInterrupted, row
<1>3. CASE \E f \in Failer : Failure(f)
  BY <1>3 DEF Failure, FailRead, FailRemove, FailMark, row
<1>4. CASE \E a \in Archive : ArchiveCalled(a) \/ ArchiveGoesOn(a)
  BY <1>4 DEF ArchiveCalled, ArchiveGoesOn, CancelSetup, Reread, Enter,
     MarkArchiving, StopBuilders, RunCleanup, CleanupExits, row
<1>5. CASE \E f \in Finalizer : Finalize(f)
  BY <1>5 DEF Finalize, RemoveFiles, FinalizeFails, row
<1>6. CASE \E r \in Restore : RestoreCalled(r) \/ RestoreFiles(r) \/ MarkRestored(r)
  BY <1>6 DEF RestoreCalled, RestoreFiles, MarkRestored, row
<1>7. CASE \E x \in Remove : RemoveCalled(x) \/ RemoveRow(x)
  BY <1>7 DEF RemoveCalled, RemoveRow, row
<1>8. CASE Turns
  BY <1>8 DEF Turns, StopSession, SendMessage, EndTurn, Deliver, SetRunning, Dispatch,
     OpenTurn, MessageEnds, MessageFails, row
<1>9. CASE Crash
  BY <1>9 DEF Crash, row
<1> QED
  BY <1>1, <1>2, <1>3, <1>4, <1>5, <1>6, <1>7, <1>8, <1>9 DEF Next, GoesOn, Turns

\* An archived session leaves nothing on disk, at any moment and without the
\* exception ArchivedFilesGone makes: a finalization whose removal fails does not
\* mark the session.
THEOREM ArchivedLeavesNothing ==
  ASSUME NothingCreates
  PROVE  Spec => []ArchivedFilesGone /\ [](archivedAt => ~files)
<1>1. Init => Settled
  BY InitSettled
<1>2. Settled => ArchivedFilesGone /\ (archivedAt => ~files)
  BY DEF Settled, ArchivedFilesGone
<1> QED
  BY <1>1, <1>2, StepSettled, PTL DEF Spec

\* A session is marked archived only when its worktree is gone, again without
\* the exceptions of MarkedAfterFiles.
THEOREM ArchivedAfterFiles ==
  ASSUME NothingCreates
  PROVE  Spec => MarkedAfterFiles /\ [][~archivedAt /\ archivedAt' => ~files]_vars
<1>1. Init => Settled
  BY InitSettled
<1>2. Settled /\ [Next]_vars => [~archivedAt /\ archivedAt' => ~files]_vars
  <2> SUFFICES ASSUME Settled, Next, ~archivedAt, archivedAt'
               PROVE  ~files
    BY DEF Settled
  <2>1. PICK f \in Finalizer : MarkArchived(f)
    BY Archives
  <2> QED
    BY <2>1 DEF MarkArchived, MarkRow, row, Settled
<1>3. [~archivedAt /\ archivedAt' => ~files]_vars
      => [~archivedAt /\ archivedAt' /\ job = "off" => ~files \/ "files" \in left]_vars
  OBVIOUS
<1> QED
  BY <1>1, <1>2, <1>3, StepSettled, PTL DEF Spec, MarkedAfterFiles

-----------------------------------------------------------------------------
(* Without messages no turn is in progress, and without calls of archive()     *)
(* nothing is archived.                                                        *)

NoTurns ==
  /\ agent = "stopped" /\ ~working /\ \A s \in Sender : sending[s] = "off"
  /\ boot \notin {"restart", "resuming", "interrupted"}

NoArchive ==
  /\ ~archivedAt /\ status \notin {"archiving", "archived"}
  /\ \A a \in Archive : archive[a] = "idle" /\ ~cleanup[a]
  /\ \A f \in Finalizer : final[f] = "off"

Rests ==
  /\ TypeOK
  /\ "turns" \notin may => NoTurns
  /\ "archive" \notin may => NoArchive

LEMMA InitRests == Init => Rests
<1> SUFFICES ASSUME Init PROVE Rests
  OBVIOUS
<1>1. \A a \in Archive : archive[a] = "idle" /\ ~cleanup[a]
  BY DEF Init
<1>2. \A f \in Finalizer : final[f] = "off"
  BY DEF Init
<1> QED
  BY <1>1, <1>2, InitTyped DEF Init, Rests, NoTurns, NoArchive

LEMMA StepNoTurns ==
  ASSUME TypeOK, [Next]_vars, "turns" \notin may, NoTurns
  PROVE  NoTurns'
<1>1. CASE Setup
  <2>1. UNCHANGED <<agents, boot>>
    BY <1>1 DEF Setup, CreateFiles, CheckCancelled, UndoFiles, RecordPath, Finish,
       FirstMessage, ReadLatest, Settle
  <2> QED
    BY <2>1 DEF agents, NoTurns
<1>2. CASE Recovery
  BY <1>2 DEF Recovery, AbandonSetup, CompleteArchives, RepairStatus,
     SelectInterrupted, RestartTurn, StopInterrupted, agents, NoTurns
<1>3. CASE \E f \in Failer : Failure(f)
  BY <1>3 DEF Failure, FailRead, FailRemove, FailMark, agents, NoTurns
<1>4. CASE \E a \in Archive : ArchiveCalled(a) \/ ArchiveGoesOn(a)
  BY <1>4 DEF ArchiveCalled, ArchiveGoesOn, CancelSetup, Reread, Enter,
     MarkArchiving, StopBuilders, StopAgents, RunCleanup, CleanupExits, agents, NoTurns
<1>5. CASE \E f \in Finalizer : Finalize(f)
  BY <1>5 DEF Finalize, RemoveFiles, FinalizeFails, MarkArchived, FinalizeEnds,
     agents, NoTurns
<1>6. CASE \E r \in Restore : RestoreCalled(r) \/ RestoreFiles(r) \/ MarkRestored(r)
  <2>1. UNCHANGED <<agents, boot>>
    BY <1>6 DEF RestoreCalled, RestoreFiles, MarkRestored
  <2> QED
    BY <2>1 DEF agents, NoTurns
<1>7. CASE \E x \in Remove : RemoveCalled(x) \/ RemoveRow(x)
  BY <1>7 DEF RemoveCalled, RemoveRow, agents, NoTurns
<1>8. CASE Turns
  BY <1>8 DEF Turns, StopSession, SendMessage, EndTurn, Deliver, SetRunning, Dispatch,
     OpenTurn, MessageEnds, MessageFails, StopAgents, NoTurns
<1>9. CASE Crash
  BY <1>9 DEF Crash, NoTurns
<1>10. CASE UNCHANGED vars
  BY <1>10 DEF vars, agents, NoTurns
<1> QED
  BY <1>1, <1>2, <1>3, <1>4, <1>5, <1>6, <1>7, <1>8, <1>9, <1>10 DEF Next, GoesOn, Turns

LEMMA StepNoArchive ==
  ASSUME TypeOK, [Next]_vars, "archive" \notin may, NoArchive
  PROVE  NoArchive'
<1>1. CASE Setup
  <2>1. UNCHANGED <<archivedAt, calls, final>> /\ status' \in {status, "stopped"}
    BY <1>1 DEF Setup, CreateFiles, CheckCancelled, UndoFiles, RecordPath, Finish,
       FirstMessage, ReadLatest, Settle, row
  <2> QED
    BY <2>1 DEF calls, NoArchive
<1>2. CASE Recovery
  BY <1>2 DEF Recovery, AbandonSetup, CompleteArchives, RepairStatus,
     SelectInterrupted, RestartTurn, StopInterrupted, row, calls, NoArchive
<1>3. CASE \E f \in Failer : Failure(f)
  BY <1>3 DEF Failure, FailRead, FailRemove, FailMark, row, calls, NoArchive
<1>4. CASE \E a \in Archive : ArchiveCalled(a) \/ ArchiveGoesOn(a)
  BY <1>4 DEF ArchiveCalled, ArchiveGoesOn, CancelSetup, Reread, Enter,
     MarkArchiving, StopBuilders, RunCleanup, CleanupExits, NoArchive
<1>5. CASE \E f \in Finalizer : Finalize(f)
  BY <1>5 DEF Finalize, RemoveFiles, FinalizeFails, MarkArchived, FinalizeEnds,
     NoArchive
<1>6. CASE \E r \in Restore : RestoreCalled(r) \/ RestoreFiles(r) \/ MarkRestored(r)
  BY <1>6 DEF RestoreCalled, RestoreFiles, MarkRestored, row, calls, NoArchive
<1>7. CASE \E x \in Remove : RemoveCalled(x) \/ RemoveRow(x)
  BY <1>7 DEF RemoveCalled, RemoveRow, row, calls, NoArchive
<1>8. CASE Turns
  BY <1>8 DEF Turns, StopSession, SendMessage, EndTurn, Deliver, SetRunning, Dispatch,
     OpenTurn, MessageEnds, MessageFails, row, calls, NoArchive
<1>9. CASE Crash
  <2>1. \A a \in Archive : archive'[a] = "idle" /\ ~cleanup'[a]
    BY <1>9 DEF Crash, NoArchive
  <2>2. \A f \in Finalizer : final'[f] = "off"
    BY <1>9 DEF Crash
  <2> QED
    BY <1>9, <2>1, <2>2 DEF Crash, row, NoArchive
<1>10. CASE UNCHANGED vars
  BY <1>10 DEF vars, row, calls, NoArchive
<1> QED
  BY <1>1, <1>2, <1>3, <1>4, <1>5, <1>6, <1>7, <1>8, <1>9, <1>10 DEF Next, GoesOn, Turns

LEMMA MayStays == [Next]_vars => may' = may
  BY DEF Next, GoesOn, Setup, CreateFiles, CheckCancelled, UndoFiles, RecordPath, Finish,
     FirstMessage, ReadLatest, Settle, Recovery, AbandonSetup, CompleteArchives,
     RepairStatus, SelectInterrupted, RestartTurn, StopInterrupted, Failure, FailRead,
     FailRemove, FailMark, ArchiveCalled, ArchiveGoesOn, CancelSetup, Reread, Enter,
     MarkArchiving, StopBuilders, RunCleanup, CleanupExits, Finalize, RemoveFiles,
     FinalizeFails, MarkArchived, FinalizeEnds, RestoreCalled, RestoreFiles,
     MarkRestored, RemoveCalled, RemoveRow, Turns, StopSession, SendMessage, EndTurn,
     Deliver, SetRunning, Dispatch, OpenTurn, MessageEnds, MessageFails, Crash, vars

-----------------------------------------------------------------------------
(* The row and the files agree once nothing goes on.  Where nothing creates a  *)
(* worktree they disagree only between the removal of the files and the mark   *)
(* in the row, and there either a finalization is about to write the mark, or  *)
(* the last one failed, or a server that is starting will find the session     *)
(* archiving.  For the latter the status has to last: a stop, or the recovery  *)
(* of an interrupted turn, would overwrite it.                                 *)

ArchivesLast ==
  \A m \in Scenario : /\ "setup" \notin m /\ "restore" \notin m
                      /\ {"crash", "archive"} \subseteq m => "stop" \notin m /\ "turns" \notin m

Ended == status \in {"archiving", "archived", "gone"}

Still ==
  /\ "restore" \notin may
  /\ "crash" \in may /\ "archive" \in may => "stop" \notin may /\ "turns" \notin may
  /\ job = "off" /\ status # "provisioning"
  /\ \A r \in Restore : restore[r] = "idle"
  /\ \A f \in Failer : failing[f] = "off"
  /\ boot \in {"abandon", "archives", "finalizing"} => "crash" \in may
  /\ final[Boot] # "off" => boot = "finalizing"
  /\ sending[Boot] # "off" => boot = "resuming"

Gone ==
  /\ archivedAt \/ status = "gone" => ~files
  /\ status = "archived" => archivedAt
  /\ \A x \in Remove : remove[x] = "delete" => archivedAt \/ status = "gone"
  /\ \A f \in Finalizer : final[f] = "mark" => ~files
  /\ ~archivedAt /\ status # "gone" => path

Removing ==
  ~files /\ ~archivedAt /\ status # "gone" =>
    \/ \E f \in Finalizer : final[f] = "mark"
    \/ status = "archiving" /\ boot \in {"abandon", "archives"}
    \/ boot = "finalizing" /\ final[Boot] = "files"
    \/ "archive" \in left

Lasting ==
  "crash" \in may /\ "archive" \in may =>
    /\ \A a \in Archive : archive[a] \in {"agents", "cleanup", "finalizing"} \/ cleanup[a]
                          \/ snap[a].status = "archiving" => Ended
    /\ \A f \in Finalizer : final[f] # "off" => Ended

\* A call finalizes once, itself or when its cleanup task exits.
FinalOnce ==
  \A a \in Archive :
    /\ final[a] # "off" => archive[a] \in {"finalizing", "off"} /\ ~cleanup[a]
    /\ cleanup[a] => archive[a] = "off"

Kept ==
  /\ Still /\ Gone /\ Removing /\ Lasting /\ FinalOnce
  /\ Rests
  /\ "crash" \in may /\ "archive" \in may => NoTurns

LEMMA InitKept ==
  ASSUME ArchivesLast, Init
  PROVE  Kept
<1>1. may \in Scenario /\ "setup" \notin may
  BY DEF ArchivesLast, Init
<1>2. \A a \in Archive : archive[a] = "idle" /\ ~cleanup[a] /\ snap[a].status = "stopped"
  BY <1>1 DEF Init, Row
<1>3. \A f \in Finalizer : final[f] = "off"
  BY DEF Init
<1>4. Still
  BY <1>1, <1>3, Failers DEF Init, Still, ArchivesLast, Sender
<1>5. Gone /\ Removing
  BY <1>1, <1>3 DEF Init, Gone, Removing
<1>6. Lasting /\ FinalOnce /\ NoTurns
  BY <1>2, <1>3, Failers DEF Init, Lasting, FinalOnce, NoTurns
<1> QED
  BY <1>4, <1>5, <1>6, InitRests DEF Kept

\* What is left of the steps when nothing is set up, restored or has failed
Visible ==
  \/ Recovery
  \/ \E a \in Archive : ArchiveCalled(a) \/ ArchiveGoesOn(a)
  \/ \E f \in Finalizer : Finalize(f)
  \/ \E x \in Remove : RemoveCalled(x) \/ RemoveRow(x)
  \/ Turns \/ Crash

LEMMA OnlyVisible ==
  ASSUME Kept, [Next]_vars
  PROVE  Visible \/ UNCHANGED vars
<1>1. ~Setup
  BY DEF Kept, Still, Setup, CreateFiles, CheckCancelled, UndoFiles, RecordPath, Finish,
     FirstMessage, ReadLatest, Settle
<1>2. \A f \in Failer : ~Failure(f)
  BY DEF Kept, Still, Failure, FailRead, FailRemove, FailMark
<1>3. \A r \in Restore : ~RestoreCalled(r) /\ ~RestoreFiles(r) /\ ~MarkRestored(r)
  BY DEF Kept, Still, RestoreCalled, RestoreFiles, MarkRestored
<1> QED
  BY <1>1, <1>2, <1>3 DEF Next, GoesOn, Turns, Visible

\* What stops, messages and turns leave alone.  The server starts no further
\* than a message of its own has come.
LEMMA TurnFrame ==
  ASSUME TypeOK, Turns
  PROVE  /\ UNCHANGED <<archivedAt, path, files, left, job, failing, calls, final, others>>
         /\ \/ boot' = boot /\ (sending'[Boot] # "off" => sending[Boot] # "off")
            \/ sending[Boot] # "off" /\ sending'[Boot] = "off"
               /\ boot' \in {"up", "interrupted"}
<1>t. sending \in [Sender -> SendPc] /\ Boot \in Sender /\ "user" # Boot
  BY DEF TypeOK, Sender, Boot
<1>1. CASE StopSession \/ SendMessage \/ EndTurn
  BY <1>1, <1>t DEF StopSession, SendMessage, EndTurn, row, setup
<1>2. ASSUME NEW s \in Sender, Deliver(s)
      PROVE  /\ UNCHANGED <<archivedAt, path, files, left, job, failing, calls, final, others>>
             /\ \/ boot' = boot /\ (sending'[Boot] # "off" => sending[Boot] # "off")
                \/ sending[Boot] # "off" /\ sending'[Boot] = "off"
                   /\ boot' \in {"up", "interrupted"}
  BY <1>2, <1>t
     DEF Deliver, SetRunning, Dispatch, OpenTurn, MessageEnds, MessageFails, row, setup
<1> QED
  BY <1>1, <1>2 DEF Turns

LEMMA StepStill ==
  ASSUME Kept, Visible \/ UNCHANGED vars, may' = may
  PROVE  Still'
<1>t. /\ final \in [Finalizer -> {"off", "files", "mark"}] /\ Boot \in Finalizer
      /\ sending \in [Sender -> SendPc] /\ Boot \in Sender /\ Boot \notin Archive
  BY Failers, NameAssumption DEF Kept, Rests, TypeOK, Sender
<1>1. CASE Recovery
  <2>1. UNCHANGED <<job, failing, restore>>
    BY <1>1 DEF Kept, Still, Recovery, AbandonSetup, CompleteArchives, RepairStatus,
       SelectInterrupted, RestartTurn, StopInterrupted, setup, others
  <2>2. status' # "provisioning"
    BY <1>1 DEF Kept, Still, Recovery, AbandonSetup, CompleteArchives, RepairStatus,
       SelectInterrupted, RestartTurn, StopInterrupted, row
  <2>3. boot' \in {"abandon", "archives", "finalizing"} => boot \in {"abandon", "archives"}
    BY <1>1 DEF Kept, Still, Recovery, AbandonSetup, CompleteArchives, RepairStatus,
       SelectInterrupted, RestartTurn, StopInterrupted
  <2>4. final'[Boot] # "off" => boot' = "finalizing"
    BY <1>1, <1>t DEF Kept, Still, Recovery, AbandonSetup, CompleteArchives,
       RepairStatus,
       SelectInterrupted, RestartTurn, StopInterrupted
  <2>5. sending'[Boot] # "off" => boot' = "resuming"
    BY <1>1, <1>t DEF Kept, Still, Recovery, AbandonSetup, CompleteArchives,
       RepairStatus,
       SelectInterrupted, RestartTurn, StopInterrupted, agents
  <2> QED
    BY <2>1, <2>2, <2>3, <2>4, <2>5 DEF Kept, Still
<1>2. CASE \E a \in Archive : ArchiveCalled(a) \/ ArchiveGoesOn(a)
  <2>1. UNCHANGED <<job, failing, restore, boot, sending>> /\ status' # "provisioning"
    BY <1>2 DEF Kept, Still, ArchiveCalled, ArchiveGoesOn, CancelSetup, Reread, Enter,
       MarkArchiving, StopBuilders, RunCleanup, CleanupExits, row, setup, agents, others
  <2>2. final'[Boot] = final[Boot]
    BY <1>2, <1>t DEF ArchiveCalled, ArchiveGoesOn, CancelSetup, Reread, Enter,
       MarkArchiving, StopBuilders, RunCleanup, CleanupExits
  <2> QED
    BY <2>1, <2>2 DEF Kept, Still
<1>3. ASSUME NEW f \in Finalizer, Finalize(f)
      PROVE  Still'
  <2>1. UNCHANGED <<job, failing, restore, sending>> /\ status' # "provisioning"
    BY <1>3 DEF Kept, Still, Finalize, RemoveFiles, FinalizeFails, MarkArchived,
       MarkRow,
       row, setup, agents, others
  <2>2. \/ boot' = boot /\ (final'[Boot] # "off" => final[Boot] # "off")
        \/ boot' = "repair" /\ final'[Boot] = "off" /\ final[Boot] # "off"
    BY <1>3, <1>t DEF Finalize, RemoveFiles, FinalizeFails, MarkArchived, FinalizeEnds
  <2> QED
    BY <2>1, <2>2 DEF Kept, Still
<1>4. CASE \E x \in Remove : RemoveCalled(x) \/ RemoveRow(x)
  BY <1>4 DEF Kept, Still, RemoveCalled, RemoveRow, row, setup, agents
<1>5. CASE Turns
  <2>1. status' # "provisioning"
    BY <1>5 DEF Kept, Still, Turns, StopSession, SendMessage, EndTurn, Deliver,
       SetRunning,
       Dispatch, OpenTurn, row
  <2> QED
    BY <1>5, <2>1, TurnFrame DEF Kept, Rests, Still, others
<1>6. CASE Crash
  <2>1. \A r \in Restore : restore'[r] = "idle"
    BY <1>6 DEF Kept, Still, Crash
  <2>2. \A f \in Failer : failing'[f] = "off"
    BY <1>6 DEF Crash
  <2>3. final'[Boot] = "off" /\ sending'[Boot] = "off"
    BY <1>6, <1>t DEF Crash
  <2> QED
    BY <1>6, <2>1, <2>2, <2>3 DEF Kept, Still, Crash, row
<1>7. CASE UNCHANGED vars
  BY <1>7 DEF Kept, Still, vars, row, setup, agents, others
<1> QED
  BY <1>1, <1>2, <1>3, <1>4, <1>5, <1>6, <1>7 DEF Visible

\* Steps that end no session and leave its files
LEMMA GoneKept ==
  ASSUME Gone, UNCHANGED <<archivedAt, path, files>>, status' = "gone" <=> status = "gone",
         status' = "archived" => status = "archived" \/ archivedAt,
         \A x \in Remove : remove'[x] = "delete" => remove[x] = "delete" \/ archivedAt,
         \A f \in Finalizer : final'[f] = "mark" => final[f] = "mark"
  PROVE  Gone'
  BY DEF Gone

LEMMA StepGone ==
  ASSUME Kept, Visible \/ UNCHANGED vars, may' = may
  PROVE  Gone'
<1>t. /\ final \in [Finalizer -> {"off", "files", "mark"}]
      /\ remove \in [Remove -> {"idle", "delete", "off"}]
  BY DEF Kept, Rests, TypeOK
<1>1. CASE Recovery
  <2>1. UNCHANGED <<archivedAt, path, files, remove>> /\ (status' = "gone" <=> status = "gone")
        /\ (status' = "archived" => status = "archived" \/ archivedAt)
    BY <1>1 DEF Recovery, AbandonSetup, CompleteArchives, RepairStatus,
       SelectInterrupted, RestartTurn, StopInterrupted, row, others
  <2>2. \A f \in Finalizer : final'[f] = "mark" => final[f] = "mark"
    BY <1>1, <1>t DEF Recovery, AbandonSetup, CompleteArchives, RepairStatus,
       SelectInterrupted, RestartTurn, StopInterrupted
  <2> QED
    BY <2>1, <2>2, GoneKept DEF Kept
<1>2. CASE \E a \in Archive : ArchiveCalled(a) \/ ArchiveGoesOn(a)
  <2>1. UNCHANGED <<archivedAt, path, files, remove>> /\ (status' = "gone" <=> status = "gone")
        /\ (status' = "archived" => status = "archived")
    BY <1>2 DEF ArchiveCalled, ArchiveGoesOn, CancelSetup, Reread, Enter,
       MarkArchiving, StopBuilders, RunCleanup, CleanupExits, row, others
  <2>2. \A f \in Finalizer : final'[f] = "mark" => final[f] = "mark"
    BY <1>2, <1>t DEF ArchiveCalled, ArchiveGoesOn, CancelSetup, Reread, Enter,
       MarkArchiving, StopBuilders, RunCleanup, CleanupExits
  <2> QED
    BY <2>1, <2>2, GoneKept DEF Kept
<1>3. ASSUME NEW f \in Finalizer, RemoveFiles(f)
      PROVE  Gone'
  <2>1. ~files' /\ UNCHANGED <<row, remove>>
    BY <1>3 DEF RemoveFiles, others, Kept, Gone
  <2> QED
    BY <2>1 DEF row, Kept, Gone
<1>4. ASSUME NEW f \in Finalizer, MarkArchived(f)
      PROVE  Gone'
  <2>1. UNCHANGED <<files, remove>> /\ ~files
    BY <1>4 DEF MarkArchived, others, Kept, Gone
  <2>2. CASE archivedAt \/ status = "gone"
    BY <1>4, <2>1, <2>2 DEF MarkArchived, MarkRow, row, Kept, Gone
  <2>3. CASE ~archivedAt /\ status # "gone"
    BY <1>4, <2>1, <2>3 DEF MarkArchived, MarkRow, Kept, Gone
  <2> QED
    BY <2>2, <2>3
<1>f. ASSUME NEW f \in Finalizer, FinalizeFails(f)
      PROVE  Gone'
  <2>1. UNCHANGED <<row, files, remove>> /\ \A g \in Finalizer : final'[g] = "mark" => final[g] = "mark"
    BY <1>f, <1>t DEF FinalizeFails, FinalizeEnds, others
  <2> QED
    BY <2>1, GoneKept DEF row, Kept
<1>5. CASE \E x \in Remove : RemoveCalled(x)
  <2>1. UNCHANGED <<row, files, final>>
        /\ \A x \in Remove : remove'[x] = "delete" => remove[x] = "delete" \/ archivedAt
    BY <1>5, <1>t DEF RemoveCalled
  <2> QED
    BY <2>1, GoneKept DEF row, Kept
<1>6. CASE \E x \in Remove : RemoveRow(x)
  <2>1. ~files /\ UNCHANGED <<files, final>> /\ status' = "gone"
    BY <1>6 DEF RemoveRow, Kept, Gone
  <2> QED
    BY <2>1 DEF Gone
<1>7. CASE Turns
  <2>1. (status' = "gone" <=> status = "gone") /\ (status' = "archived" => status = "archived")
    BY <1>7 DEF Turns, StopSession, SendMessage, EndTurn, Deliver, SetRunning, Dispatch,
       OpenTurn, row
  <2> QED
    BY <1>7, <2>1, TurnFrame, GoneKept DEF Kept, Rests, others
<1>8. CASE Crash
  <2>1. UNCHANGED <<archivedAt, path, status>>
    BY <1>8 DEF Crash, row
  <2>2. files' = files \/ files' = FALSE
    BY <1>8 DEF Crash, Kept, Still
  <2>3. \A x \in Remove : remove'[x] # "delete"
    BY <1>8 DEF Crash
  <2>4. \A f \in Finalizer : final'[f] = "off"
    BY <1>8 DEF Crash
  <2> QED
    BY <2>1, <2>2, <2>3, <2>4 DEF Kept, Gone
<1>9. CASE UNCHANGED vars
  BY <1>9, GoneKept DEF vars, row, others, Kept
<1> QED
  BY <1>1, <1>2, <1>3, <1>4, <1>5, <1>6, <1>7, <1>8, <1>9, <1>f DEF Visible, Finalize

\* A session that is being archived is not lost sight of: the step leaves the
\* files, and either ends the session, or leaves what will write the mark.
LEMMA StepRemoving ==
  ASSUME Kept, Visible \/ UNCHANGED vars, may' = may, Gone'
  PROVE  Removing'
<1> SUFFICES ASSUME ~files', ~archivedAt', status' # "gone"
             PROVE  \/ \E f \in Finalizer : final'[f] = "mark"
                    \/ status' = "archiving" /\ boot' \in {"abandon", "archives"}
                    \/ boot' = "finalizing" /\ final'[Boot] = "files"
             \/ "archive" \in left'
  BY DEF Removing
<1>t. final \in [Finalizer -> {"off", "files", "mark"}] /\ Boot \in Finalizer
      /\ status \in Status
  BY Failers DEF Kept, Rests, TypeOK
<1>r. ~files /\ ~archivedAt /\ status # "gone" =>
        \/ \E f \in Finalizer : final[f] = "mark"
        \/ status = "archiving" /\ boot \in {"abandon", "archives"}
        \/ boot = "finalizing" /\ final[Boot] = "files"
        \/ "archive" \in left
  BY DEF Kept, Removing
\* While the server starts, no stop and no turn changes the status.
<1>s. boot \in {"abandon", "archives"} /\ status = "archiving"
      => "crash" \in may /\ "archive" \in may /\ "stop" \notin may /\ "turns" \notin may
         /\ NoTurns
  BY DEF Kept, Still, Rests, NoArchive
<1>1. CASE Recovery
  <2>1. ~files /\ ~archivedAt /\ status # "gone"
    BY <1>1 DEF Recovery, AbandonSetup, CompleteArchives, RepairStatus,
       SelectInterrupted, RestartTurn, StopInterrupted, row
  <2>2. CASE \E f \in Finalizer : final[f] = "mark"
    <3>1. PICK f \in Finalizer : final[f] = "mark"
      BY <2>2
    <3>2. final' = final \/ final' = [final EXCEPT ![Boot] = "files"]
      BY <1>1 DEF Recovery, AbandonSetup, CompleteArchives, RepairStatus,
         SelectInterrupted, RestartTurn, StopInterrupted
    <3>3. final' # final => boot' = "finalizing"
      BY <1>1 DEF Recovery, AbandonSetup, CompleteArchives, RepairStatus,
         SelectInterrupted, RestartTurn, StopInterrupted
    <3> QED
      BY <1>t, <3>1, <3>2, <3>3
  <2>3. CASE status = "archiving" /\ boot \in {"abandon", "archives"}
    <3>1. CASE AbandonSetup
      BY <2>3, <3>1 DEF AbandonSetup, row
    <3>2. CASE CompleteArchives
      BY <1>t, <2>1, <2>3, <3>2 DEF CompleteArchives
    <3> QED
      BY <1>1, <2>3, <3>1, <3>2 DEF Recovery, RepairStatus, SelectInterrupted,
         RestartTurn,
         StopInterrupted
  <2>4. CASE boot = "finalizing" /\ final[Boot] = "files"
    BY <1>1, <2>4 DEF Recovery, AbandonSetup, CompleteArchives, RepairStatus,
       SelectInterrupted, RestartTurn, StopInterrupted
  <2>5. left' = left
    BY <1>1 DEF Recovery, AbandonSetup, CompleteArchives, RepairStatus,
       SelectInterrupted, RestartTurn, StopInterrupted
  <2> QED
    BY <1>r, <2>1, <2>2, <2>3, <2>4, <2>5
<1>2. ASSUME NEW a \in Archive, ArchiveCalled(a) \/ ArchiveGoesOn(a)
      PROVE  \/ \E f \in Finalizer : final'[f] = "mark"
             \/ status' = "archiving" /\ boot' \in {"abandon", "archives"}
             \/ boot' = "finalizing" /\ final'[Boot] = "files"
             \/ "archive" \in left'
  <2>1. ~files /\ ~archivedAt /\ status # "gone" /\ boot' = boot /\ left' = left
    BY <1>2 DEF ArchiveCalled, ArchiveGoesOn, CancelSetup, Reread, Enter,
       MarkArchiving, StopBuilders, RunCleanup, CleanupExits, row
  <2>2. status' = status \/ status' = "archiving"
    BY <1>2 DEF ArchiveCalled, ArchiveGoesOn, CancelSetup, Reread, Enter,
       MarkArchiving, StopBuilders, RunCleanup, CleanupExits, row, Kept, Still
  <2>3. final' = final \/ final' = [final EXCEPT ![a] = "files"]
    BY <1>2 DEF ArchiveCalled, ArchiveGoesOn, CancelSetup, Reread, Enter,
       MarkArchiving, StopBuilders, RunCleanup, CleanupExits
  <2>4. a \in Finalizer /\ a # Boot
    BY Failers, NameAssumption
  <2>5. final[a] = "mark" => final' = final
    <3>1. final[a] = "mark" => archive[a] # "cleanup" /\ ~cleanup[a]
      BY <2>4 DEF Kept, FinalOnce
    <3> QED
      BY <1>2, <3>1 DEF ArchiveCalled, ArchiveGoesOn, CancelSetup, Reread, Enter,
         MarkArchiving, StopBuilders, RunCleanup, CleanupExits
  <2> QED
    BY <1>t, <1>r, <2>1, <2>2, <2>3, <2>4, <2>5
<1>3. ASSUME NEW f \in Finalizer, RemoveFiles(f)
      PROVE  \E g \in Finalizer : final'[g] = "mark"
  BY <1>t, <1>3 DEF RemoveFiles
<1>4. ASSUME NEW f \in Finalizer
      PROVE  ~MarkArchived(f)
  BY DEF MarkArchived, MarkRow, row
<1>f. ASSUME NEW f \in Finalizer, FinalizeFails(f)
      PROVE  "archive" \in left'
  BY <1>f DEF FinalizeFails
<1>5. CASE \E x \in Remove : RemoveCalled(x) \/ RemoveRow(x)
  <2>1. UNCHANGED <<row, files, left, final, boot>>
    BY <1>5 DEF RemoveCalled, RemoveRow
  <2> QED
    BY <1>r, <2>1 DEF row
<1>6. CASE Turns
  <2>1. UNCHANGED <<files, left, archivedAt, final>> /\ ~archivedAt
        /\ (boot \in {"abandon", "archives", "finalizing"} => boot' = boot)
    BY <1>6, TurnFrame DEF Kept, Rests, Still
  <2>2. status # "gone"
    BY <1>6 DEF Turns, StopSession, SendMessage, EndTurn, Deliver, SetRunning, Dispatch,
       OpenTurn, row
  <2>3. status = "archiving" /\ boot \in {"abandon", "archives"} => status' = status
    BY <1>6, <1>s DEF Turns, StopSession, SendMessage, EndTurn, Deliver, SetRunning,
       Dispatch, OpenTurn, row
  <2> QED
    BY <1>r, <2>1, <2>2, <2>3
<1>7. CASE Crash
  <2>1. UNCHANGED <<status, archivedAt, left>> /\ boot' = "abandon" /\ "crash" \in may
    BY <1>7 DEF Crash, row
  <2>2. CASE files
    <3>1. \E f \in Finalizer : final[f] = "files"
      BY <1>7, <2>2 DEF Crash, Kept, Still
    <3>2. "archive" \in may
      BY <3>1 DEF Kept, Rests, NoArchive
    <3>3. Ended
      BY <2>1, <3>1, <3>2 DEF Kept, Lasting
    <3> QED
      BY <2>1, <3>3 DEF Ended, Kept, Gone
  <2>3. CASE ~files
    <3>1. \/ \E f \in Finalizer : final[f] # "off"
          \/ status = "archiving"
          \/ "archive" \in left
      BY <1>r, <1>t, <2>1, <2>3
    <3>2. CASE \E f \in Finalizer : final[f] # "off"
      <4>1. "archive" \in may
        BY <3>2 DEF Kept, Rests, NoArchive
      <4>2. Ended
        BY <2>1, <3>2, <4>1 DEF Kept, Lasting
      <4> QED
        BY <2>1, <4>2 DEF Ended, Kept, Gone
    <3> QED
      BY <2>1, <3>1, <3>2
  <2> QED
    BY <2>2, <2>3 DEF Kept, Rests, TypeOK
<1>8. CASE UNCHANGED vars
  BY <1>8, <1>r DEF vars, row
<1> QED
  BY <1>1, <1>2, <1>3, <1>4, <1>5, <1>6, <1>7, <1>8, <1>f DEF Visible, Finalize

LEMMA StepFinalOnce ==
  ASSUME Kept, Visible \/ UNCHANGED vars
  PROVE  FinalOnce'
<1>t. /\ final \in [Finalizer -> {"off", "files", "mark"}] /\ Archive \subseteq Finalizer
      /\ archive \in [Archive -> ArchivePc] /\ cleanup \in [Archive -> BOOLEAN]
      /\ Boot \notin Archive
  BY Failers, NameAssumption DEF Kept, Rests, TypeOK
<1>1. CASE UNCHANGED <<archive, cleanup>> /\ \A a \in Archive : final'[a] # "off" => final[a] # "off"
  BY <1>1 DEF Kept, FinalOnce
<1>2. CASE Recovery
  <2>1. UNCHANGED calls /\ (final' = final \/ final' = [final EXCEPT ![Boot] = "files"])
    BY <1>2 DEF Recovery, AbandonSetup, CompleteArchives, RepairStatus,
       SelectInterrupted, RestartTurn, StopInterrupted
  <2> QED
    BY <1>1, <1>t, <2>1 DEF calls
<1>3. ASSUME NEW a \in Archive, ArchiveCalled(a) \/ ArchiveGoesOn(a)
      PROVE  FinalOnce'
  <2>1. \A b \in Archive \ {a} : final'[b] = final[b] /\ archive'[b] = archive[b]
                                 /\ cleanup'[b] = cleanup[b]
    BY <1>3, <1>t DEF ArchiveCalled, ArchiveGoesOn, CancelSetup, Reread, Enter,
       MarkArchiving, StopBuilders, RunCleanup, CleanupExits, calls
  <2>2. a \in Archive /\ a \in Finalizer
    BY <1>t
  <2>i. /\ final[a] # "off" => archive[a] \in {"finalizing", "off"} /\ ~cleanup[a]
        /\ cleanup[a] => archive[a] = "off"
    BY DEF Kept, FinalOnce
  <2>3. /\ final'[a] # "off" => archive'[a] \in {"finalizing", "off"} /\ ~cleanup'[a]
        /\ cleanup'[a] => archive'[a] = "off"
    <3>1. CASE RunCleanup(a)
      BY <1>t, <2>2, <2>i, <3>1 DEF RunCleanup
    <3>2. CASE CleanupExits(a)
      BY <1>t, <2>2, <2>i, <3>2 DEF CleanupExits
    <3>3. CASE ~RunCleanup(a) /\ ~CleanupExits(a)
      <4>1. UNCHANGED <<final, cleanup>> /\ archive[a] \notin {"finalizing", "off"}
        BY <1>3, <3>3 DEF ArchiveCalled, ArchiveGoesOn, CancelSetup, Reread, Enter,
           MarkArchiving, StopBuilders
      <4> QED
        BY <2>i, <4>1
    <3> QED
      BY <3>1, <3>2, <3>3
  <2> QED
    BY <2>1, <2>3 DEF Kept, FinalOnce
<1>4. ASSUME NEW f \in Finalizer, Finalize(f)
      PROVE  FinalOnce'
  <2>1. CASE RemoveFiles(f)
    <3>1. UNCHANGED <<archive, cleanup>> /\ final[f] = "files"
          /\ final' = [final EXCEPT ![f] = "mark"]
      BY <2>1 DEF RemoveFiles, calls
    <3> QED
      BY <1>1, <1>t, <3>1
  <2>2. CASE FinalizeFails(f) \/ MarkArchived(f)
    <3>1. cleanup' = cleanup /\ final' = [final EXCEPT ![f] = "off"]
          /\ \/ archive' = archive
             \/ archive' = [archive EXCEPT ![f] = "off"]
      BY <2>2 DEF FinalizeFails, MarkArchived, FinalizeEnds
    <3>2. \A a \in Archive : (final'[a] # "off" => final[a] # "off")
                             /\ (archive'[a] = archive[a] \/ archive'[a] = "off")
      BY <1>t, <3>1
    <3> QED
      BY <3>1, <3>2 DEF Kept, FinalOnce
  <2> QED
    BY <1>4, <2>1, <2>2 DEF Finalize
<1>5. CASE \E x \in Remove : RemoveCalled(x) \/ RemoveRow(x)
  BY <1>1, <1>5 DEF RemoveCalled, RemoveRow, calls
<1>6. CASE Turns
  BY <1>1, <1>6 DEF Turns, StopSession, SendMessage, EndTurn, Deliver, SetRunning,
     Dispatch, OpenTurn, MessageEnds, MessageFails, calls
<1>7. CASE Crash
  <2>1. \A a \in Archive : ~cleanup'[a] /\ final'[a] = "off"
    BY <1>7, <1>t DEF Crash
  <2> QED
    BY <2>1 DEF FinalOnce
<1>8. CASE UNCHANGED vars
  BY <1>1, <1>8 DEF vars, calls
<1> QED
  BY <1>2, <1>3, <1>4, <1>5, <1>6, <1>7, <1>8 DEF Visible

LEMMA StepLasting ==
  ASSUME Kept, Visible \/ UNCHANGED vars, may' = may, Still'
  PROVE  Lasting'
<1> SUFFICES ASSUME "crash" \in may, "archive" \in may
             PROVE  /\ \A a \in Archive :
                          archive'[a] \in {"agents", "cleanup", "finalizing"} \/ cleanup'[a]
                          \/ snap'[a].status = "archiving" => Ended'
                    /\ \A f \in Finalizer : final'[f] # "off" => Ended'
  BY DEF Lasting
<1>t. /\ final \in [Finalizer -> {"off", "files", "mark"}] /\ Archive \subseteq Finalizer
      /\ archive \in [Archive -> ArchivePc] /\ cleanup \in [Archive -> BOOLEAN]
      /\ snap \in [Archive -> RowRead]
  BY Failers DEF Kept, Rests, TypeOK
<1>i. NoTurns /\ "stop" \notin may /\ "turns" \notin may
  BY DEF Kept, Still
<1>l. /\ \A a \in Archive : archive[a] \in {"agents", "cleanup", "finalizing"} \/ cleanup[a]
                             \/ snap[a].status = "archiving" => Ended
      /\ \A f \in Finalizer : final[f] # "off" => Ended
  BY DEF Kept, Lasting
<1>1. Ended => Ended'
  <2>1. CASE Recovery
    BY <2>1, <1>i DEF Recovery, AbandonSetup, CompleteArchives, RepairStatus,
       SelectInterrupted, RestartTurn, StopInterrupted, NoTurns, row, Ended
  <2>2. CASE \E a \in Archive : ArchiveCalled(a) \/ ArchiveGoesOn(a)
    BY <2>2 DEF ArchiveCalled, ArchiveGoesOn, CancelSetup, Reread, Enter,
       MarkArchiving, StopBuilders, RunCleanup, CleanupExits, row, Ended
  <2>3. CASE \E f \in Finalizer : Finalize(f)
    BY <2>3 DEF Finalize, RemoveFiles, FinalizeFails, MarkArchived, FinalizeEnds,
       MarkRow, row, Ended
  <2>4. CASE \E x \in Remove : RemoveCalled(x) \/ RemoveRow(x)
    BY <2>4 DEF RemoveCalled, RemoveRow, row, Ended
  <2>5. CASE Turns
    BY <2>5, <1>i DEF Turns, StopSession, SendMessage, EndTurn, Deliver, SetRunning,
       Dispatch, OpenTurn, MessageEnds, MessageFails, row, Ended
  <2>6. CASE Crash \/ UNCHANGED vars
    BY <2>6 DEF Crash, vars, row, Ended
  <2> QED
    BY <2>1, <2>2, <2>3, <2>4, <2>5, <2>6 DEF Visible
<1>2. CASE Ended
  BY <1>1, <1>2
<1>3. CASE ~Ended
  <2>n. /\ \A a \in Archive : archive[a] \notin {"agents", "cleanup", "finalizing"} /\ ~cleanup[a]
                              /\ snap[a].status # "archiving"
        /\ \A f \in Finalizer : final[f] = "off"
    BY <1>l, <1>3
  <2>1. CASE UNCHANGED <<archive, cleanup, snap, final>>
    BY <1>l, <1>1, <2>1
  <2>2. CASE Recovery
    <3>1. ~CompleteArchives \/ status # "archiving"
      BY <1>3 DEF Ended
    <3> QED
      BY <2>1, <2>2, <3>1 DEF Recovery, AbandonSetup, CompleteArchives, RepairStatus,
         SelectInterrupted, RestartTurn, StopInterrupted, calls
  <2>3. ASSUME NEW a \in Archive, ArchiveCalled(a) \/ ArchiveGoesOn(a), ~Ended'
        PROVE  /\ archive'[a] \notin {"agents", "cleanup", "finalizing"} /\ ~cleanup'[a]
               /\ snap'[a].status # "archiving"
               /\ final' = final
               /\ \A b \in Archive \ {a} : /\ archive'[b] = archive[b] /\ cleanup'[b] = cleanup[b]
                                            /\ snap'[b] = snap[b]
    <3>1. CASE ArchiveCalled(a) \/ Reread(a)
      <4>1. status # "archiving"
        BY <1>3 DEF Ended
      <4> QED
        BY <1>t, <2>n, <3>1, <4>1 DEF ArchiveCalled, Reread, Row
    <3>2. CASE CancelSetup(a) \/ Enter(a)
      BY <1>t, <2>n, <3>2 DEF CancelSetup, Enter
    <3>3. CASE MarkArchiving(a)
      <4>1. status' # "archiving" /\ snap[a].status # "archiving"
        BY <2>n, <2>3 DEF Ended
      <4>2. archive' = [archive EXCEPT ![a] = "off"] /\ UNCHANGED <<snap, cleanup, final>>
        BY <3>3, <4>1 DEF MarkArchiving
      <4> QED
        BY <1>t, <2>n, <4>2
    <3>4. ~StopBuilders(a) /\ ~RunCleanup(a) /\ ~CleanupExits(a)
      BY <2>n DEF StopBuilders, RunCleanup, CleanupExits
    <3> QED
      BY <2>3, <3>1, <3>2, <3>3, <3>4 DEF ArchiveGoesOn
  <2>4. CASE \E f \in Finalizer : Finalize(f)
    BY <2>n, <2>4 DEF Finalize, RemoveFiles, FinalizeFails, MarkArchived, FinalizeEnds
  <2>5. CASE \E x \in Remove : RemoveCalled(x) \/ RemoveRow(x)
    BY <2>1, <2>5 DEF RemoveCalled, RemoveRow, calls
  <2>6. CASE Turns
    BY <2>1, <2>6 DEF Turns, StopSession, SendMessage, EndTurn, Deliver, SetRunning,
       Dispatch, OpenTurn, MessageEnds, MessageFails, calls
  <2>7. CASE Crash
    <3>1. \A a \in Archive : archive'[a] \in {"idle", "off"} /\ ~cleanup'[a] /\ snap' = snap
      BY <2>7 DEF Crash
    <3>2. \A f \in Finalizer : final'[f] = "off"
      BY <2>7 DEF Crash
    <3> QED
      BY <2>n, <3>1, <3>2
  <2>8. CASE UNCHANGED vars
    BY <2>1, <2>8 DEF vars, calls
  <2>9. CASE \E a \in Archive : ArchiveCalled(a) \/ ArchiveGoesOn(a)
    BY <2>n, <2>3, <2>9
  <2> QED
    BY <2>2, <2>4, <2>5, <2>6, <2>7, <2>8, <2>9 DEF Visible
<1> QED
  BY <1>2, <1>3

\* Once every call and the recovery are over, the row of a session that is not
\* archived names a worktree exactly when there is one: no archive, removal,
\* cleanup task or restart leaves the row without its files, or files without a
\* row, unless the last finalization failed between the two and nothing has
\* completed it since.
THEOREM RowNamesFiles ==
  ASSUME ArchivesLast
  PROVE  /\ Spec => []RowMatchesFiles
         /\ Spec => [](Quiet /\ ~archivedAt /\ files => path /\ status # "gone")
<1>1. Kept /\ [Next]_vars => Kept'
  <2> SUFFICES ASSUME Kept, [Next]_vars PROVE Kept'
    OBVIOUS
  <2>1. (Visible \/ UNCHANGED vars) /\ may' = may
    BY OnlyVisible, MayStays
  <2>2. Still' /\ Gone'
    BY <2>1, StepStill, StepGone
  <2>3. Removing' /\ Lasting' /\ FinalOnce'
    BY <2>1, <2>2, StepRemoving, StepLasting, StepFinalOnce
  <2>4. Rests'
    BY StepTyped, StepNoTurns, StepNoArchive, MayStays DEF Kept, Rests
  <2>5. "crash" \in may /\ "archive" \in may => NoTurns'
    BY StepNoTurns DEF Kept, Still, Rests
  <2> QED
    BY <2>1, <2>2, <2>3, <2>4, <2>5 DEF Kept
<1>2. Kept => /\ RowMatchesFiles
              /\ Quiet /\ ~archivedAt /\ files => path /\ status # "gone"
  <2> SUFFICES ASSUME Kept
               PROVE  /\ RowMatchesFiles
                      /\ Quiet /\ ~archivedAt /\ files => path /\ status # "gone"
    OBVIOUS
  <2>1. ~archivedAt /\ files => path /\ status # "gone"
    BY DEF Kept, Gone
  <2>2. Quiet /\ ~archivedAt /\ "archive" \notin left /\ ~files => status = "gone"
    BY DEF Quiet, Kept, Removing
  <2> QED
    BY <2>1, <2>2 DEF RowMatchesFiles
<1> QED
  BY <1>1, <1>2, InitKept, PTL DEF Spec
=============================================================================
