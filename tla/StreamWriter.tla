----------------------------- MODULE StreamWriter -----------------------------
(***************************************************************************)
(* shared/message-stream-writer.ts: one turn's stream of canonical ops is  *)
(* written to rows of session_messages.  Text is buffered in memory and    *)
(* patched into its row every 250 ms; a tool call is one row, patched as   *)
(* it goes on and settled by its result, or by finish() at the end.        *)
(*                                                                         *)
(* The code between two awaits is atomic.  `waiting' is the queue of the   *)
(* row patches that were issued and not yet answered, oldest first: a      *)
(* patch is in the row when it is issued, for the database serves patches  *)
(* in order, and its caller goes on when it is answered.  An actor that    *)
(* has been answered runs to its next await before anything else.          *)
(***************************************************************************)
EXTENDS Naturals, Sequences, SequencesExt

CONSTANTS
  Tool,       \* call ids
  Ticker,     \* bound: the flushes of the tool timer that may overlap
  MaxOps,     \* bound: the stream delivers at most this many ops
  Progress,   \* the provider has a buildToolCallProgress (Cursor)
  MayStop     \* a stop may call finish() while the stream goes on (Claude)

ASSUME MaxOpsAssumption == MaxOps \in Nat
ASSUME ModeAssumption == Progress \in BOOLEAN /\ MayStop \in BOOLEAN

NoTool == "none"
ASSUME ToolAssumption == NoTool \notin Tool

Finisher == {"stop", "end"}             \* the stop and the end of the stream
Actor    == {"stream"} \cup Ticker \cup Finisher
ASSUME TickerAssumption == Ticker \cap ({"stream"} \cup Finisher) = {}

Kind == {"text", "thinking", "start", "result", "progress", "line", "plan",
         "counter"}

\* An op: its kind, the call it is about, and its number in the stream.
Op == [kind : Kind, tool : Tool \cup {NoTool}, n : 0 .. MaxOps]
NoOp == [kind |-> "line", tool |-> NoTool, n |-> 0]

\* A row shows the ops whose content it holds.
Row == [ops : SUBSET (1 .. MaxOps), tool : Tool \cup {NoTool},
        status : {"text", "line", "counter", "running", "completed", "cancelled"}]

VARIABLES
  sent, phase,            \* ops delivered so far; what was delivered per call
  rows,                   \* session_messages of this turn, by id
  rowId, payload, bufferKind,  \* assistantRowId, assistantPayload, streamBufferKind
  timer, dirty,           \* the assistant patch timer and its dirty flag
  toolTimer, toolDirty,   \* the tool progress timer and its dirty ids
  pendingTools,           \* call ids in insertion order
  toolRow, toolOps,       \* row and payload of a pending tool
  counterRow,             \* thinkingTokensRowId
  op,                     \* the op the stream is applying
  pc, ids, target,        \* per actor: next code, progress ids left, its call
  waiting, creating,      \* unanswered patches; the stream awaits a createRow
  disposed                \* the session was dropped and the query aborted

text  == <<rowId, payload, bufferKind, timer, dirty>>
tools == <<toolTimer, toolDirty, pendingTools, toolRow, toolOps>>
vars  == <<sent, phase, rows, text, tools, counterRow, op, pc, ids, target,
           waiting, creating, disposed>>

StreamPc == {"idle", "flushed", "body", "progress", "result", "created",
             "completed", "ended"}
FinishPc == {"off", "start", "collect", "progress", "flush", "flushed",
             "settle", "settled", "done"}

TypeOK ==
  /\ sent \in 0 .. MaxOps
  /\ phase \in [Tool -> {"new", "started", "ended"}]
  /\ rows \in Seq(Row)
  /\ rowId \in 0 .. Len(rows)
  /\ payload \subseteq 1 .. MaxOps
  /\ bufferKind \in {"none", "assistant", "thinking"}
  /\ timer \in BOOLEAN /\ dirty \in BOOLEAN /\ toolTimer \in BOOLEAN
  /\ toolDirty \in Seq(Tool) /\ pendingTools \in Seq(Tool)
  /\ toolRow \in [Tool -> 0 .. Len(rows)]
  /\ toolOps \in [Tool -> SUBSET (1 .. MaxOps)]
  /\ counterRow \in 0 .. Len(rows)
  /\ op \in Op
  /\ pc \in [Actor -> StreamPc \cup FinishPc]
  /\ ids \in [Actor -> Seq(Tool)]
  /\ target \in [Finisher -> Tool \cup {NoTool}]
  /\ waiting \in Seq(Actor)
  /\ creating \in BOOLEAN /\ disposed \in BOOLEAN

Init ==
  /\ sent = 0 /\ phase = [c \in Tool |-> "new"]
  /\ rows = <<>>
  /\ rowId = 0 /\ payload = {} /\ bufferKind = "none"
  /\ timer = FALSE /\ dirty = FALSE
  /\ toolTimer = FALSE /\ toolDirty = <<>> /\ pendingTools = <<>>
  /\ toolRow = [c \in Tool |-> 0] /\ toolOps = [c \in Tool |-> {}]
  /\ counterRow = 0
  /\ op = NoOp
  /\ pc = [a \in Actor |-> IF a \in Finisher THEN "off" ELSE "idle"]
  /\ ids = [a \in Actor |-> <<>>] /\ target = [f \in Finisher |-> NoTool]
  /\ waiting = <<>> /\ creating = FALSE /\ disposed = FALSE

-----------------------------------------------------------------------------
(* Scheduling. *)

Awaits(a) == a \in Range(waiting) \/ (a = "stream" /\ creating)

\* a has been answered and is running
Runs(a) == pc[a] \notin {"idle", "ended", "off", "done"} /\ ~Awaits(a)

\* No callback is running: a timer, an answer or a message may be next.
Quiet == \A a \in Actor : ~Runs(a)

Goto(a, label) == pc' = [pc EXCEPT ![a] = label]

-----------------------------------------------------------------------------
(* The helpers of the class. *)

Pending(c) == c \in Range(pendingTools)

\* pendingTools.delete
Delete(c) ==
  IF Pending(c)
  THEN \E i \in 1 .. Len(pendingTools) :
         pendingTools[i] = c /\ pendingTools' = RemoveAt(pendingTools, i)
  ELSE UNCHANGED pendingTools

Create(row) ==
  /\ rows' = Append(rows, row)
  /\ creating' = TRUE

\* patchPayload, awaited by actor a
Patch(a, r, shown, status) ==
  /\ rows' = [rows EXCEPT ![r].ops = shown, ![r].status = status]
  /\ waiting' = Append(waiting, a)

\* scheduleAssistantPatch
SchedulePatch == timer' = TRUE /\ dirty' = TRUE

\* flushAssistant up to its await; the caller has checked that a row is open.
FlushText(a) ==
  /\ timer' = FALSE /\ dirty' = FALSE
  /\ Patch(a, rowId, payload, "text")
  /\ UNCHANGED <<rowId, payload, bufferKind>>

\* flushAssistant after its await
ResetText ==
  /\ rowId' = 0 /\ payload' = {} /\ bufferKind' = "none"
  /\ UNCHANGED <<timer, dirty>>

\* flushToolProgressPatches up to its loop
CollectProgress(a) ==
  /\ ids' = [ids EXCEPT ![a] = toolDirty]
  /\ toolTimer' = FALSE /\ toolDirty' = <<>>
  /\ UNCHANGED <<pendingTools, toolRow, toolOps>>

\* What the loop of flushToolProgressPatches has yet to patch: the places of its
\* ids that are still pending.
ProgressLeft(a) == {i \in 1 .. Len(ids[a]) : Pending(ids[a][i])}

PatchProgress(a) ==
  \E i \in ProgressLeft(a) :
    /\ \A j \in ProgressLeft(a) : i <= j
    /\ ids' = [ids EXCEPT ![a] = SubSeq(ids[a], i + 1, Len(ids[a]))]
    /\ Patch(a, toolRow[ids[a][i]], toolOps[ids[a][i]], "running")

-----------------------------------------------------------------------------
(* apply(): the stream delivers ops one after the other. *)

Delivered(kind, c) ==
  /\ sent < MaxOps
  /\ Quiet /\ pc["stream"] = "idle" /\ ~Awaits("stream")
  /\ sent' = sent + 1
  /\ op' = [kind |-> kind, tool |-> c, n |-> sent + 1]

\* appendAssistantText
AssistantText ==
  /\ Delivered("text", NoTool)
  /\ IF rowId = 0
     THEN /\ counterRow' = 0
          /\ payload' = {sent + 1}
          /\ Create([ops |-> {sent + 1}, tool |-> NoTool, status |-> "text"])
          /\ Goto("stream", "created")
          /\ UNCHANGED <<rowId, bufferKind, timer, dirty>>
     ELSE /\ payload' = payload \cup {sent + 1}
          /\ SchedulePatch
          /\ UNCHANGED <<rowId, bufferKind, rows, creating, counterRow, pc>>
  /\ UNCHANGED <<phase, tools, ids, target, waiting, disposed>>

\* appendThinking to the open thinking row
MoreThinking ==
  /\ rowId # 0 /\ bufferKind = "thinking"
  /\ Delivered("thinking", NoTool)
  /\ payload' = payload \cup {sent + 1}
  /\ SchedulePatch
  /\ UNCHANGED <<rowId, bufferKind, phase, rows, tools, counterRow, pc, ids,
                 target, waiting, creating, disposed>>

\* A call starts before it makes progress and has one result; the result can
\* come without a start.
Advances(kind, c) ==
  /\ phase[c] # "ended"
  /\ kind = "progress" => Progress /\ phase[c] = "started"
  /\ phase' = [phase EXCEPT ![c] = IF kind = "result" THEN "ended" ELSE "started"]

\* Mutant: only text that was not patched yet is flushed before another op.
OtherOpUnflushed(kind, c) ==
  /\ Delivered(kind, c)
  /\ IF dirty /\ rowId # 0
     THEN FlushText("stream") /\ Goto("stream", "flushed")
     ELSE Goto("stream", "body") /\ UNCHANGED <<text, rows, waiting>>

\* Every op but text (and further thinking) first flushes the open row.
OtherOp(kind, c) ==
  /\ Delivered(kind, c)
  /\ IF rowId # 0
     THEN FlushText("stream") /\ Goto("stream", "flushed")
     ELSE Goto("stream", "body") /\ UNCHANGED <<text, rows, waiting>>

ToolOp(kind, c) ==
  /\ OtherOp(kind, c)
  /\ Advances(kind, c)
  /\ UNCHANGED <<tools, counterRow, ids, target, creating, disposed>>

PlainOp(kind) ==
  /\ kind = "thinking" => ~(rowId # 0 /\ bufferKind = "thinking")
  /\ OtherOp(kind, NoTool)
  /\ UNCHANGED <<phase, tools, counterRow, ids, target, creating, disposed>>

Flushed ==
  /\ Runs("stream") /\ pc["stream"] = "flushed"
  /\ ResetText
  /\ Goto("stream", "body")
  /\ UNCHANGED <<sent, phase, rows, tools, counterRow, op, ids, target,
                 waiting, creating, disposed>>

Body(kind) ==
  /\ Runs("stream") /\ pc["stream"] = "body" /\ op.kind = kind
  /\ UNCHANGED <<sent, phase, op, target, disposed>>

\* appendThinking that opens a row
OpenThinking ==
  /\ Body("thinking")
  /\ counterRow' = 0
  /\ payload' = {op.n}
  /\ Create([ops |-> {op.n}, tool |-> NoTool, status |-> "text"])
  /\ Goto("stream", "created")
  /\ UNCHANGED <<rowId, bufferKind, timer, dirty, tools, ids, waiting>>

\* startTool: the row is created before the call is pending.
StartTool ==
  /\ Body("start") /\ ~Pending(op.tool)
  /\ Create([ops |-> {op.n}, tool |-> op.tool, status |-> "running"])
  /\ Goto("stream", "created")
  /\ UNCHANGED <<text, tools, counterRow, ids, waiting>>

\* mergeToolStart with input that adds something
MergeToolStart ==
  /\ Body("start") /\ Pending(op.tool)
  /\ LET merged == toolOps[op.tool] \cup {op.n} IN
       /\ toolOps' = [toolOps EXCEPT ![op.tool] = merged]
       /\ Patch("stream", toolRow[op.tool], merged, "running")
  /\ Goto("stream", "idle")
  /\ UNCHANGED <<text, toolTimer, toolDirty, pendingTools, toolRow, counterRow,
                 ids, creating>>

\* progressTool
ProgressTool ==
  /\ Body("progress")
  /\ IF Pending(op.tool)
     THEN /\ toolOps' = [toolOps EXCEPT ![op.tool] = @ \cup {op.n}]
          /\ toolDirty' = IF op.tool \in Range(toolDirty) THEN toolDirty
                          ELSE Append(toolDirty, op.tool)
          /\ toolTimer' = TRUE
     ELSE UNCHANGED <<toolOps, toolDirty, toolTimer>>
  /\ Goto("stream", "idle")
  /\ UNCHANGED <<text, rows, pendingTools, toolRow, counterRow, ids, waiting,
                 creating>>

\* A tool_result first flushes the progress of all calls.
ToolResult ==
  /\ Body("result")
  /\ CollectProgress("stream")
  /\ Goto("stream", "result")
  /\ UNCHANGED <<text, rows, counterRow, waiting, creating>>

\* persistPlan: a row of its own, which leaves the counter open
NewPlan ==
  /\ Body("plan")
  /\ Create([ops |-> {op.n}, tool |-> NoTool, status |-> "line"])
  /\ Goto("stream", "created")
  /\ UNCHANGED <<text, tools, counterRow, ids, waiting>>

\* A system line or the turn result: a row of its own, and the end of the counter
NewLine ==
  /\ Body("line")
  /\ counterRow' = 0
  /\ Create([ops |-> {op.n}, tool |-> NoTool, status |-> "line"])
  /\ Goto("stream", "created")
  /\ UNCHANGED <<text, tools, ids, waiting>>

\* thinking_tokens: one row, patched until text, thinking or another line comes
Counter ==
  /\ Body("counter")
  /\ IF counterRow # 0
     THEN /\ Patch("stream", counterRow, rows[counterRow].ops \cup {op.n}, "counter")
          /\ Goto("stream", "idle")
          /\ UNCHANGED creating
     ELSE /\ Create([ops |-> {op.n}, tool |-> NoTool, status |-> "counter"])
          /\ Goto("stream", "created")
          /\ UNCHANGED waiting
  /\ UNCHANGED <<text, tools, counterRow, ids>>

\* The id that createRow returns: the row that was made for the op
NewId == CHOOSE r \in 1 .. Len(rows) : op.n \in rows[r].ops

\* Mutant: the kind of the op is stored as the kind of the buffer.
CreatedRawKind ==
  /\ Runs("stream") /\ pc["stream"] = "created"
  /\ IF op.kind \in {"text", "thinking"}
     THEN rowId' = NewId /\ bufferKind' = op.kind
     ELSE UNCHANGED <<rowId, bufferKind>>
  /\ Goto("stream", "idle")
  /\ UNCHANGED <<sent, phase, rows, payload, timer, dirty, tools, counterRow, op,
                 ids, target, waiting, creating, disposed>>

\* createRow has returned the id of the row.
Created ==
  /\ Runs("stream") /\ pc["stream"] = "created"
  /\ IF op.kind \in {"text", "thinking"}
     THEN /\ rowId' = NewId
          /\ bufferKind' = IF op.kind = "text" THEN "assistant" ELSE "thinking"
     ELSE UNCHANGED <<rowId, bufferKind>>
  /\ IF op.kind = "start"
     THEN /\ pendingTools' = Append(pendingTools, op.tool)
          /\ toolRow' = [toolRow EXCEPT ![op.tool] = NewId]
          /\ toolOps' = [toolOps EXCEPT ![op.tool] = {op.n}]
     ELSE UNCHANGED <<pendingTools, toolRow, toolOps>>
  /\ counterRow' = IF op.kind = "counter" THEN NewId ELSE counterRow
  /\ Goto("stream", "idle")
  /\ UNCHANGED <<sent, phase, rows, payload, timer, dirty, toolTimer, toolDirty,
                 op, ids, target, waiting, creating, disposed>>

\* Mutant: a result without a start is patched into a row that is not there.
CompleteToolNoCreate ==
  /\ Runs("stream") /\ pc["stream"] = "result"
  /\ UNCHANGED <<sent, phase, text, tools, counterRow, op, target, disposed,
                 creating>>
  /\ IF ProgressLeft("stream") # {}
     THEN PatchProgress("stream") /\ UNCHANGED pc
     ELSE /\ Goto("stream", "completed")
          /\ IF Pending(op.tool)
             THEN Patch("stream", toolRow[op.tool], toolOps[op.tool] \cup {op.n},
                        "completed")
             ELSE UNCHANGED <<rows, waiting>>
          /\ UNCHANGED ids

\* completeTool, once no progress is left to patch: the row gets its result
\* before the call stops being pending.
CompleteTool ==
  /\ Runs("stream") /\ pc["stream"] = "result"
  /\ UNCHANGED <<sent, phase, text, tools, counterRow, op, target, disposed>>
  /\ IF ProgressLeft("stream") # {}
     THEN PatchProgress("stream") /\ UNCHANGED <<pc, creating>>
     ELSE /\ Goto("stream", "completed")
          /\ IF Pending(op.tool)
             THEN /\ Patch("stream", toolRow[op.tool],
                           toolOps[op.tool] \cup {op.n}, "completed")
                  /\ UNCHANGED creating
             ELSE /\ Create([ops |-> {op.n}, tool |-> op.tool,
                             status |-> "completed"])
                  /\ UNCHANGED waiting
          /\ UNCHANGED ids

\* Mutant: the call stays pending.
CompletedKept ==
  /\ Runs("stream") /\ pc["stream"] = "completed"
  /\ Goto("stream", "idle")
  /\ UNCHANGED <<sent, phase, rows, text, tools, counterRow, op, ids, target,
                 waiting, creating, disposed>>

Completed ==
  /\ Runs("stream") /\ pc["stream"] = "completed"
  /\ Delete(op.tool)
  /\ Goto("stream", "idle")
  /\ UNCHANGED <<sent, phase, rows, text, toolTimer, toolDirty, toolRow, toolOps,
                 counterRow, op, ids, target, waiting, creating, disposed>>

StreamEnds ==
  /\ Quiet /\ pc["stream"] = "idle" /\ ~Awaits("stream")
  /\ Goto("stream", "ended")
  /\ UNCHANGED <<sent, phase, rows, text, tools, counterRow, op, ids, target,
                 waiting, creating, disposed>>

-----------------------------------------------------------------------------
(* The database answers. *)

PatchAnswered ==
  /\ Quiet /\ waiting # <<>>
  /\ waiting' = Tail(waiting)
  /\ UNCHANGED <<sent, phase, rows, text, tools, counterRow, op, pc, ids,
                 target, creating, disposed>>

CreateAnswered ==
  /\ Quiet /\ creating
  /\ creating' = FALSE
  /\ UNCHANGED <<sent, phase, rows, text, tools, counterRow, op, pc, ids,
                 target, waiting, disposed>>

-----------------------------------------------------------------------------
(* The debounce timers. *)

\* Mutant: the timer patches the row only while it collects text.
TextTimerAssistantOnly ==
  /\ Quiet /\ timer
  /\ timer' = FALSE /\ dirty' = FALSE
  /\ rows' = IF dirty /\ bufferKind = "assistant"
             THEN [rows EXCEPT ![rowId].ops = payload] ELSE rows
  /\ UNCHANGED <<sent, phase, rowId, payload, bufferKind, tools, counterRow, op,
                 pc, ids, target, waiting, creating, disposed>>

\* flushAssistantPatch; nothing waits for this patch.
TextTimer ==
  /\ Quiet /\ timer
  /\ timer' = FALSE
  /\ dirty' = (dirty /\ rowId = 0)
  /\ rows' = IF dirty /\ rowId # 0
             THEN [rows EXCEPT ![rowId].ops = payload] ELSE rows
  /\ UNCHANGED <<sent, phase, rowId, payload, bufferKind, tools, counterRow, op,
                 pc, ids, target, waiting, creating, disposed>>

\* The tool timer starts a flush t, whatever its earlier flushes wait for.
ToolTimer(t) ==
  /\ Quiet /\ toolTimer
  /\ pc[t] = "idle"
  /\ CollectProgress(t)
  /\ Goto(t, "progress")
  /\ UNCHANGED <<sent, phase, rows, text, counterRow, op, target, waiting,
                 creating, disposed>>

TickerPatches(t) ==
  /\ Runs(t)
  /\ IF ProgressLeft(t) # {}
     THEN PatchProgress(t) /\ UNCHANGED pc
     ELSE Goto(t, "idle") /\ UNCHANGED <<ids, rows, waiting>>
  /\ UNCHANGED <<sent, phase, text, tools, counterRow, op, target, creating,
                 disposed>>

-----------------------------------------------------------------------------
(* finish(), called by _disposeActiveSession. *)

FinishCalled(f) ==
  /\ Quiet /\ pc[f] = "off" /\ ~disposed
  /\ f = "stop" => MayStop
  /\ f = "end" => pc["stream"] = "ended"
  /\ Goto(f, "start")
  /\ UNCHANGED <<sent, phase, rows, text, tools, counterRow, op, ids, target,
                 waiting, creating, disposed>>

At(f, label) ==
  /\ Runs(f) /\ pc[f] = label
  /\ UNCHANGED <<sent, phase, op, creating>>

FinishStart(f) ==
  /\ At(f, "start")
  /\ Goto(f, "collect")
  /\ timer' = FALSE
  /\ IF dirty /\ rowId # 0
     THEN dirty' = FALSE /\ Patch(f, rowId, payload, "text")
     ELSE UNCHANGED <<dirty, rows, waiting>>
  /\ UNCHANGED <<rowId, payload, bufferKind, tools, counterRow, ids, target,
                 disposed>>

FinishCollect(f) ==
  /\ At(f, "collect")
  /\ Goto(f, "progress")
  /\ CollectProgress(f)
  /\ UNCHANGED <<rows, text, counterRow, target, waiting, disposed>>

FinishProgress(f) ==
  /\ At(f, "progress")
  /\ IF ProgressLeft(f) # {}
     THEN PatchProgress(f) /\ UNCHANGED pc
     ELSE Goto(f, "flush") /\ UNCHANGED <<ids, rows, waiting>>
  /\ UNCHANGED <<text, tools, counterRow, target, disposed>>

FinishFlush(f) ==
  /\ At(f, "flush")
  /\ IF rowId # 0
     THEN FlushText(f) /\ Goto(f, "flushed") /\ UNCHANGED counterRow
     ELSE /\ counterRow' = 0 /\ Goto(f, "settle")
          /\ UNCHANGED <<text, rows, waiting>>
  /\ UNCHANGED <<tools, ids, target, disposed>>

FinishFlushed(f) ==
  /\ At(f, "flushed")
  /\ ResetText
  /\ counterRow' = 0
  /\ Goto(f, "settle")
  /\ UNCHANGED <<rows, tools, ids, target, waiting, disposed>>

\* Mutant: finish() leaves the calls alone.
FinishSettleNone(f) ==
  /\ At(f, "settle")
  /\ disposed' = TRUE /\ Goto(f, "done")
  /\ UNCHANGED <<rows, text, tools, counterRow, ids, target, waiting>>

\* The loop over pendingTools: every entry it visits it deletes, so the next
\* one is the first.  At its end the query is aborted and dropped.
FinishSettle(f) ==
  /\ At(f, "settle")
  /\ IF pendingTools # <<>>
     THEN LET c == Head(pendingTools) IN
            /\ Patch(f, toolRow[c], toolOps[c], "cancelled")
            /\ target' = [target EXCEPT ![f] = c]
            /\ Goto(f, "settled")
            /\ UNCHANGED disposed
     ELSE /\ disposed' = TRUE /\ Goto(f, "done")
          /\ UNCHANGED <<rows, target, waiting>>
  /\ UNCHANGED <<text, tools, counterRow, ids>>

FinishSettled(f) ==
  /\ At(f, "settled")
  /\ Delete(target[f])
  /\ Goto(f, "settle")
  /\ UNCHANGED <<rows, text, toolTimer, toolDirty, toolRow, toolOps, counterRow,
                 ids, target, waiting, disposed>>

-----------------------------------------------------------------------------
StreamStep ==
  \/ AssistantText \/ MoreThinking
  \/ \E kind \in {"start", "result", "progress"}, c \in Tool : ToolOp(kind, c)
  \/ \E kind \in {"thinking", "line", "plan", "counter"} : PlainOp(kind)
  \/ Flushed \/ OpenThinking \/ StartTool \/ MergeToolStart \/ ProgressTool
  \/ ToolResult \/ NewPlan \/ NewLine \/ Counter \/ Created \/ CompleteTool
  \/ Completed \/ StreamEnds

FinishStep(f) ==
  \/ FinishCalled(f) \/ FinishStart(f) \/ FinishCollect(f) \/ FinishProgress(f)
  \/ FinishFlush(f) \/ FinishFlushed(f) \/ FinishSettle(f) \/ FinishSettled(f)

Answer == PatchAnswered \/ CreateAnswered
Timer  == TextTimer \/ \E t \in Ticker : ToolTimer(t) \/ TickerPatches(t)

Next == StreamStep \/ Answer \/ Timer \/ \E f \in Finisher : FinishStep(f)

Spec == Init /\ [][Next]_vars

\* The database answers and a timer that is set fires.  Nothing is assumed of
\* the provider: it may never deliver another op.
Fairness ==
  /\ WF_vars(PatchAnswered) /\ WF_vars(CreateAnswered)
  /\ WF_vars(TextTimer)
  /\ \A t \in Ticker : WF_vars(ToolTimer(t)) /\ WF_vars(TickerPatches(t))
  /\ WF_vars(Flushed) /\ WF_vars(Created) /\ WF_vars(CompleteTool)
  /\ WF_vars(Completed)
  /\ WF_vars(OpenThinking) /\ WF_vars(StartTool) /\ WF_vars(MergeToolStart)
  /\ WF_vars(ProgressTool) /\ WF_vars(ToolResult) /\ WF_vars(NewPlan)
  /\ WF_vars(NewLine) /\ WF_vars(Counter)
  /\ \A f \in Finisher :
       /\ WF_vars(FinishStart(f)) /\ WF_vars(FinishCollect(f))
       /\ WF_vars(FinishProgress(f)) /\ WF_vars(FinishFlush(f))
       /\ WF_vars(FinishFlushed(f)) /\ WF_vars(FinishSettle(f))
       /\ WF_vars(FinishSettled(f))

FairSpec == Spec /\ Fairness

-----------------------------------------------------------------------------
(* What makes the transcript right. *)

Shown(n) == \E r \in 1 .. Len(rows) : n \in rows[r].ops

TurnOver ==
  /\ disposed /\ pc["stream"] = "ended"
  /\ waiting = <<>> /\ ~creating /\ Quiet

\* "Anything else flushes first to preserve transcript order": no text lands
\* in a row that comes before what was sent earlier than the text, whatever
\* the timers and the awaited patches do in between (apply, flushAssistant).
TranscriptOrder ==
  \A r \in 1 .. Len(rows), q \in 1 .. Len(rows) :
    r < q /\ rows[r].status = "text" =>
      \A m \in rows[r].ops, n \in rows[q].ops : m < n

\* When the turn is over, everything the provider sent is in some row: no
\* buffered text and no progress is forgotten by a timer that was cleared.
NothingLost == TurnOver => \A n \in 1 .. sent : Shown(n)

\* "Settle any tool still marked running so no row is left dangling."
ToolsSettled ==
  TurnOver => \A r \in 1 .. Len(rows) : rows[r].status # "running"

\* Without progress payloads and without a stop, a result that is in a row stays
\* there: completeTool takes the call out of pendingTools before finish() looks
\* for calls to settle as cancelled.  (With progress payloads a patch that was
\* collected before the result can come after it.)
ResultKept ==
  [][\A r \in 1 .. Len(rows) :
       rows[r].status = "completed" => rows'[r].status = "completed"]_vars

\* Text never disappears from a row that shows it, even when a stop runs
\* finish() while the stream goes on writing.
TextGrows ==
  [][\A r \in 1 .. Len(rows) :
       rows[r].status = "text" => rows[r].ops \subseteq rows'[r].ops]_vars

\* Text in the buffer reaches its row although the provider sends nothing
\* more: whenever a timer is cleared, something else flushes.
TextReachesRow == \A n \in 1 .. MaxOps : n \in payload ~> Shown(n)

=============================================================================
