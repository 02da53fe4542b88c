------------------------------ MODULE StreamProofs ------------------------------
(***************************************************************************)
(* Proofs about StreamWriter for every set of calls and every length of    *)
(* the stream: types and the order of the rows, whatever a stop does; and  *)
(* for a turn that no stop interrupts, that text stays, that results stay, *)
(* that nothing is lost and that every call is settled.                    *)
(***************************************************************************)
EXTENDS StreamWriter, TLAPS, SequenceTheorems

Stage  == pc["stream"]
Places == 1 .. Len(rows)
Prose  == {"text", "thinking"}

-----------------------------------------------------------------------------
(* The order of the rows is not inductive: a patch writes what is in memory, *)
(* so what is in memory must be in order, too, and a patch of text must go   *)
(* to the last row.                                                          *)

\* The ops that may be in a row or in memory: the one that is applied is not,
\* until the stream has flushed what came before it.
Written == IF Stage \in {"flushed", "body", "result"} THEN sent - 1 ELSE sent

\* The op that is applied is the last one delivered, and no text is open while
\* it is.
Applying ==
  /\ Stage \in StreamPc
  /\ Stage \notin {"idle", "ended"} => op.n = sent /\ sent > 0
  /\ op.kind \in {"start", "result", "progress"} => op.tool \in Tool
  /\ Stage \in {"body", "result", "created", "completed"} => rowId = 0

Numbered ==
  /\ payload \subseteq 1 .. Written
  /\ \A c \in Tool : toolOps[c] \subseteq 1 .. Written
  /\ \A r \in Places : rows[r].ops \subseteq 1 .. Written

\* The row that was just created is the only one that holds the op, and nothing
\* in memory points to it.
NewRow ==
  Stage = "created" =>
    /\ rows # <<>> /\ rows[Len(rows)].ops = {sent}
    /\ \A r \in Places : r < Len(rows) => sent \notin rows[r].ops
    /\ \A c \in Tool : toolRow[c] # Len(rows) /\ sent \notin toolOps[c]
    /\ counterRow # Len(rows)
    /\ rows[Len(rows)].status = "text" <=> op.kind \in Prose
    /\ rows[Len(rows)].status = "counter" <=> op.kind = "counter"

\* What memory points to: text to the last row, a call to a row of a call, the
\* counter to its row.
Pointers ==
  /\ rowId # 0 => rowId = Len(rows) /\ rows[rowId].status = "text"
  /\ rowId = 0 => payload = {} \/ (Stage = "created" /\ op.kind \in Prose /\ payload = {sent})
  /\ \A c \in Tool : toolRow[c] # 0 => rows[toolRow[c]].status \notin {"text", "counter"}
  /\ \A c \in Tool : Pending(c) => toolRow[c] # 0
  /\ counterRow # 0 => rows[counterRow].status = "counter"

\* Memory is in order with the rows before the one it will be written to.
InOrder ==
  /\ \A r \in Places : r < rowId /\ rows[r].status = "text" =>
       \A m \in rows[r].ops, n \in payload : m < n
  /\ \A c \in Tool, r \in Places : r < toolRow[c] /\ rows[r].status = "text" =>
       \A m \in rows[r].ops, n \in toolOps[c] : m < n

OrderInv == Applying /\ Numbered /\ NewRow /\ Pointers /\ InOrder /\ TranscriptOrder

Inv == TypeOK /\ OrderInv

-----------------------------------------------------------------------------
(* A turn that no stop interrupts. *)

\* finish() runs only when the stream has ended.
Solo == pc["stop"] = "off" /\ (pc["end"] # "off" => Stage = "ended")

\* A row of text that is open holds nothing that is not in the buffer.
Buffered ==
  /\ rowId # 0 => rows[rowId].ops \subseteq payload
  /\ Stage = "created" /\ op.kind \in Prose => payload = {sent}

TextInv == Inv /\ Solo /\ Buffered

\* Without progress payloads, nothing patches a call but the stream and finish().
NoProgress ==
  /\ op.kind # "progress"
  /\ toolDirty = <<>> /\ ~toolTimer /\ \A a \in Actor : ids[a] = <<>>
  /\ \A t \in Ticker : pc[t] = "idle"

\* A call that is pending although its row is settled: pendingTools.delete comes next
Settled(c) ==
  \/ Stage = "completed" /\ op.tool = c
  \/ pc["end"] = "settled" /\ target["end"] = c

\* pendingTools is a map: a call is in it once.
Once == \A i, j \in 1 .. Len(pendingTools) : pendingTools[i] = pendingTools[j] => i = j

Calls ==
  /\ Once
  /\ Stage = "created" /\ op.kind = "start" =>
       /\ rows[Len(rows)].tool = op.tool /\ rows[Len(rows)].status = "running"
       /\ ~Pending(op.tool)
  /\ \A c \in Tool : Pending(c) =>
       /\ rows[toolRow[c]].tool = c
       /\ \/ rows[toolRow[c]].status = "running" /\ rows[toolRow[c]].ops \subseteq toolOps[c]
          \/ Settled(c)
  /\ \A r \in Places : rows[r].status = "running" =>
       \/ \E c \in Tool : Pending(c) /\ toolRow[c] = r /\ ~Settled(c)
       \/ Stage = "created" /\ op.kind = "start" /\ r = Len(rows)

Finishing ==
  /\ disposed => pc["end"] = "done"
  /\ pc["end"] \in {"settle", "settled", "done"} => rowId = 0
  /\ pc["end"] = "done" => pendingTools = <<>>

Shows ==
  /\ \A n \in 1 .. Written : Shown(n) \/ n \in payload
  /\ Stage = "flushed" \/ pc["end"] = "flushed" => rowId # 0 /\ payload \subseteq rows[rowId].ops

CallInv == TextInv /\ NoProgress /\ Calls

DoneInv == CallInv /\ Finishing /\ Shows

-----------------------------------------------------------------------------
(* Sequences *)

LEMMA RemoveAtLemma ==
  ASSUME NEW S, NEW s \in Seq(S), NEW i \in 1 .. Len(s)
  PROVE  /\ RemoveAt(s, i) \in Seq(S)
         /\ Len(RemoveAt(s, i)) = Len(s) - 1
         /\ \A j \in 1 .. Len(s) - 1 :
              RemoveAt(s, i)[j] = IF j < i THEN s[j] ELSE s[j + 1]
<1> DEFINE front == SubSeq(s, 1, i - 1)
           back  == SubSeq(s, i + 1, Len(s))
<1>1. Len(s) \in Nat /\ i \in Nat \ {0} /\ \A j \in 1 .. Len(s) : s[j] \in S
  BY LenProperties, ElementOfSeq
<1>2. /\ front \in Seq(S) /\ Len(front) = i - 1
      /\ \A j \in 1 .. i - 1 : front[j] = s[j]
  BY <1>1, SubSeqProperties
<1>3. /\ back \in Seq(S) /\ Len(back) = Len(s) - i
      /\ \A j \in 1 .. Len(s) - i : back[j] = s[i + j]
  <2>1. i + 1 \in Int /\ Len(s) \in Int /\ \A j \in i + 1 .. Len(s) : s[j] \in S
    BY <1>1
  <2>2. /\ back \in Seq(S)
        /\ Len(back) = IF i + 1 <= Len(s) THEN Len(s) - (i + 1) + 1 ELSE 0
        /\ \A j \in 1 .. Len(s) - (i + 1) + 1 : back[j] = s[(i + 1) + j - 1]
    BY <2>1, SubSeqProperties
  <2> HIDE DEF back
  <2> QED
    BY <1>1, <2>2
<1> HIDE DEF front, back
<1>4. /\ front \o back \in Seq(S)
      /\ Len(front \o back) = Len(front) + Len(back)
      /\ \A j \in 1 .. Len(front) + Len(back) :
           (front \o back)[j] = IF j <= Len(front) THEN front[j] ELSE back[j - Len(front)]
  BY <1>2, <1>3, ConcatProperties
<1>5. RemoveAt(s, i) = front \o back
  BY DEF RemoveAt, front, back
<1>6. Len(front) + Len(back) = Len(s) - 1
  BY <1>1, <1>2, <1>3
<1>7. ASSUME NEW j \in 1 .. Len(s) - 1
      PROVE  (front \o back)[j] = IF j < i THEN s[j] ELSE s[j + 1]
  <2>1. CASE j < i
    BY <1>1, <1>2, <1>4, <1>6, <2>1
  <2>2. CASE ~(j < i)
    <3>1. j - (i - 1) \in 1 .. Len(s) - i /\ i + (j - (i - 1)) = j + 1 /\ ~(j <= i - 1)
      BY <1>1, <2>2
    <3>2. (front \o back)[j] = back[j - (i - 1)]
      BY <1>2, <1>4, <1>6, <3>1
    <3>3. back[j - (i - 1)] = s[j + 1]
      BY <1>3, <3>1
    <3> QED
      BY <2>2, <3>2, <3>3
  <2> QED
    BY <2>1, <2>2
<1> QED
  BY <1>4, <1>5, <1>6, <1>7

\* Map.delete takes the call out of the pending ones, and leaves the others.
LEMMA DeleteLemma ==
  ASSUME pendingTools \in Seq(Tool), NEW c, Delete(c)
  PROVE  /\ pendingTools' \in Seq(Tool)
         /\ \A d : Pending(d)' => Pending(d)
         /\ \A d : Pending(d) /\ d # c => Pending(d)'
         /\ Once => Once' /\ ~Pending(c)'
<1>1. CASE ~Pending(c)
  BY <1>1 DEF Delete, Pending, Once
<1>2. CASE Pending(c)
  <2>1. PICK i \in 1 .. Len(pendingTools) :
          pendingTools[i] = c /\ pendingTools' = RemoveAt(pendingTools, i)
    BY <1>2 DEF Delete
  <2>2. /\ pendingTools' \in Seq(Tool) /\ Len(pendingTools') = Len(pendingTools) - 1
        /\ \A j \in 1 .. Len(pendingTools) - 1 :
             pendingTools'[j] = IF j < i THEN pendingTools[j] ELSE pendingTools[j + 1]
    BY <2>1, RemoveAtLemma
  <2>3. ASSUME NEW d, Pending(d)' PROVE Pending(d)
    <3>1. PICK j \in 1 .. Len(pendingTools') : pendingTools'[j] = d
      BY <2>2, <2>3 DEF Pending, Range
    <3>2. j \in 1 .. Len(pendingTools) /\ j + 1 \in 1 .. Len(pendingTools)
      BY <2>2, <3>1
    <3>3. pendingTools[j] = d \/ pendingTools[j + 1] = d
      BY <2>2, <3>1
    <3> QED
      BY <3>2, <3>3 DEF Pending, Range
  <2>4. ASSUME NEW d, Pending(d), d # c PROVE Pending(d)'
    <3>1. PICK j \in 1 .. Len(pendingTools) : pendingTools[j] = d
      BY <2>4 DEF Pending, Range
    <3>2. CASE j < i
      <4>1. j \in 1 .. Len(pendingTools') /\ pendingTools'[j] = d
        BY <2>1, <2>2, <3>1, <3>2
      <4> QED
        BY <2>2, <4>1 DEF Pending, Range
    <3>3. CASE i < j
      <4>1. j - 1 \in 1 .. Len(pendingTools') /\ pendingTools'[j - 1] = d
        BY <2>1, <2>2, <3>1, <3>3
      <4> QED
        BY <2>2, <4>1 DEF Pending, Range
    <3> QED
      BY <2>1, <2>4, <3>1, <3>2, <3>3
  <2>5. ASSUME Once PROVE Once' /\ ~Pending(c)'
    <3>1. ASSUME NEW j \in 1 .. Len(pendingTools')
          PROVE  \E k \in 1 .. Len(pendingTools) :
                   /\ pendingTools'[j] = pendingTools[k] /\ k # i
                   /\ k = IF j < i THEN j ELSE j + 1
      BY <2>1, <2>2
    <3>2. ASSUME NEW j \in 1 .. Len(pendingTools'), NEW k \in 1 .. Len(pendingTools'),
                 pendingTools'[j] = pendingTools'[k]
          PROVE  j = k
      <4>1. PICK m \in 1 .. Len(pendingTools) :
              /\ pendingTools'[j] = pendingTools[m]
              /\ m = IF j < i THEN j ELSE j + 1
        BY <3>1
      <4>2. PICK n \in 1 .. Len(pendingTools) :
              /\ pendingTools'[k] = pendingTools[n]
              /\ n = IF k < i THEN k ELSE k + 1
        BY <3>1
      <4>3. m = n
        BY <2>5, <3>2, <4>1, <4>2 DEF Once
      <4> QED
        BY <2>1, <2>2, <4>1, <4>2, <4>3
    <3>3. \A j \in 1 .. Len(pendingTools') : pendingTools'[j] # c
      BY <2>1, <2>5, <3>1 DEF Once
    <3> QED
      BY <3>2, <3>3 DEF Once, Pending, Range
  <2> QED
    BY <2>2, <2>3, <2>4, <2>5
<1> QED
  BY <1>1, <1>2

\* The pending calls after a call was added
LEMMA AddLemma ==
  ASSUME pendingTools \in Seq(Tool), NEW c \in Tool, pendingTools' = Append(pendingTools, c)
  PROVE  /\ pendingTools' \in Seq(Tool)
         /\ \A d : Pending(d)' <=> Pending(d) \/ d = c
         /\ Once /\ ~Pending(c) => Once'
<1>1. /\ pendingTools' \in Seq(Tool) /\ Len(pendingTools') = Len(pendingTools) + 1
      /\ \A j \in 1 .. Len(pendingTools) : pendingTools'[j] = pendingTools[j]
      /\ pendingTools'[Len(pendingTools) + 1] = c /\ Len(pendingTools) \in Nat
  BY AppendProperties, LenProperties
<1>2. ASSUME NEW d PROVE Pending(d)' <=> Pending(d) \/ d = c
  <2>1. Pending(d) <=> \E j \in 1 .. Len(pendingTools) : pendingTools[j] = d
    BY DEF Pending, Range
  <2>2. Pending(d)' <=> \E j \in 1 .. Len(pendingTools') : pendingTools'[j] = d
    BY <1>1 DEF Pending, Range
  <2>3. (\E j \in 1 .. Len(pendingTools') : pendingTools'[j] = d)
          <=> (\E j \in 1 .. Len(pendingTools) : pendingTools[j] = d) \/ d = c
    BY <1>1
  <2> QED
    BY <2>1, <2>2, <2>3
<1>3. Once /\ ~Pending(c) => Once'
  BY <1>1 DEF Once, Pending, Range
<1> QED
  BY <1>1, <1>2, <1>3

\* patchRow
Patched(r, shown, status) == [rows EXCEPT ![r].ops = shown, ![r].status = status]

LEMMA PatchedLemma ==
  ASSUME rows \in Seq(Row), NEW r \in 1 .. Len(rows), NEW shown \in SUBSET (1 .. MaxOps),
         NEW status \in {"text", "line", "counter", "running", "completed", "cancelled"}
  PROVE  /\ Patched(r, shown, status) \in Seq(Row)
         /\ Len(Patched(r, shown, status)) = Len(rows)
         /\ \A q \in 1 .. Len(rows) : q # r => Patched(r, shown, status)[q] = rows[q]
         /\ Patched(r, shown, status)[r] = [ops |-> shown, tool |-> rows[r].tool, status |-> status]
<1> DEFINE new == [ops |-> shown, tool |-> rows[r].tool, status |-> status]
<1>1. rows[r] \in Row /\ DOMAIN rows = 1 .. Len(rows) /\ Len(rows) \in Nat
  BY ElementOfSeq, LenProperties
<1>2. new \in Row
  BY <1>1 DEF Row
<1>3. [[rows[r] EXCEPT !.ops = shown] EXCEPT !.status = status] = new
  <2> DEFINE mid == [ops |-> shown, tool |-> rows[r].tool, status |-> rows[r].status]
  <2>1. [rows[r] EXCEPT !.ops = shown] = mid
    BY <1>1 DEF Row
  <2>2. [mid EXCEPT !.status = status] = new
    OBVIOUS
  <2> QED
    BY <2>1, <2>2
<1>4. Patched(r, shown, status) = [rows EXCEPT ![r] = new]
  <2> DEFINE half == [rows EXCEPT ![r] = [rows[r] EXCEPT !.ops = shown]]
  <2>1. half[r] = [rows[r] EXCEPT !.ops = shown] /\ DOMAIN half = DOMAIN rows
    BY <1>1
  <2>2. Patched(r, shown, status) = [half EXCEPT ![r] = [half[r] EXCEPT !.status = status]]
    BY DEF Patched
  <2>3. [half EXCEPT ![r] = [half[r] EXCEPT !.status = status]] = [half EXCEPT ![r] = new]
    BY <1>3, <2>1
  <2> QED
    BY <2>2, <2>3
<1> HIDE DEF new
<1>5. /\ [rows EXCEPT ![r] = new] \in Seq(Row)
      /\ Len([rows EXCEPT ![r] = new]) = Len(rows)
      /\ \A q \in 1 .. Len(rows) : [rows EXCEPT ![r] = new][q] = IF q = r THEN new ELSE rows[q]
  BY <1>2, ExceptSeq
<1> QED
  BY <1>4, <1>5 DEF new

-----------------------------------------------------------------------------
(* The order, whatever a step does with it *)

\* What a patch of the rows may write while no op is: what is in memory.
Rewritten ==
  /\ Len(rows') = Len(rows)
  /\ \A r \in Places :
       \/ rows'[r] = rows[r]
       \/ r = rowId /\ rows'[r].ops = payload /\ rows'[r].status = "text"
       \/ \E c \in Tool :
            /\ Pending(c) /\ r = toolRow[c] /\ rows'[r].ops = toolOps[c]
            /\ rows'[r].status \in {"running", "completed", "cancelled"}

Forget == counterRow' \in {0, counterRow} /\ \A c \in Tool : Pending(c)' => Pending(c)

\* A patch of the rows that also writes the op that is applied
OpWritten ==
  /\ Len(rows') = Len(rows)
  /\ \A r \in Places :
       \/ rows'[r] = rows[r]
       \/ \E c \in Tool :
            /\ Pending(c) /\ r = toolRow[c] /\ rows'[r].ops \subseteq toolOps[c] \cup {sent}
            /\ rows'[r].status \in {"running", "completed"}
       \/ r = counterRow /\ rows'[r].ops \subseteq rows[r].ops \cup {sent} /\ rows'[r].status = "counter"

\* What a step does with the text: it leaves it alone, applies another op, or makes
\* a row; it closes the text, adds to it, or opens it.
TextMoved ==
  \/ /\ UNCHANGED <<rowId, payload>> /\ Rewritten
     /\ (Stage' = Stage /\ UNCHANGED <<sent, op>>) \/ Stage' # "created"
  \/ rowId = 0 /\ UNCHANGED <<rowId, payload>> /\ OpWritten /\ Stage' # "created"
  \/ /\ rowId = 0 /\ rowId' = 0 /\ \E row : rows' = Append(rows, row)
     /\ Stage' = "created" /\ op'.kind \in Prose => payload' = {sent'}
  \/ rowId' = 0 /\ payload' = {} /\ UNCHANGED rows /\ (Stage' = Stage \/ Stage' # "created")
  \/ rowId # 0 /\ payload \subseteq payload' /\ UNCHANGED <<rowId, rows>> /\ Stage' # "created"
  \/ /\ UNCHANGED <<rows, payload>> /\ Stage = "created" /\ Stage' = "idle"
     /\ rowId' = IF op.kind \in Prose THEN Len(rows) ELSE 0

\* A step that leaves the memory alone, but for what it forgets of it
LEMMA SameMemory ==
  ASSUME Inv, Rewritten, Forget, UNCHANGED <<rowId, payload, toolRow, toolOps>>,
         Applying', Written' = Written,
         \/ UNCHANGED <<sent, op>> /\ Stage' = Stage
         \/ Stage # "created" /\ Stage' # "created"
  PROVE  OrderInv' /\ TextMoved
<1> USE DEF Inv, OrderInv
<1>1. /\ rowId \in 0 .. Len(rows) /\ counterRow \in 0 .. Len(rows) /\ Len(rows) \in Nat
      /\ \A c \in Tool : toolRow[c] \in 0 .. Len(rows)
      /\ Len(rows') = Len(rows)
  BY DEF TypeOK, Rewritten
<1>2. ASSUME NEW r \in Places
      PROVE  /\ rows'[r].status = "text" <=> rows[r].status = "text"
             /\ rows'[r].status = "counter" <=> rows[r].status = "counter"
  BY <1>1 DEF Rewritten, Pointers, Places
<1>3. Numbered'
  BY <1>1 DEF Rewritten, Numbered, Places
<1>4. ASSUME NEW r \in Places, rows[r].status = "text", r # rowId
      PROVE  rows'[r] = rows[r]
  BY <1>1, <1>2, <1>4 DEF Rewritten, Pointers
<1>5. Pointers'
  <2>1. rowId = 0 => payload = {} \/ (Stage' = "created" /\ op'.kind \in Prose /\ payload = {sent'})
    BY DEF Pointers
  <2>2. \A c \in Tool : toolRow[c] # 0 =>
          toolRow[c] \in Places /\ rows'[toolRow[c]].status \notin {"text", "counter"}
    BY <1>1, <1>2 DEF Pointers, Places
  <2>3. rowId # 0 => rowId = Len(rows) /\ rows'[rowId].status = "text"
    BY <1>1, <1>2 DEF Pointers, Places
  <2>4. counterRow' # 0 => rows'[counterRow'].status = "counter"
    BY <1>1, <1>2 DEF Pointers, Places, Forget
  <2> QED
    BY <1>1, <2>1, <2>2, <2>3, <2>4 DEF Pointers, Forget
<1>6. InOrder'
  <2>1. ASSUME NEW r \in Places, r < rowId, rows'[r].status = "text",
               NEW m \in rows'[r].ops, NEW n \in payload
        PROVE  m < n
    BY <1>1, <1>2, <1>4, <2>1 DEF InOrder
  <2>2. ASSUME NEW c \in Tool, NEW r \in Places, r < toolRow[c], rows'[r].status = "text",
               NEW m \in rows'[r].ops, NEW n \in toolOps[c]
        PROVE  m < n
    <3>1. rows[r].status = "text" /\ r # rowId
      BY <1>1, <1>2, <2>2 DEF Pointers, Places
    <3> QED
      BY <1>4, <2>2, <3>1 DEF InOrder
  <2> QED
    BY <1>1, <2>1, <2>2 DEF InOrder, Places
<1>7. TranscriptOrder'
  <2>1. ASSUME NEW r \in Places, NEW q \in Places, r < q, rows'[r].status = "text",
               NEW m \in rows'[r].ops, NEW n \in rows'[q].ops
        PROVE  m < n
    <3>1. rows[r].status = "text" /\ r # rowId /\ rows'[r] = rows[r]
      BY <1>1, <1>2, <1>4, <2>1 DEF Pointers, Places
    <3>2. CASE rows'[q] = rows[q]
      BY <2>1, <3>1, <3>2 DEF TranscriptOrder, Places
    <3>3. CASE q = rowId /\ rows'[q].ops = payload
      BY <2>1, <3>1, <3>3 DEF InOrder
    <3>4. CASE \E c \in Tool : q = toolRow[c] /\ rows'[q].ops = toolOps[c]
      BY <2>1, <3>1, <3>4 DEF InOrder
    <3> QED
      BY <3>2, <3>3, <3>4 DEF Rewritten
  <2> QED
    BY <1>1, <2>1 DEF TranscriptOrder, Places
<1>8. NewRow'
  <2>1. CASE Stage' # "created"
    BY <2>1 DEF NewRow
  <2>2. CASE Stage' = "created"
    <3>1. UNCHANGED <<sent, op>> /\ Stage = "created"
      BY <2>2
    <3>2. rowId = 0 /\ rows # <<>>
      BY <3>1 DEF Applying, NewRow
    <3>3. Len(rows) \in Places /\ rows'[Len(rows)] = rows[Len(rows)] /\ rows' # <<>>
      BY <1>1, <3>1, <3>2 DEF Rewritten, NewRow, Places, TypeOK
    <3>4. ASSUME NEW r \in Places, r < Len(rows) PROVE sent \notin rows'[r].ops
      BY <1>1, <3>1, <3>2, <3>4 DEF Rewritten, NewRow, Places
    <3> QED
      BY <1>1, <3>1, <3>3, <3>4 DEF NewRow, Forget, Places
  <2> QED
    BY <2>1, <2>2
<1>9. TextMoved
  BY DEF TextMoved
<1> QED
  BY <1>3, <1>5, <1>6, <1>7, <1>8, <1>9

LEMMA OpIsWritten ==
  ASSUME Inv, OpWritten, UNCHANGED <<sent, op, rowId, payload, toolRow, counterRow, pendingTools>>,
         Stage \in {"body", "result"}, Stage' \in {"idle", "completed"},
         \A c \in Tool : toolOps'[c] \subseteq toolOps[c] \cup {sent}
  PROVE  OrderInv' /\ TextMoved
<1> USE DEF Inv, OrderInv
<1>1. /\ rowId = 0 /\ counterRow \in 0 .. Len(rows) /\ Len(rows) \in Nat
      /\ \A c \in Tool : toolRow[c] \in 0 .. Len(rows)
      /\ Len(rows') = Len(rows) /\ sent \in Nat \ {0}
      /\ payload = {} /\ Written = sent - 1 /\ Written' = sent
  BY DEF TypeOK, OpWritten, Applying, Pointers, Written
<1>2. ASSUME NEW r \in Places
      PROVE  /\ rows'[r].status = "text" <=> rows[r].status = "text"
             /\ rows'[r].status = "counter" <=> rows[r].status = "counter"
             /\ rows[r].status = "text" => rows'[r] = rows[r]
  BY <1>1 DEF OpWritten, Pointers, Places
<1>3. Applying'
  BY <1>1 DEF Applying, StreamPc
<1>4. Numbered'
  <2>1. \A c \in Tool : toolOps'[c] \subseteq 1 .. sent
    BY <1>1 DEF Numbered
  <2>2. \A r \in Places : rows'[r].ops \subseteq 1 .. sent
    BY <1>1 DEF Numbered, OpWritten
  <2> QED
    BY <1>1, <2>1, <2>2 DEF Numbered, Places
<1>5. NewRow'
  BY DEF NewRow
<1>6. Pointers'
  <2>1. \A c \in Tool : toolRow[c] # 0 =>
          toolRow[c] \in Places /\ rows'[toolRow[c]].status \notin {"text", "counter"}
    BY <1>1, <1>2 DEF Pointers, Places
  <2>2. counterRow # 0 => rows'[counterRow].status = "counter"
    BY <1>1, <1>2 DEF Pointers, Places
  <2>3. \A c : Pending(c)' <=> Pending(c)
    BY DEF Pending
  <2> QED
    BY <1>1, <2>1, <2>2, <2>3 DEF Pointers
<1>7. ASSUME NEW r \in Places, rows'[r].status = "text", NEW m \in rows'[r].ops
      PROVE  /\ rows[r].status = "text" /\ m \in rows[r].ops /\ m < sent
             /\ \A c \in Tool : r < toolRow[c] => \A n \in toolOps[c] : m < n
             /\ \A q \in Places : r < q => \A n \in rows[q].ops : m < n
  <2>1. rows[r].status = "text" /\ m \in rows[r].ops
    BY <1>2, <1>7
  <2>2. m \in 1 .. sent - 1
    BY <1>1, <2>1 DEF Numbered
  <2> QED
    BY <1>1, <2>1, <2>2 DEF InOrder, TranscriptOrder, Places
<1>8. InOrder'
  <2>1. \A c \in Tool, r \in Places : r < toolRow[c] /\ rows'[r].status = "text" =>
          \A m \in rows'[r].ops, n \in toolOps'[c] : m < n
    BY <1>7
  <2> QED
    BY <1>1, <2>1 DEF InOrder, Places
<1>9. TranscriptOrder'
  <2>1. \A r \in Places, q \in Places : r < q /\ rows'[r].status = "text" =>
          \A m \in rows'[r].ops, n \in rows'[q].ops : m < n
    BY <1>7 DEF OpWritten
  <2> QED
    BY <1>1, <2>1 DEF TranscriptOrder, Places
<1>10. TextMoved
  BY <1>1 DEF TextMoved
<1> QED
  BY <1>3, <1>4, <1>5, <1>6, <1>8, <1>9, <1>10

\* A row is created for the op that is applied.
LEMMA RowAdded ==
  ASSUME Inv, NEW row \in Row, rows' = Append(rows, row), row.ops = {sent'}, sent' = Written + 1,
         Applying', Stage # "created", Stage' \in {"created", "completed"}, rowId = 0,
         UNCHANGED <<rowId, toolRow, toolOps, pendingTools>>, counterRow' \in {0, counterRow},
         payload' = (IF row.status = "text" THEN {sent'} ELSE {}),
         row.status = "text" => Stage' = "created",
         Stage' = "created" => /\ row.status = "text" <=> op'.kind \in Prose
                               /\ row.status = "counter" <=> op'.kind = "counter"
  PROVE  OrderInv' /\ TextMoved
<1> USE DEF Inv, OrderInv
<1>1. /\ Len(rows) \in Nat /\ Len(rows') = Len(rows) + 1
      /\ rows'[Len(rows) + 1] = row /\ \A r \in Places : rows'[r] = rows[r]
      /\ counterRow \in 0 .. Len(rows) /\ \A c \in Tool : toolRow[c] \in 0 .. Len(rows)
      /\ rows' # <<>>
  <2>1. rows \in Seq(Row) /\ counterRow \in 0 .. Len(rows) /\ \A c \in Tool : toolRow[c] \in 0 .. Len(rows)
    BY DEF TypeOK
  <2>2. /\ rows' \in Seq(Row) /\ Len(rows') = Len(rows) + 1 /\ Len(rows) \in Nat
        /\ \A i \in 1 .. Len(rows) : rows'[i] = rows[i]
        /\ rows'[Len(rows) + 1] = row
    BY ONLY <2>1, rows' = Append(rows, row), row \in Row, AppendProperties, LenProperties
  <2>3. rows' # <<>>
    BY <2>2
  <2> QED
    BY <2>1, <2>2, <2>3 DEF Places
<1>2. Written \in Nat /\ Written' = sent' /\ sent' \in Nat \ {0}
  <2>1. sent \in Nat /\ (Stage \in {"flushed", "body", "result"} => sent > 0)
    BY MaxOpsAssumption DEF TypeOK, Applying
  <2> QED
    BY <2>1 DEF Written
<1>3. \A r \in 1 .. Len(rows) + 1 : r \in Places \/ r = Len(rows) + 1
  BY <1>1 DEF Places
<1>4. Numbered'
  <2>1. payload' \subseteq 1 .. sent' /\ \A c \in Tool : toolOps[c] \subseteq 1 .. sent'
    BY <1>2 DEF Numbered
  <2>2. \A r \in Places : rows[r].ops \subseteq 1 .. sent'
    BY <1>2 DEF Numbered
  <2> QED
    BY <1>1, <1>2, <1>3, <2>1, <2>2 DEF Numbered, Places
<1>5. NewRow'
  <2>1. \A c \in Tool : toolRow[c] # Len(rows) + 1 /\ sent' \notin toolOps[c]
    BY <1>1, <1>2 DEF Numbered
  <2>2. \A r \in Places : sent' \notin rows[r].ops
    BY <1>2 DEF Numbered
  <2>3. counterRow' # Len(rows) + 1
    BY <1>1
  <2>4. \A r \in 1 .. Len(rows) + 1 : r < Len(rows) + 1 => sent' \notin rows'[r].ops
    BY <1>1, <1>3, <2>2
  <2>5. CASE Stage' = "created"
    BY <1>1, <2>1, <2>3, <2>4, <2>5 DEF NewRow, Places
  <2> QED
    BY <2>5 DEF NewRow
<1>6. Pointers'
  <2>1. \A c \in Tool : toolRow[c] # 0 =>
          toolRow[c] \in Places /\ rows'[toolRow[c]].status \notin {"text", "counter"}
    BY <1>1 DEF Pointers, Places
  <2>2. counterRow' # 0 => rows'[counterRow'].status = "counter"
    BY <1>1 DEF Pointers, Places
  <2>3. \A c : Pending(c)' <=> Pending(c)
    BY DEF Pending
  <2> QED
    BY <2>1, <2>2, <2>3 DEF Pointers
<1>7. ASSUME NEW r \in Places, rows[r].status = "text", NEW m \in rows[r].ops
      PROVE  /\ m < sent'
             /\ \A c \in Tool : r < toolRow[c] => \A n \in toolOps[c] : m < n
             /\ \A q \in Places : r < q => \A n \in rows[q].ops : m < n
  <2>1. m \in 1 .. Written
    BY <1>7 DEF Numbered
  <2> QED
    BY <1>2, <1>7, <2>1 DEF InOrder, TranscriptOrder, Places
<1>8. InOrder'
  <2>1. \A c \in Tool, r \in 1 .. Len(rows) + 1 : r < toolRow[c] /\ rows'[r].status = "text" =>
          \A m \in rows'[r].ops, n \in toolOps[c] : m < n
    BY <1>1, <1>3, <1>7
  <2> QED
    BY <1>1, <2>1 DEF InOrder, Places
<1>9. TranscriptOrder'
  <2>1. ASSUME NEW r \in 1 .. Len(rows) + 1, NEW q \in 1 .. Len(rows) + 1, r < q,
               rows'[r].status = "text", NEW m \in rows'[r].ops, NEW n \in rows'[q].ops
        PROVE  m < n
    <3>1. r \in Places /\ rows[r].status = "text" /\ m \in rows[r].ops
      BY <1>1, <1>3, <2>1
    <3>2. CASE q \in Places
      BY <1>1, <1>7, <2>1, <3>1, <3>2
    <3>3. CASE q = Len(rows) + 1
      BY <1>1, <1>7, <2>1, <3>1, <3>3
    <3> QED
      BY <1>3, <3>2, <3>3
  <2> QED
    BY <1>1, <2>1 DEF TranscriptOrder
<1>10. TextMoved
  BY DEF TextMoved
<1> QED
  BY <1>4, <1>5, <1>6, <1>8, <1>9, <1>10

LEMMA TextReset ==
  ASSUME Inv, rowId' = 0, payload' = {}, Applying', counterRow' \in {0, counterRow},
         UNCHANGED <<sent, rows, toolRow, toolOps, op, pendingTools>>,
         Stage' = Stage \/ (Stage = "flushed" /\ Stage' = "body")
  PROVE  OrderInv' /\ TextMoved
<1> USE DEF Inv, OrderInv
<1>1. Written' = Written /\ Places' = Places /\ \A c : Pending(c)' <=> Pending(c)
  BY DEF Written, Places, Pending
<1>2. Numbered'
  BY <1>1 DEF Numbered
<1>3. NewRow'
  BY <1>1 DEF NewRow, TypeOK
<1>4. Pointers'
  BY <1>1 DEF Pointers
<1>5. InOrder' /\ TranscriptOrder'
  BY <1>1 DEF InOrder, TranscriptOrder
<1>6. TextMoved
  BY DEF TextMoved
<1> QED
  BY <1>2, <1>3, <1>4, <1>5, <1>6

LEMMA TextAdded ==
  ASSUME Inv, rowId # 0, Stage = "idle", Stage' = "idle", Applying', sent' = sent + 1,
         payload' = payload \cup {sent + 1},
         UNCHANGED <<rowId, rows, toolRow, toolOps, counterRow, pendingTools>>
  PROVE  OrderInv' /\ TextMoved
<1> USE DEF Inv, OrderInv
<1>1. /\ Written = sent /\ Written' = sent + 1 /\ sent \in Nat
      /\ Places' = Places /\ \A c : Pending(c)' <=> Pending(c)
      /\ \A r \in Places : rows[r].ops \subseteq 1 .. sent
  BY MaxOpsAssumption DEF Written, Places, Pending, TypeOK, Numbered
<1>2. Numbered'
  <2>1. payload \subseteq 1 .. sent /\ \A c \in Tool : toolOps[c] \subseteq 1 .. sent
    BY <1>1 DEF Numbered
  <2>3. 1 .. sent \subseteq 1 .. sent + 1 /\ sent + 1 \in 1 .. sent + 1
    BY <1>1
  <2>4. payload' \subseteq 1 .. sent + 1 /\ \A c \in Tool : toolOps[c] \subseteq 1 .. sent + 1
    BY <2>1, <2>3, Zenon
  <2>2. \A r \in Places : rows[r].ops \subseteq 1 .. sent + 1
    BY <1>1
  <2> QED
    BY <1>1, <2>2, <2>4 DEF Numbered
<1>3. NewRow' /\ Pointers' /\ TranscriptOrder'
  BY <1>1 DEF NewRow, Pointers, TranscriptOrder
<1>4. InOrder'
  <2>1. ASSUME NEW r \in Places, r < rowId, rows[r].status = "text",
               NEW m \in rows[r].ops, NEW n \in payload \cup {sent + 1}
        PROVE  m < n
    BY <1>1, <2>1 DEF InOrder
  <2> QED
    BY <1>1, <2>1 DEF InOrder
<1>5. TextMoved
  BY DEF TextMoved
<1> QED
  BY <1>2, <1>3, <1>4, <1>5

\* The row that createRow answers for is the last one.
LEMMA CreatedId ==
  ASSUME Inv, Stage = "created"
  PROVE  /\ Len(rows) \in Places /\ op.n = sent /\ rowId = 0
         /\ NewId = Len(rows)
<1>1. op.n = sent /\ rowId = 0 /\ rows # <<>> /\ rows \in Seq(Row)
  BY DEF Inv, OrderInv, Applying, NewRow, TypeOK
<1>2. Len(rows) \in 1 .. Len(rows)
  BY <1>1
<1>3. \A r \in 1 .. Len(rows) : op.n \in rows[r].ops <=> r = Len(rows)
  BY <1>1, <1>2 DEF Inv, OrderInv, NewRow, Places
<1> QED
  BY <1>1, <1>2, <1>3 DEF Places, NewId

LEMMA CreatedOrder ==
  ASSUME Inv, Created
  PROVE  OrderInv' /\ TextMoved
<1> USE DEF Inv, OrderInv
<1> DEFINE id == Len(rows)
<1>1. /\ Stage = "created" /\ Stage' = "idle" /\ UNCHANGED <<sent, op, rows, payload>>
  BY DEF Created, Goto, TypeOK, Stage, Actor
<1>2. /\ id \in Places /\ op.n = sent /\ rowId = 0
      /\ rowId' = (IF op.kind \in Prose THEN id ELSE 0)
      /\ IF op.kind = "start"
         THEN /\ pendingTools' = Append(pendingTools, op.tool)
              /\ toolRow' = [toolRow EXCEPT ![op.tool] = id]
              /\ toolOps' = [toolOps EXCEPT ![op.tool] = {sent}]
         ELSE UNCHANGED <<pendingTools, toolRow, toolOps>>
      /\ counterRow' = IF op.kind = "counter" THEN id ELSE counterRow
  <2>1. id \in Places /\ op.n = sent /\ rowId = 0
        /\ NewId = id
    BY <1>1, CreatedId
  <2> HIDE DEF id
  <2> QED
    BY <2>1 DEF Created, Prose
<1>3. /\ Places' = Places /\ Written = sent /\ Written' = sent /\ sent \in Nat \ {0} /\ id \in Nat
      /\ \A c \in Tool : toolRow[c] \in 0 .. id
      /\ op.kind = "start" => op.tool \in Tool
  BY <1>1, MaxOpsAssumption DEF Places, Written, TypeOK, Applying
<1>4. /\ \A c \in Tool : toolRow'[c] = IF op.kind = "start" /\ c = op.tool THEN id ELSE toolRow[c]
      /\ \A c \in Tool : toolOps'[c] = IF op.kind = "start" /\ c = op.tool THEN {sent} ELSE toolOps[c]
      /\ \A c \in Tool : Pending(c)' => Pending(c) \/ (op.kind = "start" /\ c = op.tool)
  <2>1. CASE op.kind = "start"
    BY <1>2, <1>3, <2>1, AddLemma DEF TypeOK
  <2>2. CASE op.kind # "start"
    BY <1>2, <2>2 DEF Pending
  <2> QED
    BY <2>1, <2>2
<1>5. Applying'
  BY <1>1, <1>2 DEF Applying, StreamPc
<1>6. Numbered'
  BY <1>1, <1>3, <1>4 DEF Numbered
<1>7. /\ rows[id].ops = {sent}
      /\ rows[id].status = "text" <=> op.kind \in Prose
      /\ rows[id].status = "counter" <=> op.kind = "counter"
  BY <1>1 DEF NewRow
<1>8. NewRow'
  BY <1>1 DEF NewRow
<1>9. Pointers'
  <2>1. \A c \in Tool : toolRow'[c] # 0 => rows[toolRow'[c]].status \notin {"text", "counter"}
    BY <1>4, <1>7 DEF Pointers, Prose
  <2>2. \A c \in Tool : Pending(c)' => toolRow'[c] # 0
    BY <1>2, <1>3, <1>4 DEF Pointers, Places
  <2>3. rowId' # 0 => rowId' = id /\ rows[rowId'].status = "text"
    BY <1>2, <1>7
  <2>4. rowId' = 0 => payload = {}
    BY <1>2, <1>3 DEF Pointers, Places
  <2>5. counterRow' # 0 => rows[counterRow'].status = "counter"
    BY <1>2, <1>7 DEF Pointers
  <2> QED
    BY <1>1, <2>1, <2>2, <2>3, <2>4, <2>5 DEF Pointers
<1>10. \A r \in Places : r < id => \A m \in rows[r].ops : m < sent
  BY <1>1, <1>3 DEF NewRow, Numbered
<1>11. InOrder'
  <2>1. ASSUME NEW r \in Places, r < rowId', NEW m \in rows[r].ops, NEW n \in payload,
               rows[r].status = "text"
        PROVE  m < n
    BY <1>1, <1>2, <1>10, <2>1 DEF Pointers
  <2>2. ASSUME NEW c \in Tool, NEW r \in Places, r < toolRow'[c], rows[r].status = "text",
               NEW m \in rows[r].ops, NEW n \in toolOps'[c]
        PROVE  m < n
    BY <1>4, <1>10, <2>2 DEF InOrder
  <2> QED
    BY <1>1, <1>3, <2>1, <2>2 DEF InOrder
<1>12. TextMoved
  BY <1>1, <1>2 DEF TextMoved
<1> QED
  BY <1>1, <1>5, <1>6, <1>8, <1>9, <1>11, <1>12 DEF TranscriptOrder

-----------------------------------------------------------------------------
(* What the helpers of the class do to the order *)

LEMMA SameRows ==
  ASSUME UNCHANGED rows
  PROVE  Rewritten
BY DEF Rewritten

LEMMA PatchText ==
  ASSUME Inv, rowId # 0, rows' = Patched(rowId, payload, "text")
  PROVE  Rewritten /\ rows' \in Seq(Row)
<1>1. /\ rows \in Seq(Row) /\ rowId \in 1 .. Len(rows) /\ payload \in SUBSET (1 .. MaxOps)
  BY DEF Inv, TypeOK
<1>2. /\ rows' \in Seq(Row) /\ Len(rows') = Len(rows)
      /\ \A q \in 1 .. Len(rows) : q # rowId => rows'[q] = rows[q]
      /\ rows'[rowId] = [ops |-> payload, tool |-> rows[rowId].tool, status |-> "text"]
  BY <1>1, PatchedLemma
<1> QED
  BY <1>2 DEF Rewritten, Places

LEMMA PatchCall ==
  ASSUME Inv, NEW c \in Tool, Pending(c), NEW status \in {"running", "completed", "cancelled"},
         rows' = Patched(toolRow[c], toolOps[c], status)
  PROVE  Rewritten /\ rows' \in Seq(Row)
<1>1. /\ rows \in Seq(Row) /\ toolRow[c] \in 1 .. Len(rows) /\ toolOps[c] \in SUBSET (1 .. MaxOps)
  <2>1. toolRow[c] \in 0 .. Len(rows) /\ toolRow[c] # 0
    BY DEF Inv, TypeOK, OrderInv, Pointers
  <2> QED
    BY <2>1 DEF Inv, TypeOK
<1>2. /\ rows' \in Seq(Row) /\ Len(rows') = Len(rows)
      /\ \A q \in 1 .. Len(rows) : q # toolRow[c] => rows'[q] = rows[q]
      /\ rows'[toolRow[c]] = [ops |-> toolOps[c], tool |-> rows[toolRow[c]].tool, status |-> status]
  <2>1. CASE status = "running"
    BY <1>1, <2>1, PatchedLemma, ZenonT(60)
  <2>2. CASE status = "completed"
    BY <1>1, <2>2, PatchedLemma, ZenonT(60)
  <2>3. CASE status = "cancelled"
    BY <1>1, <2>3, PatchedLemma, ZenonT(60)
  <2> QED
    BY <2>1, <2>2, <2>3
<1>3. rows'[toolRow[c]].ops = toolOps[c] /\ rows'[toolRow[c]].status = status
  BY <1>2
<1> QED
  BY <1>2, <1>3 DEF Rewritten, Places

LEMMA FlushTextLemma ==
  ASSUME Inv, rowId # 0, NEW a, FlushText(a)
  PROVE  /\ Rewritten /\ rows' \in Seq(Row) /\ UNCHANGED <<rowId, payload, bufferKind>>
         /\ timer' = FALSE /\ dirty' = FALSE /\ waiting' = Append(waiting, a)
BY PatchText DEF FlushText, Patch, Patched

LEMMA PatchProgressLemma ==
  ASSUME Inv, NEW a \in Actor, PatchProgress(a)
  PROVE  /\ Rewritten /\ rows' \in Seq(Row) /\ waiting' = Append(waiting, a)
         /\ ids' \in [Actor -> Seq(Tool)]
<1>1. PICK i \in ProgressLeft(a) :
        /\ ids' = [ids EXCEPT ![a] = SubSeq(ids[a], i + 1, Len(ids[a]))]
        /\ Patch(a, toolRow[ids[a][i]], toolOps[ids[a][i]], "running")
  BY DEF PatchProgress
<1>2. ids \in [Actor -> Seq(Tool)] /\ ids[a] \in Seq(Tool)
  BY DEF Inv, TypeOK
<1>3. i \in 1 .. Len(ids[a]) /\ Pending(ids[a][i]) /\ ids[a][i] \in Tool
  BY <1>1, <1>2, ElementOfSeq DEF ProgressLeft
<1>4. rows' = Patched(toolRow[ids[a][i]], toolOps[ids[a][i]], "running")
  BY <1>1 DEF Patch, Patched
<1>5. Rewritten /\ rows' \in Seq(Row)
  BY <1>3, <1>4, PatchCall
<1>6. SubSeq(ids[a], i + 1, Len(ids[a])) \in Seq(Tool)
  <2>1. Len(ids[a]) \in Nat /\ \A j \in 1 .. Len(ids[a]) : ids[a][j] \in Tool
    BY <1>2, LenProperties, ElementOfSeq
  <2>2. i + 1 \in Int /\ Len(ids[a]) \in Int /\ \A j \in i + 1 .. Len(ids[a]) : ids[a][j] \in Tool
    BY <1>3, <2>1
  <2> QED
    BY <2>2, SubSeqProperties
<1> QED
  BY <1>1, <1>2, <1>5, <1>6 DEF Patch

\* A step of an actor other than the stream
LEMMA OtherActor ==
  ASSUME Inv, Rewritten, Forget, UNCHANGED <<sent, op, rowId, payload, toolRow, toolOps>>,
         Stage' = Stage
  PROVE  OrderInv' /\ TextMoved
<1>1. Written' = Written /\ Applying'
  BY DEF Inv, OrderInv, Written, Applying
<1> QED
  BY <1>1, SameMemory

\* A flush of the tool timer is neither the stream nor a finish().
LEMMA TickerActor ==
  \A t \in Ticker : t \in Actor /\ t # "stream" /\ t \notin Finisher
BY TickerAssumption DEF Actor, Finisher

LEMMA OtherPc ==
  ASSUME Inv, NEW a \in Actor, NEW label, Goto(a, label)
  PROVE  /\ a # "stream" => Stage' = Stage
         /\ a = "stream" => Stage' = label
BY DEF Inv, TypeOK, Goto, Stage, Actor

-----------------------------------------------------------------------------
(* The order is kept by every step: the stream, *)

LEMMA DeliveredOrder ==
  ASSUME Inv, AssistantText \/ MoreThinking
  PROVE  OrderInv' /\ TextMoved
<1> USE DEF Inv, OrderInv
<1>1. /\ Stage = "idle" /\ sent \in 0 .. MaxOps /\ sent < MaxOps /\ sent' = sent + 1
      /\ op'.n = sent + 1 /\ op'.kind \in Prose /\ op'.tool = NoTool
  BY DEF AssistantText, MoreThinking, Delivered, Stage, TypeOK, Prose
<1>2. CASE rowId # 0
  <2>1. /\ payload' = payload \cup {sent + 1} /\ Stage' = "idle"
        /\ UNCHANGED <<rowId, rows, toolRow, toolOps, counterRow, pendingTools>>
    BY <1>1, <1>2 DEF AssistantText, MoreThinking, tools, Stage
  <2>2. Applying'
    BY <1>1, <2>1 DEF Applying, StreamPc, Prose
  <2> QED
    BY <1>1, <1>2, <2>1, <2>2, TextAdded
<1>3. CASE rowId = 0
  <2> DEFINE row == [ops |-> {sent + 1}, tool |-> NoTool, status |-> "text"]
  <2>1. /\ payload' = {sent + 1} /\ counterRow' = 0 /\ Stage' = "created" /\ rows' = Append(rows, row)
        /\ UNCHANGED <<rowId, toolRow, toolOps, pendingTools>>
    BY <1>3 DEF AssistantText, MoreThinking, tools, Goto, Stage, TypeOK, Actor, Create
  <2>2. row \in Row /\ row.ops = {sent'} /\ row.status = "text"
    BY <1>1, MaxOpsAssumption DEF Row
  <2>3. Applying' /\ Written = sent
    BY <1>1, <1>3, <2>1, MaxOpsAssumption DEF Applying, StreamPc, Prose, Written
  <2>4. op'.kind # "counter"
    BY <1>1 DEF Prose
  <2> HIDE DEF row, Inv
  <2> QED
    BY <1>1, <1>3, <2>1, <2>2, <2>3, <2>4, RowAdded
<1> QED
  BY <1>2, <1>3

LEMMA OtherOpOrder ==
  ASSUME Inv, NEW kind \in Kind, NEW c \in Tool \cup {NoTool}, OtherOp(kind, c),
         kind \in {"start", "result", "progress"} => c \in Tool,
         UNCHANGED <<tools, counterRow>>
  PROVE  OrderInv' /\ TextMoved
<1> USE DEF Inv, OrderInv
<1>1. /\ Stage = "idle" /\ sent \in 0 .. MaxOps /\ sent < MaxOps /\ sent' = sent + 1
      /\ op'.n = sent + 1 /\ op'.kind = kind /\ op'.tool = c
  BY DEF OtherOp, Delivered, Stage, TypeOK
<1>2. UNCHANGED <<rowId, payload>> /\ Rewritten /\ Stage' = IF rowId # 0 THEN "flushed" ELSE "body"
  <2>1. CASE rowId # 0
    <3>1. FlushText("stream") /\ Goto("stream", "flushed")
      BY <2>1 DEF OtherOp
    <3> QED
      BY <2>1, <3>1, FlushTextLemma, OtherPc DEF Actor
  <2>2. CASE rowId = 0
    <3>1. Goto("stream", "body") /\ UNCHANGED <<text, rows>>
      BY <2>2 DEF OtherOp
    <3> QED
      BY <2>2, <3>1, SameRows, OtherPc DEF Actor, text
  <2> QED
    BY <2>1, <2>2
<1>3. Forget /\ UNCHANGED <<toolRow, toolOps>>
  BY DEF Forget, tools, Pending
<1>4. Written' = Written
  BY <1>1, <1>2, MaxOpsAssumption DEF Written
<1>5. Applying'
  BY <1>1, <1>2, MaxOpsAssumption DEF Applying, StreamPc
<1> QED
  BY <1>1, <1>2, <1>3, <1>4, <1>5, SameMemory

\* A row that is created while an op other than text is applied
LEMMA BodyRow ==
  ASSUME Inv, Stage \in {"body", "result"}, UNCHANGED <<sent, op, rowId, toolRow, toolOps, pendingTools>>,
         NEW t \in Tool \cup {NoTool}, NEW st \in {"text", "line", "counter", "running", "completed"},
         rows' = Append(rows, [ops |-> {op.n}, tool |-> t, status |-> st]),
         counterRow' \in {0, counterRow},
         IF st = "text" THEN payload' = {op.n} ELSE UNCHANGED payload,
         Stage' = IF st = "completed" THEN "completed" ELSE "created",
         st # "completed" => /\ st = "text" <=> op.kind \in Prose
                             /\ st = "counter" <=> op.kind = "counter"
  PROVE  OrderInv' /\ TextMoved
<1> DEFINE row == [ops |-> {op.n}, tool |-> t, status |-> st]
<1>1. /\ sent \in 1 .. MaxOps /\ op.n = sent /\ rowId = 0 /\ payload = {} /\ Written = sent - 1
  BY MaxOpsAssumption DEF Inv, OrderInv, Applying, Pointers, Written, TypeOK
<1>2. Applying'
  BY <1>1 DEF Inv, OrderInv, Applying, StreamPc
<1>3. row \in Row /\ row.ops = {sent'} /\ row.status = st
  BY <1>1 DEF Row
<1>4. rows' = Append(rows, row)
  OBVIOUS
<1>5. payload' = IF st = "text" THEN {sent'} ELSE {}
  BY <1>1
<1>6. Stage # "created" /\ Stage' \in {"created", "completed"} /\ sent' = Written + 1 /\ (st = "text" => Stage' = "created")
  BY <1>1
<1>7. Stage' = "created" => (st = "text" <=> op'.kind \in Prose) /\ (st = "counter" <=> op'.kind = "counter")
  OBVIOUS
<1> HIDE DEF row
<1> QED
  BY <1>1, <1>2, <1>3, <1>4, <1>5, <1>6, <1>7, RowAdded

LEMMA BodyOrder ==
  ASSUME Inv, OpenThinking \/ StartTool \/ MergeToolStart \/ ProgressTool \/ ToolResult
              \/ NewPlan \/ NewLine \/ Counter
  PROVE  OrderInv' /\ TextMoved
<1>1. Stage = "body" /\ UNCHANGED <<sent, op>> /\ rowId = 0 /\ op.n = sent /\ sent \in 1 .. MaxOps
  <2>1. Stage = "body" /\ UNCHANGED <<sent, op>>
    BY DEF OpenThinking, StartTool, MergeToolStart, ProgressTool, ToolResult, NewPlan, NewLine, Counter, Body, Stage
  <2> QED
    BY <2>1, MaxOpsAssumption DEF Inv, OrderInv, Applying, TypeOK
<1>2. op.tool \in Tool \cup {NoTool} /\ rows \in Seq(Row) /\ toolOps \in [Tool -> SUBSET (1 .. MaxOps)]
  BY DEF Inv, TypeOK, Op
<1>3. CASE OpenThinking
  <2>1. /\ rows' = Append(rows, [ops |-> {op.n}, tool |-> NoTool, status |-> "text"])
        /\ payload' = {op.n} /\ counterRow' = 0 /\ op.kind = "thinking" /\ Goto("stream", "created")
        /\ UNCHANGED <<rowId, toolRow, toolOps, pendingTools>>
    BY <1>3 DEF OpenThinking, Body, Create, tools
  <2>2. Stage' = "created"
    BY <2>1, OtherPc DEF Actor
  <2> QED
    BY <1>1, <2>1, <2>2, BodyRow DEF Prose
<1>4. CASE StartTool
  <2>1. /\ rows' = Append(rows, [ops |-> {op.n}, tool |-> op.tool, status |-> "running"])
        /\ op.kind = "start" /\ Goto("stream", "created")
        /\ UNCHANGED <<rowId, payload, toolRow, toolOps, pendingTools, counterRow>>
    BY <1>4 DEF StartTool, Body, Create, tools, text
  <2>2. Stage' = "created"
    BY <2>1, OtherPc DEF Actor
  <2> QED
    BY <1>1, <1>2, <2>1, <2>2, BodyRow DEF Prose
<1>5. CASE NewLine
  <2>1. /\ rows' = Append(rows, [ops |-> {op.n}, tool |-> NoTool, status |-> "line"])
        /\ op.kind = "line" /\ Goto("stream", "created") /\ counterRow' = 0
        /\ UNCHANGED <<rowId, payload, toolRow, toolOps, pendingTools>>
    BY <1>5 DEF NewLine, Body, Create, tools, text
  <2>2. Stage' = "created"
    BY <2>1, OtherPc DEF Actor
  <2> QED
    BY <1>1, <1>2, <2>1, <2>2, BodyRow DEF Prose
<1>11. CASE NewPlan
  <2>1. /\ rows' = Append(rows, [ops |-> {op.n}, tool |-> NoTool, status |-> "line"])
        /\ op.kind = "plan" /\ Goto("stream", "created")
        /\ UNCHANGED <<rowId, payload, toolRow, toolOps, pendingTools, counterRow>>
    BY <1>11 DEF NewPlan, Body, Create, tools, text
  <2>2. Stage' = "created"
    BY <2>1, OtherPc DEF Actor
  <2> QED
    BY <1>1, <1>2, <2>1, <2>2, BodyRow DEF Prose
<1>6. CASE Counter /\ counterRow = 0
  <2>1. /\ rows' = Append(rows, [ops |-> {op.n}, tool |-> NoTool, status |-> "counter"])
        /\ op.kind = "counter" /\ Goto("stream", "created")
        /\ UNCHANGED <<rowId, payload, toolRow, toolOps, pendingTools, counterRow>>
    BY <1>6 DEF Counter, Body, Create, tools, text
  <2>2. Stage' = "created"
    BY <2>1, OtherPc DEF Actor
  <2> QED
    BY <1>1, <1>2, <2>1, <2>2, BodyRow DEF Prose
<1>7. CASE Counter /\ counterRow # 0
  <2>1. /\ rows' = Patched(counterRow, rows[counterRow].ops \cup {sent}, "counter")
        /\ Goto("stream", "idle")
        /\ UNCHANGED <<rowId, payload, toolRow, toolOps, pendingTools, counterRow>>
    BY <1>1, <1>7 DEF Counter, Patch, Patched, tools, text
  <2>2. Stage' = "idle"
    BY <2>1, OtherPc DEF Actor
  <2>3. counterRow \in 1 .. Len(rows) /\ rows[counterRow].ops \cup {sent} \in SUBSET (1 .. MaxOps)
    <3>1. counterRow \in 1 .. Len(rows)
      BY <1>7 DEF Inv, TypeOK
    <3>2. rows[counterRow] \in Row
      BY <1>2, <3>1, ElementOfSeq
    <3> QED
      BY <1>1, <3>1, <3>2 DEF Row
  <2>4. /\ Len(rows') = Len(rows) /\ \A q \in 1 .. Len(rows) : q # counterRow => rows'[q] = rows[q]
        /\ rows'[counterRow] = [ops |-> rows[counterRow].ops \cup {sent}, tool |-> rows[counterRow].tool,
                                status |-> "counter"]
    BY <1>2, <2>1, <2>3, PatchedLemma, ZenonT(60)
  <2>5. OpWritten
    BY <2>4 DEF OpWritten, Places
  <2> QED
    BY <1>1, <2>1, <2>2, <2>5, OpIsWritten
<1>8. CASE MergeToolStart
  <2> DEFINE merged == toolOps[op.tool] \cup {sent}
  <2>1. /\ Pending(op.tool) /\ op.tool \in Tool /\ toolOps' = [toolOps EXCEPT ![op.tool] = merged]
        /\ rows' = Patched(toolRow[op.tool], merged, "running") /\ Goto("stream", "idle")
        /\ UNCHANGED <<rowId, payload, toolRow, pendingTools, counterRow>>
    BY <1>1, <1>8 DEF MergeToolStart, Body, Patch, Patched, text, Inv, OrderInv, Applying
  <2>2. Stage' = "idle"
    BY <2>1, OtherPc DEF Actor
  <2>3. toolRow[op.tool] \in 1 .. Len(rows)
    <3>1. toolRow[op.tool] \in 0 .. Len(rows) /\ toolRow[op.tool] # 0
      BY <2>1 DEF Inv, TypeOK, OrderInv, Pointers
    <3> QED
      BY <3>1 DEF Inv, TypeOK
  <2>4. merged \in SUBSET (1 .. MaxOps)
    BY <1>1, <1>2, <2>1
  <2> HIDE DEF merged
  <2>5. /\ Len(rows') = Len(rows) /\ \A q \in 1 .. Len(rows) : q # toolRow[op.tool] => rows'[q] = rows[q]
        /\ rows'[toolRow[op.tool]] = [ops |-> merged, tool |-> rows[toolRow[op.tool]].tool, status |-> "running"]
    BY <1>2, <2>1, <2>3, <2>4, PatchedLemma, ZenonT(60)
  <2>6. \A c \in Tool : toolOps'[c] \subseteq toolOps[c] \cup {sent}
    BY <1>2, <2>1 DEF merged
  <2>7. /\ rows'[toolRow[op.tool]].ops = toolOps[op.tool] \cup {sent}
        /\ rows'[toolRow[op.tool]].status = "running"
    BY <2>5 DEF merged
  <2>8. OpWritten
    BY <2>1, <2>5, <2>7 DEF OpWritten, Places
  <2> QED
    BY <1>1, <2>1, <2>2, <2>6, <2>8, OpIsWritten
<1>9. CASE ProgressTool
  <2>1. /\ \A c \in Tool : toolOps'[c] \subseteq toolOps[c] \cup {sent}
        /\ Goto("stream", "idle") /\ UNCHANGED <<rows, rowId, payload, toolRow, pendingTools, counterRow>>
    BY <1>1, <1>2, <1>9 DEF ProgressTool, text
  <2>2. Stage' = "idle" /\ OpWritten
    BY <2>1, OtherPc DEF Actor, OpWritten
  <2> QED
    BY <1>1, <2>1, <2>2, OpIsWritten
<1>10. CASE ToolResult
  <2>1. /\ Goto("stream", "result")
        /\ UNCHANGED <<rows, rowId, payload, toolRow, toolOps, pendingTools, counterRow>>
    BY <1>10 DEF ToolResult, CollectProgress, text
  <2>2. Stage' = "result" /\ Rewritten /\ Forget
    BY <2>1, OtherPc DEF Actor, Rewritten, Forget, Pending
  <2>3. Applying' /\ Written' = Written
    BY <1>1, <2>1, <2>2 DEF Inv, OrderInv, Applying, StreamPc, Written
  <2> QED
    BY <1>1, <2>1, <2>2, <2>3, SameMemory
<1> QED
  BY <1>3, <1>4, <1>5, <1>6, <1>7, <1>8, <1>9, <1>10, <1>11

LEMMA CompleteOrder ==
  ASSUME Inv, CompleteTool
  PROVE  OrderInv' /\ TextMoved
<1>1. /\ Stage = "result" /\ UNCHANGED <<sent, op, rowId, payload, toolRow, toolOps, pendingTools, counterRow>>
      /\ rowId = 0 /\ op.n = sent /\ sent \in 1 .. MaxOps
  <2>1. Stage = "result" /\ UNCHANGED <<sent, op, text, tools, counterRow>>
    BY DEF CompleteTool, Stage
  <2> QED
    BY <2>1, MaxOpsAssumption DEF Inv, OrderInv, Applying, TypeOK, text, tools
<1>2. op.tool \in Tool \cup {NoTool} /\ rows \in Seq(Row) /\ toolOps \in [Tool -> SUBSET (1 .. MaxOps)]
      /\ pendingTools \in Seq(Tool)
  BY DEF Inv, TypeOK, Op
<1>3. CASE ProgressLeft("stream") # {}
  <2>1. PatchProgress("stream") /\ UNCHANGED pc
    BY <1>3 DEF CompleteTool
  <2>2. Rewritten /\ Forget /\ Stage' = Stage
    BY <1>1, <2>1, PatchProgressLemma DEF Actor, Forget, Pending, Stage
  <2> QED
    BY <1>1, <2>2, OtherActor
<1>4. CASE ProgressLeft("stream") = {} /\ Pending(op.tool)
  <2> DEFINE full == toolOps[op.tool] \cup {sent}
  <2>1. rows' = Patched(toolRow[op.tool], full, "completed") /\ Goto("stream", "completed")
    BY <1>1, <1>4 DEF CompleteTool, Patch, Patched
  <2>2. Stage' = "completed"
    BY <2>1, OtherPc DEF Actor
  <2>3. op.tool \in Tool /\ toolRow[op.tool] \in 1 .. Len(rows)
    <3>1. op.tool \in Tool
      BY <1>2, <1>4, ElementOfSeq DEF Pending, Range
    <3>2. toolRow[op.tool] \in 0 .. Len(rows) /\ toolRow[op.tool] # 0
      BY <1>4, <3>1 DEF Inv, TypeOK, OrderInv, Pointers
    <3> QED
      BY <3>1, <3>2 DEF Inv, TypeOK
  <2>4. full \in SUBSET (1 .. MaxOps)
    BY <1>1, <1>2, <2>3
  <2> HIDE DEF full
  <2>5. /\ Len(rows') = Len(rows) /\ \A q \in 1 .. Len(rows) : q # toolRow[op.tool] => rows'[q] = rows[q]
        /\ rows'[toolRow[op.tool]] = [ops |-> full, tool |-> rows[toolRow[op.tool]].tool, status |-> "completed"]
    BY <1>2, <2>1, <2>3, <2>4, PatchedLemma, ZenonT(60)
  <2>6. /\ rows'[toolRow[op.tool]].ops = toolOps[op.tool] \cup {sent}
        /\ rows'[toolRow[op.tool]].status = "completed"
    BY <2>5 DEF full
  <2>7. OpWritten
    BY <1>4, <2>3, <2>5, <2>6 DEF OpWritten, Places
  <2> QED
    BY <1>1, <2>2, <2>7, OpIsWritten
<1>5. CASE ProgressLeft("stream") = {} /\ ~Pending(op.tool)
  <2>1. /\ rows' = Append(rows, [ops |-> {op.n}, tool |-> op.tool, status |-> "completed"])
        /\ Goto("stream", "completed")
    BY <1>5 DEF CompleteTool, Create
  <2>2. Stage' = "completed"
    BY <2>1, OtherPc DEF Actor
  <2> QED
    BY <1>1, <1>2, <2>1, <2>2, BodyRow
<1> QED
  BY <1>3, <1>4, <1>5

LEMMA StreamOrder ==
  ASSUME Inv, StreamStep
  PROVE  OrderInv' /\ TextMoved
<1>1. CASE AssistantText \/ MoreThinking
  BY <1>1, DeliveredOrder
<1>2. ASSUME NEW kind \in {"start", "result", "progress"}, NEW c \in Tool, ToolOp(kind, c)
      PROVE  OrderInv' /\ TextMoved
  <2>1. kind \in Kind /\ OtherOp(kind, c) /\ UNCHANGED <<tools, counterRow>>
    BY <1>2 DEF ToolOp, Kind
  <2> QED
    BY <1>2, <2>1, OtherOpOrder
<1>3. ASSUME NEW kind \in {"thinking", "line", "plan", "counter"}, PlainOp(kind)
      PROVE  OrderInv' /\ TextMoved
  <2>1. kind \in Kind /\ OtherOp(kind, NoTool) /\ UNCHANGED <<tools, counterRow>>
        /\ kind \notin {"start", "result", "progress"}
    BY <1>3 DEF PlainOp, Kind
  <2> QED
    BY <2>1, OtherOpOrder
<1>4. CASE Flushed
  <2>1. /\ Stage = "flushed" /\ Goto("stream", "body") /\ rowId' = 0 /\ payload' = {}
        /\ UNCHANGED <<sent, rows, toolRow, toolOps, op, pendingTools, counterRow>>
    BY <1>4 DEF Flushed, ResetText, tools, Stage
  <2>2. Stage' = "body"
    BY <2>1, OtherPc DEF Actor
  <2>3. Applying'
    BY <2>1, <2>2 DEF Inv, OrderInv, Applying, StreamPc
  <2> QED
    BY <2>1, <2>2, <2>3, TextReset
<1>5. CASE OpenThinking \/ StartTool \/ MergeToolStart \/ ProgressTool \/ ToolResult \/ NewPlan \/ NewLine \/ Counter
  BY <1>5, BodyOrder
<1>6. CASE Created
  BY <1>6, CreatedOrder
<1>7. CASE CompleteTool
  BY <1>7, CompleteOrder
<1>8. CASE Completed
  <2>1. /\ Stage = "completed" /\ Goto("stream", "idle") /\ Delete(op.tool)
        /\ UNCHANGED <<sent, rows, rowId, payload, toolRow, toolOps, op, counterRow>>
    BY <1>8 DEF Completed, text, Stage
  <2>2. Stage' = "idle" /\ Rewritten /\ Forget
    BY <2>1, OtherPc, DeleteLemma, SameRows DEF Actor, Forget, Inv, TypeOK
  <2>3. Applying' /\ Written' = Written
    BY <2>1, <2>2 DEF Inv, OrderInv, Applying, StreamPc, Written
  <2> QED
    BY <2>1, <2>2, <2>3, SameMemory
<1>9. CASE StreamEnds
  <2>1. /\ Stage = "idle" /\ Goto("stream", "ended")
        /\ UNCHANGED <<sent, rows, rowId, payload, toolRow, toolOps, op, counterRow, pendingTools>>
    BY <1>9 DEF StreamEnds, text, tools, Stage
  <2>2. Stage' = "ended" /\ Rewritten /\ Forget
    BY <2>1, OtherPc, SameRows DEF Actor, Forget, Pending
  <2>3. Applying' /\ Written' = Written
    BY <2>1, <2>2 DEF Inv, OrderInv, Applying, StreamPc, Written
  <2> QED
    BY <2>1, <2>2, <2>3, SameMemory
<1> QED
  BY <1>1, <1>2, <1>3, <1>4, <1>5, <1>6, <1>7, <1>8, <1>9 DEF StreamStep

-----------------------------------------------------------------------------
(* the answers and the timers, and finish() *)

LEMMA TimerOrder ==
  ASSUME Inv, Answer \/ Timer
  PROVE  OrderInv' /\ TextMoved
<1>1. UNCHANGED <<sent, op, rowId, payload, toolRow, toolOps, pendingTools, counterRow>> /\ Stage' = Stage
  <2>1. CASE Answer \/ TextTimer
    BY <2>1 DEF Answer, PatchAnswered, CreateAnswered, TextTimer, text, tools, Stage
  <2>2. ASSUME NEW t \in Ticker, ToolTimer(t)
        PROVE  UNCHANGED <<sent, op, rowId, payload, toolRow, toolOps, pendingTools, counterRow>>
               /\ Stage' = Stage
    BY <2>2, OtherPc, TickerActor DEF ToolTimer, CollectProgress, text
  <2>3. ASSUME NEW t \in Ticker, TickerPatches(t)
        PROVE  UNCHANGED <<sent, op, rowId, payload, toolRow, toolOps, pendingTools, counterRow>>
               /\ Stage' = Stage
    BY <2>3, OtherPc, TickerActor DEF TickerPatches, text, tools, Stage
  <2> QED
    BY <2>1, <2>2, <2>3 DEF Timer
<1>2. Forget
  BY <1>1 DEF Forget, Pending
<1>3. Rewritten
  <2>1. CASE UNCHANGED rows
    BY <2>1, SameRows
  <2>2. CASE rowId # 0 /\ rows' = [rows EXCEPT ![rowId].ops = payload]
    <3>1. rows \in Seq(Row) /\ rowId \in 1 .. Len(rows) /\ rows[rowId].status = "text" /\ rows[rowId] \in Row
      BY <2>2, ElementOfSeq DEF Inv, TypeOK, OrderInv, Pointers
    <3>2. rows' = [rows EXCEPT ![rowId] = [rows[rowId] EXCEPT !.ops = payload]]
      BY <2>2
    <3>3. /\ DOMAIN rows = 1 .. Len(rows) /\ rows'[rowId].ops = payload /\ rows'[rowId].status = "text"
          /\ \A r \in Places : r # rowId => rows'[r] = rows[r]
      BY <3>1, <3>2 DEF Row, Places
    <3>4. Len(rows') = Len(rows)
      BY <3>1, <3>2, <3>3
    <3> QED
      BY <3>3, <3>4 DEF Rewritten
  <2>3. ASSUME NEW t \in Ticker, PatchProgress(t) PROVE Rewritten
    BY <2>3, PatchProgressLemma, TickerActor
  <2> QED
    BY <2>1, <2>2, <2>3 DEF Answer, PatchAnswered, CreateAnswered, Timer, TextTimer, ToolTimer, TickerPatches
<1> QED
  BY <1>1, <1>2, <1>3, OtherActor

LEMMA FinishOrder ==
  ASSUME Inv, NEW f \in Finisher, FinishStep(f)
  PROVE  OrderInv' /\ TextMoved
<1>1. f \in Actor /\ f # "stream"
  BY DEF Finisher, Actor
<1>2. UNCHANGED <<sent, op>> /\ Stage' = Stage
  <2>1. UNCHANGED <<sent, op>> /\ (UNCHANGED pc \/ \E label : Goto(f, label))
    BY DEF FinishStep, FinishCalled, FinishStart, FinishCollect, FinishProgress, FinishFlush,
           FinishFlushed, FinishSettle, FinishSettled, At
  <2> QED
    BY <1>1, <2>1, OtherPc DEF Stage
<1>3. CASE FinishFlushed(f)
  <2>1. /\ rowId' = 0 /\ payload' = {} /\ counterRow' = 0
        /\ UNCHANGED <<rows, toolRow, toolOps, pendingTools>>
    BY <1>3 DEF FinishFlushed, ResetText, tools
  <2>2. Applying'
    BY <1>2, <2>1 DEF Inv, OrderInv, Applying
  <2> QED
    BY <1>2, <2>1, <2>2, TextReset
<1>4. ASSUME UNCHANGED <<rowId, payload, toolRow, toolOps>>, Forget, Rewritten PROVE OrderInv' /\ TextMoved
  BY <1>2, <1>4, OtherActor
<1>5. CASE FinishCalled(f) \/ FinishCollect(f)
  <2>1. UNCHANGED <<rowId, payload, toolRow, toolOps, rows, pendingTools, counterRow>>
    BY <1>5 DEF FinishCalled, FinishCollect, CollectProgress, text, tools
  <2> QED
    BY <1>4, <2>1, SameRows DEF Forget, Pending
<1>6. CASE FinishStart(f)
  <2>1. UNCHANGED <<rowId, payload, toolRow, toolOps, pendingTools, counterRow>>
    BY <1>6 DEF FinishStart, tools
  <2>2. UNCHANGED rows \/ (rowId # 0 /\ rows' = Patched(rowId, payload, "text"))
    BY <1>6 DEF FinishStart, Patch, Patched
  <2> QED
    BY <1>4, <2>1, <2>2, SameRows, PatchText DEF Forget, Pending
<1>7. CASE FinishProgress(f)
  <2>1. UNCHANGED <<rowId, payload, toolRow, toolOps, pendingTools, counterRow>>
    BY <1>7 DEF FinishProgress, text, tools
  <2>2. UNCHANGED rows \/ PatchProgress(f)
    BY <1>7 DEF FinishProgress
  <2> QED
    BY <1>1, <1>4, <2>1, <2>2, SameRows, PatchProgressLemma DEF Forget, Pending
<1>8. CASE FinishFlush(f)
  <2>1. UNCHANGED <<toolRow, toolOps, pendingTools>> /\ counterRow' \in {0, counterRow}
    BY <1>8 DEF FinishFlush, tools
  <2>2. UNCHANGED <<text, rows>> \/ (rowId # 0 /\ FlushText(f))
    BY <1>8 DEF FinishFlush
  <2>3. UNCHANGED <<rowId, payload>> /\ Rewritten
    BY <2>2, SameRows, FlushTextLemma DEF text
  <2> QED
    BY <1>4, <2>1, <2>3 DEF Forget, Pending
<1>9. CASE FinishSettle(f)
  <2>1. UNCHANGED <<rowId, payload, toolRow, toolOps, pendingTools, counterRow>>
    BY <1>9 DEF FinishSettle, text, tools
  <2>2. UNCHANGED rows \/ (pendingTools # <<>> /\ rows' = Patched(toolRow[Head(pendingTools)], toolOps[Head(pendingTools)], "cancelled"))
    BY <1>9 DEF FinishSettle, Patch, Patched
  <2>3. pendingTools # <<>> => Head(pendingTools) \in Tool /\ Pending(Head(pendingTools))
    <3>1. pendingTools \in Seq(Tool)
      BY DEF Inv, TypeOK
    <3>2. pendingTools # <<>> => 1 \in 1 .. Len(pendingTools) /\ Head(pendingTools) = pendingTools[1]
      BY <3>1
    <3> QED
      BY <3>1, <3>2, ElementOfSeq DEF Pending, Range
  <2> QED
    BY <1>4, <2>1, <2>2, <2>3, SameRows, PatchCall DEF Forget, Pending
<1>10. CASE FinishSettled(f)
  <2>1. UNCHANGED <<rows, rowId, payload, toolRow, toolOps, counterRow>> /\ Delete(target[f])
    BY <1>10 DEF FinishSettled, text
  <2> QED
    BY <1>4, <2>1, SameRows, DeleteLemma DEF Forget, Inv, TypeOK
<1> QED
  BY <1>3, <1>5, <1>6, <1>7, <1>8, <1>9, <1>10 DEF FinishStep

-----------------------------------------------------------------------------
(* Types *)

\* What the sequences of the model are after a step
LEMMA TypedSequences ==
  ASSUME Inv
  PROVE  /\ \A a \in Actor : Append(waiting, a) \in Seq(Actor)
         /\ waiting # <<>> => Tail(waiting) \in Seq(Actor)
         /\ \A row \in Row : /\ Append(rows, row) \in Seq(Row)
                             /\ Len(Append(rows, row)) = Len(rows) + 1
         /\ \A c \in Tool : /\ Append(toolDirty, c) \in Seq(Tool)
                            /\ Append(pendingTools, c) \in Seq(Tool)
         /\ Len(rows) \in Nat /\ <<>> \in Seq(Tool)
  BY DEF Inv, TypeOK

\* A step that leaves the rows alone, or changes them in place, keeps the types
\* of what points to them.
LEMMA TypePatched ==
  ASSUME Inv, rows' \in Seq(Row), Len(rows') = Len(rows), UNCHANGED <<sent, phase, op, target>>,
         rowId' \in {0, rowId}, payload' \in {{}, payload}, bufferKind' \in {"none", bufferKind},
         timer' \in BOOLEAN, dirty' \in BOOLEAN, toolTimer' \in BOOLEAN,
         toolDirty' \in Seq(Tool), pendingTools' \in Seq(Tool), UNCHANGED <<toolRow>>,
         toolOps' \in [Tool -> SUBSET (1 .. MaxOps)],
         counterRow' \in {0, counterRow}, pc' \in [Actor -> StreamPc \cup FinishPc],
         ids' \in [Actor -> Seq(Tool)], waiting' \in Seq(Actor),
         creating' \in BOOLEAN, disposed' \in BOOLEAN
  PROVE  TypeOK'
<1>1. Len(rows) \in Nat
  BY TypedSequences
<1>2. /\ rowId' \in 0 .. Len(rows') /\ counterRow' \in 0 .. Len(rows')
      /\ payload' \subseteq 1 .. MaxOps /\ bufferKind' \in {"none", "assistant", "thinking"}
      /\ toolRow' \in [Tool -> 0 .. Len(rows')]
  <2>1. /\ rowId \in 0 .. Len(rows) /\ counterRow \in 0 .. Len(rows)
        /\ payload \subseteq 1 .. MaxOps /\ bufferKind \in {"none", "assistant", "thinking"}
        /\ toolRow \in [Tool -> 0 .. Len(rows)]
    BY DEF Inv, TypeOK
  <2>2. rowId' \in 0 .. Len(rows') /\ counterRow' \in 0 .. Len(rows')
    BY <1>1, <2>1
  <2>3. payload' \subseteq 1 .. MaxOps
    BY <2>1
  <2>4. bufferKind' \in {"none", "assistant", "thinking"}
    BY <2>1
  <2>5. toolRow' \in [Tool -> 0 .. Len(rows')]
    BY <2>1
  <2> QED
    BY <2>2, <2>3, <2>4, <2>5
<1>3. /\ sent' \in 0 .. MaxOps /\ phase' \in [Tool -> {"new", "started", "ended"}]
      /\ op' \in Op /\ target' \in [Finisher -> Tool \cup {NoTool}]
  BY DEF Inv, TypeOK
<1> QED
  BY <1>2, <1>3 DEF TypeOK

LEMMA GotoType ==
  ASSUME Inv, NEW a \in Actor, NEW label \in StreamPc \cup FinishPc, Goto(a, label)
  PROVE  pc' \in [Actor -> StreamPc \cup FinishPc]
BY DEF Inv, TypeOK, Goto

LEMMA CollectType ==
  ASSUME Inv, NEW a \in Actor, CollectProgress(a)
  PROVE  /\ ids' \in [Actor -> Seq(Tool)] /\ toolTimer' \in BOOLEAN /\ toolDirty' \in Seq(Tool)
         /\ UNCHANGED <<pendingTools, toolRow, toolOps>>
<1>1. ids \in [Actor -> Seq(Tool)] /\ toolDirty \in Seq(Tool)
  BY DEF Inv, TypeOK
<1>2. toolTimer' = FALSE /\ toolDirty' = <<>> /\ UNCHANGED <<pendingTools, toolRow, toolOps>>
      /\ ids' = [ids EXCEPT ![a] = toolDirty]
  BY DEF CollectProgress
<1>3. ids' \in [Actor -> Seq(Tool)]
  BY <1>1, <1>2
<1>4. toolDirty' \in Seq(Tool)
  BY <1>2, TypedSequences
<1>5. toolTimer' \in BOOLEAN
  BY <1>2
<1> QED
  BY <1>2, <1>3, <1>4, <1>5

LEMMA DeliveredType ==
  ASSUME Inv, AssistantText \/ MoreThinking
  PROVE  TypeOK'
<1>1. /\ sent \in 0 .. MaxOps /\ sent < MaxOps /\ sent' = sent + 1
      /\ op' \in Op /\ sent + 1 \in 1 .. MaxOps
  BY MaxOpsAssumption DEF AssistantText, MoreThinking, Delivered, Inv, TypeOK, Op, Kind
<1>2. CASE rowId # 0
  <2>1. /\ payload' = payload \cup {sent + 1} /\ timer' = TRUE /\ dirty' = TRUE
        /\ UNCHANGED <<rowId, bufferKind, phase, rows, tools, counterRow, pc, ids, target, waiting, creating, disposed>>
    BY <1>2 DEF AssistantText, MoreThinking, SchedulePatch
  <2> QED
    BY <1>1, <2>1 DEF Inv, TypeOK, tools
<1>3. CASE rowId = 0
  <2> DEFINE row == [ops |-> {sent + 1}, tool |-> NoTool, status |-> "text"]
  <2>1. /\ payload' = {sent + 1} /\ counterRow' = 0 /\ Goto("stream", "created") /\ rows' = Append(rows, row)
        /\ creating' = TRUE
        /\ UNCHANGED <<rowId, bufferKind, timer, dirty, phase, tools, ids, target, waiting, disposed>>
    BY <1>3 DEF AssistantText, MoreThinking, Create
  <2>2. row \in Row
    BY <1>1 DEF Row
  <2> HIDE DEF row
  <2>3. rows' \in Seq(Row) /\ Len(rows') = Len(rows) + 1 /\ Len(rows) \in Nat
    BY <2>1, <2>2, TypedSequences
  <2>4. pc' \in [Actor -> StreamPc \cup FinishPc]
    BY <2>1, GotoType DEF Actor, StreamPc
  <2> QED
    BY <1>1, <1>3, <2>1, <2>3, <2>4 DEF Inv, TypeOK, tools
<1> QED
  BY <1>2, <1>3

LEMMA OtherOpType ==
  ASSUME Inv, NEW kind \in Kind, NEW c \in Tool \cup {NoTool}, OtherOp(kind, c),
         phase' \in [Tool -> {"new", "started", "ended"}],
         UNCHANGED <<tools, counterRow, ids, target, creating, disposed>>
  PROVE  TypeOK'
<1>1. /\ sent' \in 0 .. MaxOps /\ op' \in Op
  BY MaxOpsAssumption DEF OtherOp, Delivered, Inv, TypeOK, Op
<1>2. CASE rowId # 0
  <2>1. FlushText("stream") /\ Goto("stream", "flushed")
    BY <1>2 DEF OtherOp
  <2>2. /\ Rewritten /\ rows' \in Seq(Row) /\ UNCHANGED <<rowId, payload, bufferKind>>
        /\ timer' = FALSE /\ dirty' = FALSE /\ waiting' \in Seq(Actor)
    BY <1>2, <2>1, FlushTextLemma, TypedSequences DEF Actor
  <2>3. pc' \in [Actor -> StreamPc \cup FinishPc] /\ Len(rows') = Len(rows)
    BY <2>1, <2>2, GotoType DEF Actor, StreamPc, Rewritten
  <2> QED
    BY <1>1, <2>2, <2>3 DEF Inv, TypeOK, tools
<1>3. CASE rowId = 0
  <2>1. Goto("stream", "body") /\ UNCHANGED <<text, rows, waiting>>
    BY <1>3 DEF OtherOp
  <2>2. pc' \in [Actor -> StreamPc \cup FinishPc]
    BY <2>1, GotoType DEF Actor, StreamPc
  <2> QED
    BY <1>1, <2>1, <2>2 DEF Inv, TypeOK, tools, text
<1> QED
  BY <1>2, <1>3

\* A row that is created while another op is applied
LEMMA BodyRowType ==
  ASSUME Inv, NEW t \in Tool \cup {NoTool}, NEW st \in {"text", "line", "counter", "running", "completed"},
         rows' = Append(rows, [ops |-> {op.n}, tool |-> t, status |-> st]), op.n \in 1 .. MaxOps,
         creating' = TRUE, payload' \in {payload, {op.n}}, counterRow' \in {0, counterRow},
         NEW label \in StreamPc, Goto("stream", label),
         UNCHANGED <<sent, phase, op, target, disposed, rowId, bufferKind, timer, dirty, tools, ids, waiting>>
  PROVE  TypeOK'
<1> DEFINE row == [ops |-> {op.n}, tool |-> t, status |-> st]
<1>1. row \in Row
  BY DEF Row
<1> HIDE DEF row
<1>2. rows' \in Seq(Row) /\ Len(rows') = Len(rows) + 1 /\ Len(rows) \in Nat
  BY <1>1, TypedSequences DEF row
<1>3. pc' \in [Actor -> StreamPc \cup FinishPc]
  BY GotoType DEF Actor
<1> QED
  BY <1>2, <1>3, SMTT(60) DEF Inv, TypeOK, tools

LEMMA BodyType ==
  ASSUME Inv, OpenThinking \/ StartTool \/ MergeToolStart \/ ProgressTool \/ ToolResult
              \/ NewPlan \/ NewLine \/ Counter
  PROVE  TypeOK'
<1>1. /\ op.n = sent /\ sent \in 1 .. MaxOps /\ rows \in Seq(Row)
      /\ op.tool \in Tool \cup {NoTool} /\ (op.kind \in {"start", "progress"} => op.tool \in Tool)
      /\ toolOps \in [Tool -> SUBSET (1 .. MaxOps)]
  <2>1. Stage = "body"
    BY DEF OpenThinking, StartTool, MergeToolStart, ProgressTool, ToolResult, NewPlan, NewLine, Counter, Body, Stage
  <2> QED
    BY <2>1, MaxOpsAssumption DEF Inv, OrderInv, Applying, TypeOK, Op
<1>2. CASE OpenThinking
  BY <1>1, <1>2, BodyRowType DEF OpenThinking, Body, Create, StreamPc
<1>3. CASE StartTool
  BY <1>1, <1>3, BodyRowType DEF StartTool, Body, Create, StreamPc, text
<1>4. CASE NewLine
  BY <1>1, <1>4, BodyRowType DEF NewLine, Body, Create, StreamPc, text
<1>10. CASE NewPlan
  BY <1>1, <1>10, BodyRowType DEF NewPlan, Body, Create, StreamPc, text
<1>5. CASE Counter /\ counterRow = 0
  BY <1>1, <1>5, BodyRowType DEF Counter, Body, Create, StreamPc, text
<1>6. CASE Counter /\ counterRow # 0
  <2>1. /\ rows' = Patched(counterRow, rows[counterRow].ops \cup {sent}, "counter")
        /\ waiting' = Append(waiting, "stream") /\ Goto("stream", "idle")
        /\ UNCHANGED <<sent, phase, op, target, disposed, text, tools, counterRow, ids, creating>>
    BY <1>1, <1>6 DEF Counter, Patch, Patched, Body
  <2>2. counterRow \in 1 .. Len(rows) /\ rows[counterRow].ops \cup {sent} \in SUBSET (1 .. MaxOps)
    <3>1. counterRow \in 1 .. Len(rows)
      BY <1>6 DEF Inv, TypeOK
    <3>2. rows[counterRow] \in Row
      BY <1>1, <3>1, ElementOfSeq
    <3> QED
      BY <1>1, <3>1, <3>2 DEF Row
  <2>3. rows' \in Seq(Row) /\ Len(rows') = Len(rows)
    BY <1>1, <2>1, <2>2, PatchedLemma
  <2>4. pc' \in [Actor -> StreamPc \cup FinishPc] /\ waiting' \in Seq(Actor)
    BY <2>1, GotoType, TypedSequences DEF Actor, StreamPc
  <2> QED
    BY <2>1, <2>3, <2>4, TypePatched DEF Inv, TypeOK, text, tools
<1>7. CASE MergeToolStart
  <2> DEFINE merged == toolOps[op.tool] \cup {sent}
  <2>1. /\ Pending(op.tool) /\ op.tool \in Tool /\ toolOps' = [toolOps EXCEPT ![op.tool] = merged]
        /\ rows' = Patched(toolRow[op.tool], merged, "running") /\ Goto("stream", "idle")
        /\ waiting' = Append(waiting, "stream")
        /\ UNCHANGED <<sent, phase, op, target, disposed, text, toolTimer, toolDirty, pendingTools,
                       toolRow, counterRow, ids, creating>>
    BY <1>1, <1>7 DEF MergeToolStart, Body, Patch, Patched
  <2>2. toolRow[op.tool] \in 1 .. Len(rows)
    <3>1. toolRow[op.tool] \in 0 .. Len(rows) /\ toolRow[op.tool] # 0
      BY <2>1 DEF Inv, TypeOK, OrderInv, Pointers
    <3> QED
      BY <3>1 DEF Inv, TypeOK
  <2>3. merged \in SUBSET (1 .. MaxOps)
    BY <1>1, <2>1
  <2>4. toolOps' \in [Tool -> SUBSET (1 .. MaxOps)]
    BY <1>1, <2>1, <2>3
  <2> HIDE DEF merged
  <2>5. rows' \in Seq(Row) /\ Len(rows') = Len(rows)
    BY <1>1, <2>1, <2>2, <2>3, PatchedLemma
  <2>6. pc' \in [Actor -> StreamPc \cup FinishPc] /\ waiting' \in Seq(Actor)
    BY <2>1, GotoType, TypedSequences DEF Actor, StreamPc
  <2> QED
    BY <2>1, <2>4, <2>5, <2>6, TypePatched DEF Inv, TypeOK, text
<1>8. CASE ProgressTool
  <2>1. /\ Goto("stream", "idle")
        /\ UNCHANGED <<sent, phase, op, target, disposed, text, rows, pendingTools, toolRow, counterRow,
                       ids, waiting, creating>>
        /\ op.tool \in Tool
        /\ toolOps' \in {toolOps, [toolOps EXCEPT ![op.tool] = @ \cup {op.n}]}
        /\ toolDirty' \in {toolDirty, Append(toolDirty, op.tool)}
        /\ toolTimer' \in {TRUE, toolTimer}
    BY <1>1, <1>8 DEF ProgressTool, Body
  <2>2. toolOps' \in [Tool -> SUBSET (1 .. MaxOps)]
    BY <1>1, <2>1
  <2>3. toolDirty' \in Seq(Tool)
    BY <2>1, TypedSequences DEF Inv, TypeOK
  <2>4. toolTimer' \in BOOLEAN
    BY <2>1 DEF Inv, TypeOK
  <2>5. pc' \in [Actor -> StreamPc \cup FinishPc]
    BY <2>1, GotoType DEF Actor, StreamPc
  <2> QED
    BY <2>1, <2>2, <2>3, <2>4, <2>5, TypePatched DEF Inv, TypeOK, text
<1>9. CASE ToolResult
  <2>1. /\ Goto("stream", "result") /\ CollectProgress("stream")
        /\ UNCHANGED <<sent, phase, op, target, disposed, text, rows, counterRow, waiting, creating>>
    BY <1>9 DEF ToolResult, Body
  <2>2. /\ ids' \in [Actor -> Seq(Tool)] /\ toolTimer' \in BOOLEAN /\ toolDirty' \in Seq(Tool)
        /\ UNCHANGED <<pendingTools, toolRow, toolOps>> /\ pc' \in [Actor -> StreamPc \cup FinishPc]
    BY <2>1, CollectType, GotoType DEF Actor, StreamPc
  <2> QED
    BY <2>1, <2>2, TypePatched DEF Inv, TypeOK, text
<1> QED
  BY <1>2, <1>3, <1>4, <1>5, <1>6, <1>7, <1>8, <1>9, <1>10

LEMMA CreatedType ==
  ASSUME Inv, Created
  PROVE  TypeOK'
<1>1. Stage = "created"
  BY DEF Created, Stage
<1>2. /\ NewId \in 1 .. Len(rows) /\ op.n \in 1 .. MaxOps /\ (op.kind = "start" => op.tool \in Tool)
  BY <1>1, CreatedId, MaxOpsAssumption DEF Inv, TypeOK, OrderInv, Applying, Places
<1>3. /\ rowId' \in {rowId, NewId} /\ counterRow' \in {counterRow, NewId} /\ Goto("stream", "idle")
      /\ bufferKind' \in {"assistant", "thinking", bufferKind}
      /\ UNCHANGED <<sent, phase, rows, payload, timer, dirty, toolTimer, toolDirty,
                     op, ids, target, waiting, creating, disposed>>
  BY DEF Created
<1>4. /\ pendingTools' \in Seq(Tool) /\ toolRow' \in [Tool -> 0 .. Len(rows)]
      /\ toolOps' \in [Tool -> SUBSET (1 .. MaxOps)]
  <2>1. /\ pendingTools \in Seq(Tool) /\ toolRow \in [Tool -> 0 .. Len(rows)]
        /\ toolOps \in [Tool -> SUBSET (1 .. MaxOps)]
    BY DEF Inv, TypeOK
  <2>2. CASE op.kind = "start"
    <3>1. /\ pendingTools' = Append(pendingTools, op.tool) /\ toolRow' = [toolRow EXCEPT ![op.tool] = NewId]
          /\ toolOps' = [toolOps EXCEPT ![op.tool] = {op.n}]
      BY <2>2 DEF Created
    <3>2. pendingTools' \in Seq(Tool)
      BY <1>2, <2>2, <3>1, TypedSequences
    <3> QED
      BY <1>2, <2>1, <3>1, <3>2
  <2>3. CASE op.kind # "start"
    BY <2>1, <2>3 DEF Created
  <2> QED
    BY <2>2, <2>3
<1>5. pc' \in [Actor -> StreamPc \cup FinishPc]
  BY <1>3, GotoType DEF Actor, StreamPc
<1>6. rowId' \in 0 .. Len(rows) /\ counterRow' \in 0 .. Len(rows)
  BY <1>2, <1>3 DEF Inv, TypeOK
<1> QED
  BY <1>3, <1>4, <1>5, <1>6 DEF Inv, TypeOK

LEMMA CompleteType ==
  ASSUME Inv, CompleteTool
  PROVE  TypeOK'
<1>1. /\ Stage = "result" /\ UNCHANGED <<sent, phase, text, tools, counterRow, op, target, disposed>>
  BY DEF CompleteTool, Stage
<1>2. /\ op.n \in 1 .. MaxOps /\ op.n = sent /\ rows \in Seq(Row) /\ op.tool \in Tool \cup {NoTool}
      /\ toolOps \in [Tool -> SUBSET (1 .. MaxOps)] /\ pendingTools \in Seq(Tool)
  BY <1>1, MaxOpsAssumption DEF Inv, TypeOK, OrderInv, Applying, Op
<1>3. CASE ProgressLeft("stream") # {}
  <2>1. PatchProgress("stream") /\ UNCHANGED <<pc, creating>>
    BY <1>3 DEF CompleteTool
  <2>2. /\ rows' \in Seq(Row) /\ Len(rows') = Len(rows) /\ waiting' \in Seq(Actor)
        /\ ids' \in [Actor -> Seq(Tool)]
    BY <2>1, PatchProgressLemma, TypedSequences DEF Actor, Rewritten
  <2> QED
    BY <1>1, <2>1, <2>2, TypePatched DEF Inv, TypeOK, text, tools
<1>4. CASE ProgressLeft("stream") = {} /\ Pending(op.tool)
  <2> DEFINE full == toolOps[op.tool] \cup {op.n}
  <2>1. /\ rows' = Patched(toolRow[op.tool], full, "completed") /\ Goto("stream", "completed")
        /\ waiting' = Append(waiting, "stream") /\ UNCHANGED <<creating, ids>>
    BY <1>4 DEF CompleteTool, Patch, Patched
  <2>2. op.tool \in Tool /\ toolRow[op.tool] \in 1 .. Len(rows)
    <3>1. op.tool \in Tool
      BY <1>2, <1>4, ElementOfSeq DEF Pending, Range
    <3>2. toolRow[op.tool] \in 0 .. Len(rows) /\ toolRow[op.tool] # 0
      BY <1>4, <3>1 DEF Inv, TypeOK, OrderInv, Pointers
    <3> QED
      BY <3>1, <3>2 DEF Inv, TypeOK
  <2>3. full \in SUBSET (1 .. MaxOps)
    BY <1>2, <2>2
  <2> HIDE DEF full
  <2>4. rows' \in Seq(Row) /\ Len(rows') = Len(rows)
    BY <1>2, <2>1, <2>2, <2>3, PatchedLemma
  <2>5. pc' \in [Actor -> StreamPc \cup FinishPc] /\ waiting' \in Seq(Actor)
    BY <2>1, GotoType, TypedSequences DEF Actor, StreamPc
  <2> QED
    BY <1>1, <2>1, <2>4, <2>5, TypePatched DEF Inv, TypeOK, text, tools
<1>5. CASE ProgressLeft("stream") = {} /\ ~Pending(op.tool)
  <2>1. /\ rows' = Append(rows, [ops |-> {op.n}, tool |-> op.tool, status |-> "completed"])
        /\ Goto("stream", "completed") /\ creating' = TRUE /\ UNCHANGED <<ids, waiting>>
    BY <1>5 DEF CompleteTool, Create
  <2> QED
    BY <1>1, <1>2, <2>1, BodyRowType DEF StreamPc, text
<1> QED
  BY <1>3, <1>4, <1>5

LEMMA StreamType ==
  ASSUME Inv, StreamStep
  PROVE  TypeOK'
<1>1. CASE AssistantText \/ MoreThinking
  BY <1>1, DeliveredType
<1>2. ASSUME NEW kind \in {"start", "result", "progress"}, NEW c \in Tool, ToolOp(kind, c)
      PROVE  TypeOK'
  <2>1. /\ kind \in Kind /\ OtherOp(kind, c)
        /\ UNCHANGED <<tools, counterRow, ids, target, creating, disposed>>
    BY <1>2 DEF ToolOp, Kind
  <2>2. phase' \in [Tool -> {"new", "started", "ended"}]
    BY <1>2 DEF ToolOp, Advances, Inv, TypeOK
  <2> QED
    BY <2>1, <2>2, OtherOpType
<1>3. ASSUME NEW kind \in {"thinking", "line", "plan", "counter"}, PlainOp(kind)
      PROVE  TypeOK'
  <2>1. /\ kind \in Kind /\ OtherOp(kind, NoTool)
        /\ UNCHANGED <<tools, counterRow, ids, target, creating, disposed>>
    BY <1>3 DEF PlainOp, Kind
  <2>2. phase' \in [Tool -> {"new", "started", "ended"}]
    BY <1>3 DEF PlainOp, Inv, TypeOK
  <2> QED
    BY <2>1, <2>2, OtherOpType
<1>4. CASE Flushed
  <2>1. /\ Goto("stream", "body") /\ rowId' = 0 /\ payload' = {} /\ bufferKind' = "none"
        /\ UNCHANGED <<sent, phase, rows, timer, dirty, tools, counterRow, op, ids, target,
                       waiting, creating, disposed>>
    BY <1>4 DEF Flushed, ResetText
  <2>2. pc' \in [Actor -> StreamPc \cup FinishPc]
    BY <2>1, GotoType DEF Actor, StreamPc
  <2> QED
    BY <2>1, <2>2, TypePatched DEF Inv, TypeOK, tools
<1>5. CASE OpenThinking \/ StartTool \/ MergeToolStart \/ ProgressTool \/ ToolResult \/ NewPlan \/ NewLine \/ Counter
  BY <1>5, BodyType
<1>6. CASE Created
  BY <1>6, CreatedType
<1>7. CASE CompleteTool
  BY <1>7, CompleteType
<1>8. CASE Completed
  <2>1. /\ Goto("stream", "idle") /\ Delete(op.tool)
        /\ UNCHANGED <<sent, phase, rows, text, toolTimer, toolDirty, toolRow, toolOps,
                       counterRow, op, ids, target, waiting, creating, disposed>>
    BY <1>8 DEF Completed
  <2>2. pc' \in [Actor -> StreamPc \cup FinishPc] /\ pendingTools' \in Seq(Tool)
    BY <2>1, GotoType, DeleteLemma DEF Actor, StreamPc, Inv, TypeOK
  <2> QED
    BY <2>1, <2>2, TypePatched DEF Inv, TypeOK, text
<1>9. CASE StreamEnds
  <2>1. /\ Goto("stream", "ended")
        /\ UNCHANGED <<sent, phase, rows, text, tools, counterRow, op, ids, target,
                       waiting, creating, disposed>>
    BY <1>9 DEF StreamEnds
  <2>2. pc' \in [Actor -> StreamPc \cup FinishPc]
    BY <2>1, GotoType DEF Actor, StreamPc
  <2> QED
    BY <2>1, <2>2, TypePatched DEF Inv, TypeOK, text, tools
<1> QED
  BY <1>1, <1>2, <1>3, <1>4, <1>5, <1>6, <1>7, <1>8, <1>9 DEF StreamStep

LEMMA TimerType ==
  ASSUME Inv, Answer \/ Timer
  PROVE  TypeOK'
<1>1. CASE PatchAnswered
  <2>1. /\ waiting' = Tail(waiting) /\ waiting # <<>>
        /\ UNCHANGED <<sent, phase, rows, text, tools, counterRow, op, pc, ids, target, creating, disposed>>
    BY <1>1 DEF PatchAnswered
  <2>2. waiting' \in Seq(Actor)
    BY <2>1, TypedSequences
  <2> QED
    BY <2>1, <2>2, TypePatched DEF Inv, TypeOK, text, tools
<1>2. CASE CreateAnswered
  BY <1>2, TypePatched DEF CreateAnswered, Inv, TypeOK, text, tools
<1>3. CASE TextTimer
  <2>1. /\ timer' = FALSE /\ dirty' = (dirty /\ rowId = 0)
        /\ UNCHANGED <<sent, phase, rowId, payload, bufferKind, tools, counterRow, op, pc, ids,
                       target, waiting, creating, disposed>>
        /\ \/ UNCHANGED rows
           \/ rowId # 0 /\ rows' = [rows EXCEPT ![rowId].ops = payload]
    BY <1>3 DEF TextTimer
  <2>2. rows' \in Seq(Row) /\ Len(rows') = Len(rows)
    <3>1. CASE UNCHANGED rows
      BY <3>1 DEF Inv, TypeOK
    <3>2. CASE rowId # 0 /\ rows' = [rows EXCEPT ![rowId].ops = payload]
      <4>1. rows \in Seq(Row) /\ rowId \in 1 .. Len(rows) /\ payload \in SUBSET (1 .. MaxOps)
        BY <3>2 DEF Inv, TypeOK
      <4>2. [rows[rowId] EXCEPT !.ops = payload] \in Row
        <5>1. rows[rowId] \in Row
          BY <4>1, ElementOfSeq
        <5> QED
          BY <4>1, <5>1 DEF Row
      <4>3. rows' = [rows EXCEPT ![rowId] = [rows[rowId] EXCEPT !.ops = payload]]
        BY <3>2
      <4> QED
        BY <4>1, <4>2, <4>3, ExceptSeq
    <3> QED
      BY <2>1, <3>1, <3>2
  <2>3. timer' \in BOOLEAN /\ dirty' \in BOOLEAN
    BY <2>1
  <2> QED
    BY <2>1, <2>2, <2>3, TypePatched DEF Inv, TypeOK, tools
<1>4. ASSUME NEW t \in Ticker, ToolTimer(t) PROVE TypeOK'
  <2>1. /\ Goto(t, "progress") /\ CollectProgress(t)
        /\ UNCHANGED <<sent, phase, rows, text, counterRow, op, target, waiting, creating, disposed>>
    BY <1>4 DEF ToolTimer
  <2>2. /\ ids' \in [Actor -> Seq(Tool)] /\ toolTimer' \in BOOLEAN /\ toolDirty' \in Seq(Tool)
        /\ UNCHANGED <<pendingTools, toolRow, toolOps>> /\ pc' \in [Actor -> StreamPc \cup FinishPc]
    BY <2>1, CollectType, GotoType, TickerActor DEF StreamPc
  <2> QED
    BY <2>1, <2>2, TypePatched DEF Inv, TypeOK, text
<1>5. ASSUME NEW t \in Ticker, TickerPatches(t) PROVE TypeOK'
  <2>1. UNCHANGED <<sent, phase, text, tools, counterRow, op, target, creating, disposed>>
    BY <1>5 DEF TickerPatches
  <2>2. CASE PatchProgress(t) /\ UNCHANGED pc
    <3>1. /\ rows' \in Seq(Row) /\ Len(rows') = Len(rows) /\ waiting' \in Seq(Actor)
          /\ ids' \in [Actor -> Seq(Tool)]
      BY <2>2, PatchProgressLemma, TypedSequences, TickerActor DEF Rewritten
    <3> QED
      BY <2>1, <2>2, <3>1, TypePatched DEF Inv, TypeOK, text, tools
  <2>3. CASE Goto(t, "idle") /\ UNCHANGED <<ids, rows, waiting>>
    <3>1. pc' \in [Actor -> StreamPc \cup FinishPc]
      BY <2>3, GotoType, TickerActor DEF StreamPc
    <3> QED
      BY <2>1, <2>3, <3>1, TypePatched DEF Inv, TypeOK, text, tools
  <2> QED
    BY <1>5, <2>2, <2>3 DEF TickerPatches
<1> QED
  BY <1>1, <1>2, <1>3, <1>4, <1>5 DEF Answer, Timer

\* The head of a sequence of calls
LEMMA FirstPending ==
  ASSUME Inv, pendingTools # <<>>
  PROVE  Head(pendingTools) \in Tool /\ Pending(Head(pendingTools))
<1>1. pendingTools \in Seq(Tool)
  BY DEF Inv, TypeOK
<1>2. 1 \in 1 .. Len(pendingTools) /\ Head(pendingTools) = pendingTools[1]
  BY <1>1
<1> QED
  BY <1>1, <1>2, ElementOfSeq DEF Pending, Range

LEMMA FinishType ==
  ASSUME Inv, NEW f \in Finisher, FinishStep(f)
  PROVE  TypeOK'
<1>1. f \in Actor
  BY DEF Finisher, Actor
<1>2. UNCHANGED <<sent, phase, op, creating>> /\ pc' \in [Actor -> StreamPc \cup FinishPc]
  <2>1. /\ UNCHANGED <<sent, phase, op, creating>>
        /\ UNCHANGED pc \/ \E label \in FinishPc : Goto(f, label)
    BY DEF FinishStep, FinishCalled, FinishStart, FinishCollect, FinishProgress, FinishFlush,
           FinishFlushed, FinishSettle, FinishSettled, At, FinishPc
  <2> QED
    BY <1>1, <2>1, GotoType DEF Inv, TypeOK
<1>3. CASE FinishCalled(f) \/ FinishCollect(f)
  <2>1. UNCHANGED <<rows, text, counterRow, target, waiting, disposed>>
    BY <1>3 DEF FinishCalled, FinishCollect
  <2>2. UNCHANGED <<tools, ids>> \/ CollectProgress(f)
    BY <1>3 DEF FinishCalled, FinishCollect
  <2>3. /\ ids' \in [Actor -> Seq(Tool)] /\ toolTimer' \in BOOLEAN /\ toolDirty' \in Seq(Tool)
        /\ UNCHANGED <<pendingTools, toolRow, toolOps>>
    BY <1>1, <2>2, CollectType DEF tools, Inv, TypeOK
  <2> QED
    BY <1>2, <2>1, <2>3, TypePatched DEF Inv, TypeOK, text
<1>4. CASE FinishStart(f)
  <2>1. /\ UNCHANGED <<rowId, payload, bufferKind, tools, counterRow, ids, target, disposed>>
        /\ timer' = FALSE /\ dirty' \in {dirty, FALSE}
        /\ \/ UNCHANGED <<rows, waiting>>
           \/ rowId # 0 /\ rows' = Patched(rowId, payload, "text") /\ waiting' = Append(waiting, f)
    BY <1>4 DEF FinishStart, Patch, Patched
  <2>2. rows' \in Seq(Row) /\ Len(rows') = Len(rows) /\ waiting' \in Seq(Actor)
    BY <1>1, <2>1, PatchText, TypedSequences DEF Rewritten, Inv, TypeOK
  <2>3. timer' \in BOOLEAN /\ dirty' \in BOOLEAN
    BY <2>1 DEF Inv, TypeOK
  <2> QED
    BY <1>2, <2>1, <2>2, <2>3, TypePatched DEF Inv, TypeOK, tools
<1>5. CASE FinishProgress(f)
  <2>1. UNCHANGED <<text, tools, counterRow, target, disposed>>
    BY <1>5 DEF FinishProgress
  <2>2. PatchProgress(f) \/ UNCHANGED <<ids, rows, waiting>>
    BY <1>5 DEF FinishProgress
  <2>3. /\ rows' \in Seq(Row) /\ Len(rows') = Len(rows) /\ waiting' \in Seq(Actor)
        /\ ids' \in [Actor -> Seq(Tool)]
    BY <1>1, <2>2, PatchProgressLemma, TypedSequences DEF Rewritten, Inv, TypeOK
  <2> QED
    BY <1>2, <2>1, <2>3, TypePatched DEF Inv, TypeOK, text, tools
<1>6. CASE FinishFlush(f)
  <2>1. UNCHANGED <<tools, ids, target, disposed>> /\ counterRow' \in {0, counterRow}
    BY <1>6 DEF FinishFlush
  <2>2. (rowId # 0 /\ FlushText(f)) \/ UNCHANGED <<text, rows, waiting>>
    BY <1>6 DEF FinishFlush
  <2>3. /\ rows' \in Seq(Row) /\ Len(rows') = Len(rows) /\ waiting' \in Seq(Actor)
        /\ UNCHANGED <<rowId, payload, bufferKind>> /\ timer' \in BOOLEAN /\ dirty' \in BOOLEAN
    <3>1. CASE rowId # 0 /\ FlushText(f)
      BY <1>1, <3>1, FlushTextLemma, TypedSequences DEF Rewritten
    <3>2. CASE UNCHANGED <<text, rows, waiting>>
      BY <3>2 DEF Inv, TypeOK, text
    <3> QED
      BY <2>2, <3>1, <3>2
  <2> QED
    BY <1>2, <2>1, <2>3, TypePatched DEF Inv, TypeOK, tools
<1>7. CASE FinishFlushed(f)
  <2>1. /\ rowId' = 0 /\ payload' = {} /\ bufferKind' = "none" /\ counterRow' = 0
        /\ UNCHANGED <<timer, dirty, rows, tools, ids, target, waiting, disposed>>
    BY <1>7 DEF FinishFlushed, ResetText
  <2> QED
    BY <1>2, <2>1, TypePatched DEF Inv, TypeOK, tools
<1>8. CASE FinishSettle(f) /\ pendingTools # <<>>
  <2> DEFINE c == Head(pendingTools)
  <2>1. /\ rows' = Patched(toolRow[c], toolOps[c], "cancelled") /\ waiting' = Append(waiting, f)
        /\ target' = [target EXCEPT ![f] = c]
        /\ UNCHANGED <<text, tools, counterRow, ids, disposed>>
    BY <1>8 DEF FinishSettle, Patch, Patched
  <2>2. c \in Tool /\ Pending(c)
    BY <1>8, FirstPending
  <2> HIDE DEF c
  <2>3. rows' \in Seq(Row) /\ Len(rows') = Len(rows) /\ waiting' \in Seq(Actor)
    BY <1>1, <2>1, <2>2, PatchCall, TypedSequences DEF Rewritten
  <2>4. target' \in [Finisher -> Tool \cup {NoTool}]
    BY <2>1, <2>2 DEF Inv, TypeOK
  <2> QED
    BY <1>2, <2>1, <2>3, <2>4 DEF Inv, TypeOK, text, tools
<1>9. CASE FinishSettle(f) /\ pendingTools = <<>>
  <2>1. disposed' = TRUE /\ UNCHANGED <<rows, target, waiting, text, tools, counterRow, ids>>
    BY <1>9 DEF FinishSettle
  <2> QED
    BY <1>2, <2>1, TypePatched DEF Inv, TypeOK, text, tools
<1>10. CASE FinishSettled(f)
  <2>1. /\ Delete(target[f])
        /\ UNCHANGED <<rows, text, toolTimer, toolDirty, toolRow, toolOps, counterRow,
                       ids, target, waiting, disposed>>
    BY <1>10 DEF FinishSettled
  <2>2. pendingTools' \in Seq(Tool)
    BY <2>1, DeleteLemma DEF Inv, TypeOK
  <2> QED
    BY <1>2, <2>1, <2>2, TypePatched DEF Inv, TypeOK, text
<1> QED
  BY <1>3, <1>4, <1>5, <1>6, <1>7, <1>8, <1>9, <1>10 DEF FinishStep

-----------------------------------------------------------------------------
(* The invariant, and what it gives *)

LEMMA InvInit ==
  ASSUME Init
  PROVE  Inv
<1>1. /\ Len(rows) = 0 /\ rows = <<>> /\ sent = 0 /\ payload = {} /\ rowId = 0 /\ counterRow = 0
      /\ toolRow = [c \in Tool |-> 0] /\ toolOps = [c \in Tool |-> {}] /\ pendingTools = <<>>
      /\ Stage = "idle" /\ op = NoOp
  BY DEF Init, Stage, Actor, Finisher
<1>2. TypeOK
  <2>1. /\ rows \in Seq(Row) /\ toolDirty \in Seq(Tool) /\ pendingTools \in Seq(Tool)
        /\ ids \in [Actor -> Seq(Tool)] /\ waiting \in Seq(Actor)
    BY DEF Init
  <2>2. pc \in [Actor -> StreamPc \cup FinishPc]
    BY DEF Init, StreamPc, FinishPc
  <2>3. op \in Op /\ sent \in 0 .. MaxOps /\ payload \subseteq 1 .. MaxOps
    BY MaxOpsAssumption DEF Init, Op, NoOp, Kind
  <2>4. timer \in BOOLEAN /\ dirty \in BOOLEAN /\ toolTimer \in BOOLEAN /\ creating \in BOOLEAN
        /\ disposed \in BOOLEAN
    BY DEF Init
  <2>5. /\ phase \in [Tool -> {"new", "started", "ended"}] /\ target \in [Finisher -> Tool \cup {NoTool}]
        /\ bufferKind \in {"none", "assistant", "thinking"}
    BY DEF Init
  <2> QED
    BY <1>1, <2>1, <2>2, <2>3, <2>4, <2>5 DEF TypeOK
<1>3. Applying
  BY <1>1 DEF Applying, StreamPc, NoOp
<1>4. Numbered /\ NewRow
  BY <1>1 DEF Numbered, NewRow, Places
<1>5. Pointers
  BY <1>1 DEF Pointers, Pending, Range
<1>6. InOrder /\ TranscriptOrder
  BY <1>1 DEF InOrder, TranscriptOrder, Places
<1> QED
  BY <1>2, <1>3, <1>4, <1>5, <1>6 DEF Inv, OrderInv

LEMMA InvStutter ==
  ASSUME Inv, UNCHANGED vars
  PROVE  Inv'
<1>1. UNCHANGED <<sent, phase, rows, rowId, payload, bufferKind, timer, dirty, toolTimer, toolDirty,
                  pendingTools, toolRow, toolOps, counterRow, op, pc, ids, target, waiting,
                  creating, disposed>>
  BY DEF vars, text, tools
<1>2. TypeOK'
  BY <1>1 DEF Inv, TypeOK
<1>3. OrderInv'
  BY <1>1, SameRows, OtherActor DEF Forget, Pending, Stage
<1> QED
  BY <1>2, <1>3 DEF Inv

LEMMA InvStep ==
  ASSUME Inv, [Next]_vars
  PROVE  Inv'
<1>1. CASE StreamStep
  BY <1>1, StreamOrder, StreamType DEF Inv
<1>2. CASE Answer \/ Timer
  BY <1>2, TimerOrder, TimerType DEF Inv
<1>3. ASSUME NEW f \in Finisher, FinishStep(f) PROVE Inv'
  BY <1>3, FinishOrder, FinishType DEF Inv
<1> QED
  BY <1>1, <1>2, <1>3, InvStutter DEF Next

\* The variables keep their types: what points to a row points to one there is.
THEOREM TypeCorrect == Spec => []TypeOK
<1>1. Init => Inv
  BY InvInit
<1>2. Inv /\ [Next]_vars => Inv'
  BY InvStep
<1>3. Inv => TypeOK
  BY DEF Inv
<1> QED
  BY <1>1, <1>2, <1>3, PTL DEF Spec

\* "Anything else flushes first to preserve transcript order" (apply): whatever
\* the provider sends, the timers do and a stop interrupts, no row of text holds
\* something that was sent after what a later row holds.
THEOREM RowsInOrder == Spec => []TranscriptOrder
<1>1. Init => Inv
  BY InvInit
<1>2. Inv /\ [Next]_vars => Inv'
  BY InvStep
<1>3. Inv => TranscriptOrder
  BY DEF Inv, OrderInv
<1> QED
  BY <1>1, <1>2, <1>3, PTL DEF Spec

-----------------------------------------------------------------------------
(* A turn that no stop interrupts (~MayStop): text stays. *)

\* finish() runs when the stream has ended, and then the stream does nothing.
LEMMA SoloStep ==
  ASSUME Inv, Solo, ~MayStop, [Next]_vars
  PROVE  /\ Solo'
         /\ StreamStep => Stage # "ended" /\ pc'["stop"] = pc["stop"] /\ pc'["end"] = pc["end"]
         /\ \A f \in Finisher : FinishStep(f) => f = "end" /\ Stage = "ended" /\ Stage' = "ended"
<1>1. pc \in [Actor -> StreamPc \cup FinishPc] /\ {"stop", "end", "stream"} \subseteq Actor
  BY DEF Inv, TypeOK, Actor, Finisher
<1>2. ASSUME StreamStep PROVE Stage # "ended" /\ pc'["stop"] = pc["stop"] /\ pc'["end"] = pc["end"]
  <2>1. Stage # "ended"
    BY <1>2 DEF StreamStep, AssistantText, MoreThinking, ToolOp, PlainOp, OtherOp, Delivered, Flushed,
       OpenThinking, StartTool, MergeToolStart, ProgressTool, ToolResult, NewPlan, NewLine, Counter, Body,
       Created, CompleteTool, Completed, StreamEnds, Stage
  <2>2. UNCHANGED pc \/ \E label : Goto("stream", label)
    BY <1>2 DEF StreamStep, AssistantText, MoreThinking, ToolOp, PlainOp, OtherOp, Flushed,
       OpenThinking, StartTool, MergeToolStart, ProgressTool, ToolResult, NewPlan, NewLine, Counter,
       Created, CompleteTool, Completed, StreamEnds
  <2> QED
    BY <1>1, <2>1, <2>2 DEF Goto
<1>3. ASSUME NEW f \in Finisher, FinishStep(f)
      PROVE  f = "end" /\ Stage = "ended" /\ Stage' = "ended" /\ pc'["stop"] = pc["stop"]
  <2>1. f \in {"stop", "end"} /\ (pc[f] # "off" \/ (f = "end" /\ Stage = "ended"))
    BY <1>3 DEF FinishStep, FinishCalled, FinishStart, FinishCollect, FinishProgress, FinishFlush,
       FinishFlushed, FinishSettle, FinishSettled, At, Runs, Finisher, Stage
  <2>2. f = "end" /\ Stage = "ended"
    BY <2>1 DEF Solo
  <2>3. UNCHANGED pc \/ \E label : Goto(f, label)
    BY <1>3 DEF FinishStep, FinishCalled, FinishStart, FinishCollect, FinishProgress, FinishFlush,
           FinishFlushed, FinishSettle, FinishSettled, At
  <2> QED
    BY <1>1, <2>2, <2>3 DEF Goto, Stage
<1>4. ASSUME Answer \/ Timer PROVE pc'["stop"] = pc["stop"] /\ pc'["end"] = pc["end"] /\ Stage' = Stage
  <2>1. UNCHANGED pc \/ \E t \in Ticker : \E label : Goto(t, label)
    BY <1>4 DEF Answer, Timer, PatchAnswered, CreateAnswered, TextTimer, ToolTimer, TickerPatches
  <2> QED
    BY <1>1, <2>1, TickerActor DEF Goto, Stage, Finisher
<1>5. ASSUME StreamStep PROVE Solo'
  BY <1>2, <1>5 DEF Solo, Stage
<1>6. ASSUME Answer \/ Timer PROVE Solo'
  BY <1>4, <1>6 DEF Solo
<1>7. ASSUME NEW f \in Finisher, FinishStep(f) PROVE Solo'
  BY <1>3, <1>7 DEF Solo
<1>8. ASSUME UNCHANGED vars PROVE Solo'
  BY <1>8 DEF vars, text, tools, Solo, Stage
<1>9. Solo'
  BY <1>5, <1>6, <1>7, <1>8 DEF Next
<1> QED
  BY <1>2, <1>3, <1>9

\* While createRow is awaited and no stop runs finish(), the stream stands still.
LEMMA CreatedWaits ==
  ASSUME Inv, Solo, ~MayStop, [Next]_vars, Stage = "created", Stage' = "created"
  PROVE  UNCHANGED <<payload, sent, op>>
<1>1. CASE StreamStep
  <2>1. Created
    BY <1>1 DEF StreamStep, AssistantText, MoreThinking, ToolOp, PlainOp, OtherOp, Delivered, Flushed,
       OpenThinking, StartTool, MergeToolStart, ProgressTool, ToolResult, NewPlan, NewLine, Counter, Body,
       CompleteTool, Completed, StreamEnds, Stage
  <2> QED
    BY <2>1 DEF Created
<1>2. CASE Answer \/ Timer
  BY <1>2 DEF Answer, Timer, PatchAnswered, CreateAnswered, TextTimer, ToolTimer, TickerPatches, text
<1>3. ASSUME NEW f \in Finisher, FinishStep(f) PROVE FALSE
  BY <1>3, SoloStep
<1>4. CASE UNCHANGED vars
  BY <1>4 DEF vars, text
<1> QED
  BY <1>1, <1>2, <1>3, <1>4 DEF Next

LEMMA TextMoves ==
  ASSUME Inv, [Next]_vars
  PROVE  TextMoved
<1>1. CASE UNCHANGED vars
  BY <1>1, SameRows DEF vars, text, TextMoved, Stage
<1> QED
  BY <1>1, StreamOrder, TimerOrder, FinishOrder DEF Next

LEMMA TextStep ==
  ASSUME TextInv, ~MayStop, [Next]_vars
  PROVE  /\ TextInv'
         /\ \A r \in Places : rows[r].status = "text" => rows[r].ops \subseteq rows'[r].ops
<1>1. Inv' /\ Solo' /\ TextMoved
  BY InvStep, SoloStep, TextMoves DEF TextInv
<1>2. Inv /\ Solo /\ Buffered /\ rows \in Seq(Row) /\ rowId \in 0 .. Len(rows) /\ Len(rows) \in Nat
  BY DEF TextInv, Inv, TypeOK
<1>3. Stage = "created" => rowId = 0 /\ rows[Len(rows)].ops = {sent}
  BY <1>2 DEF Inv, OrderInv, Applying, NewRow
<1>4. CASE UNCHANGED <<rowId, payload>> /\ Rewritten
           /\ ((Stage' = Stage /\ UNCHANGED <<sent, op>>) \/ Stage' # "created")
  <2>1. \A r \in Places : rows[r].status = "text" =>
          rows'[r] = rows[r] \/ (r = rowId /\ rows'[r].ops = payload)
    BY <1>2, <1>4 DEF Rewritten, Inv, OrderInv, Pointers
  <2>2. rowId # 0 => rowId \in Places /\ rows[rowId].status = "text" /\ rows[rowId].ops \subseteq payload
    BY <1>2 DEF Inv, OrderInv, Pointers, Buffered, Places
  <2>3. Buffered'
    BY <1>2, <1>4, <2>1, <2>2 DEF Buffered
  <2> QED
    BY <1>1, <2>1, <2>2, <2>3 DEF TextInv, Places
<1>5. CASE rowId = 0 /\ UNCHANGED <<rowId, payload>> /\ OpWritten /\ Stage' # "created"
  <2>1. \A r \in Places : rows[r].status = "text" => rows'[r] = rows[r]
    BY <1>2, <1>5 DEF OpWritten, Inv, OrderInv, Pointers, Places
  <2>2. Buffered'
    BY <1>5 DEF Buffered
  <2> QED
    BY <1>1, <2>1, <2>2 DEF TextInv
<1>6. ASSUME rowId = 0, rowId' = 0, NEW row, rows' = Append(rows, row),
             Stage' = "created" /\ op'.kind \in Prose => payload' = {sent'}
      PROVE  /\ TextInv'
             /\ \A r \in Places : rows[r].status = "text" => rows[r].ops \subseteq rows'[r].ops
  <2>1. Buffered'
    BY <1>6 DEF Buffered
  <2>2. \A r \in 1 .. Len(rows) : rows'[r] = rows[r]
    BY <1>2, <1>6
  <2> QED
    BY <1>1, <2>1, <2>2 DEF TextInv, Places
<1>7. CASE rowId' = 0 /\ payload' = {} /\ UNCHANGED rows /\ (Stage' = Stage \/ Stage' # "created")
  <2>1. CASE Stage' # "created"
    BY <1>1, <1>7, <2>1 DEF TextInv, Buffered
  <2>2. CASE Stage = "created" /\ Stage' = "created"
    <3>1. UNCHANGED <<payload, sent, op>>
      BY <1>2, <2>2, CreatedWaits
    <3> QED
      BY <1>1, <1>2, <1>7, <2>2, <3>1 DEF TextInv, Buffered
  <2> QED
    BY <1>7, <2>1, <2>2
<1>8. CASE rowId # 0 /\ payload \subseteq payload' /\ UNCHANGED <<rowId, rows>> /\ Stage' # "created"
  BY <1>1, <1>2, <1>8 DEF TextInv, Buffered
<1>9. CASE /\ UNCHANGED <<rows, payload>> /\ Stage = "created" /\ Stage' = "idle"
           /\ rowId' = IF op.kind \in Prose THEN Len(rows) ELSE 0
  BY <1>1, <1>2, <1>3, <1>9 DEF TextInv, Buffered
<1> QED
  BY <1>1, <1>4, <1>5, <1>6, <1>7, <1>8, <1>9 DEF TextMoved

\* Text never disappears from a row: when no stop runs finish() beside the
\* stream, the buffer holds all that its row shows whenever it is patched
\* (scheduleAssistantPatch, flushAssistant, finish).
THEOREM TextStays == ASSUME ~MayStop PROVE Spec => TextGrows
<1>1. Init => TextInv
  BY InvInit DEF TextInv, Init, Solo, Buffered, Stage, Actor, Finisher
<1>2. TextInv /\ [Next]_vars => TextInv'
  BY TextStep
<1>3. TextInv /\ [Next]_vars =>
        [\A r \in 1..Len(rows) :
           rows[r].status = "text" => rows[r].ops \subseteq rows'[r].ops]_vars
  BY TextStep DEF Places
<1> QED
  BY <1>1, <1>2, <1>3, PTL DEF Spec, TextGrows

-----------------------------------------------------------------------------
(* A turn that no stop interrupts, of a provider without progress payloads *)
(* (~Progress): what was pending is settled once, and nothing is lost.       *)

LEMMA NoneLeft ==
  ASSUME NoProgress, NEW a \in Actor
  PROVE  ProgressLeft(a) = {}
BY DEF NoProgress, ProgressLeft

LEMMA ProgressStep ==
  ASSUME Inv, NoProgress, ~Progress, [Next]_vars
  PROVE  NoProgress'
<1>1. ASSUME NEW a \in Actor, CollectProgress(a)
      PROVE  toolDirty' = <<>> /\ ~toolTimer' /\ \A b \in Actor : ids'[b] = <<>>
  BY <1>1 DEF CollectProgress, NoProgress, Inv, TypeOK
<1>2. \A a \in Actor : ~PatchProgress(a)
  BY NoneLeft DEF PatchProgress
<1>3. ASSUME StreamStep PROVE NoProgress'
  <2>1. UNCHANGED op \/ \E kind, c : Delivered(kind, c) /\ kind # "progress"
    BY <1>3 DEF StreamStep, AssistantText, MoreThinking, ToolOp, Advances, PlainOp, OtherOp, Flushed,
       OpenThinking, StartTool, MergeToolStart, ProgressTool, ToolResult, NewPlan, NewLine, Counter, Body,
       Created, CompleteTool, Completed, StreamEnds
  <2>2. op'.kind # "progress"
    BY <2>1 DEF Delivered, NoProgress
  <2>3. UNCHANGED <<toolDirty, toolTimer, ids>> \/ CollectProgress("stream")
    BY <1>2, <1>3 DEF StreamStep, AssistantText, MoreThinking, ToolOp, PlainOp, Flushed,
       OpenThinking, StartTool, MergeToolStart, ProgressTool, ToolResult, NewPlan, NewLine, Counter, Body,
       Created, CompleteTool, Completed, StreamEnds, tools, NoProgress, Actor
  <2>4. UNCHANGED pc \/ \E label : Goto("stream", label)
    BY <1>3 DEF StreamStep, AssistantText, MoreThinking, ToolOp, PlainOp, OtherOp, Flushed,
       OpenThinking, StartTool, MergeToolStart, ProgressTool, ToolResult, NewPlan, NewLine, Counter,
       Created, CompleteTool, Completed, StreamEnds
  <2>5. \A t \in Ticker : pc'[t] = "idle"
    BY <2>4, TickerActor DEF Goto, NoProgress, Inv, TypeOK
  <2>6. toolDirty' = <<>> /\ ~toolTimer' /\ \A b \in Actor : ids'[b] = <<>>
    <3>1. CASE UNCHANGED <<toolDirty, toolTimer, ids>>
      BY <3>1 DEF NoProgress
    <3>2. CASE CollectProgress("stream")
      BY <1>1, <3>2 DEF Actor
    <3> QED
      BY <2>3, <3>1, <3>2
  <2> QED
    BY <2>2, <2>5, <2>6 DEF NoProgress
<1>4. ASSUME Answer \/ Timer PROVE NoProgress'
  <2>1. \A t \in Ticker : ~ToolTimer(t) /\ ~TickerPatches(t)
    BY DEF NoProgress, ToolTimer, TickerPatches, Runs
  <2>2. UNCHANGED <<op, toolDirty, toolTimer, ids, pc>>
    BY <1>4, <2>1 DEF Answer, Timer, PatchAnswered, CreateAnswered, TextTimer, tools
  <2> QED
    BY <2>2 DEF NoProgress
<1>5. ASSUME NEW f \in Finisher, FinishStep(f) PROVE NoProgress'
  <2>1. UNCHANGED op /\ f \in Actor /\ f \notin Ticker
    BY <1>5, TickerActor DEF FinishStep, FinishCalled, FinishStart, FinishCollect, FinishProgress, FinishFlush,
       FinishFlushed, FinishSettle, FinishSettled, At, Actor, Finisher
  <2>2. UNCHANGED <<toolDirty, toolTimer, ids>> \/ CollectProgress(f)
    BY <1>2, <1>5, <2>1 DEF FinishStep, FinishCalled, FinishStart, FinishCollect, FinishProgress,
       FinishFlush, FinishFlushed, FinishSettle, FinishSettled, tools
  <2>3. UNCHANGED pc \/ \E label : Goto(f, label)
    BY <1>5 DEF FinishStep, FinishCalled, FinishStart, FinishCollect, FinishProgress, FinishFlush,
       FinishFlushed, FinishSettle, FinishSettled, At
  <2>4. \A t \in Ticker : pc'[t] = "idle"
    BY <2>1, <2>3, TickerActor DEF Goto, NoProgress, Inv, TypeOK
  <2> QED
    BY <1>1, <2>1, <2>2, <2>4 DEF NoProgress
<1>6. ASSUME UNCHANGED vars PROVE NoProgress'
  BY <1>6 DEF vars, tools, NoProgress
<1> QED
  BY <1>3, <1>4, <1>5, <1>6 DEF Next

\* What a step does to the rows that it does not complete
RowKept(r) ==
  \/ rows'[r] = rows[r]
  \/ /\ rows[r].status # "running"
     /\ rows'[r].status = rows[r].status /\ rows'[r].tool = rows[r].tool
     /\ rows[r].ops \subseteq rows'[r].ops

RowsKept == Len(rows') = Len(rows) /\ \A r \in Places : RowKept(r)

\* What every step does: rows are not removed, show what they showed, and a
\* result stays.
Grows ==
  /\ Len(rows) <= Len(rows')
  /\ \A r \in Places : /\ rows[r].ops \subseteq rows'[r].ops
                       /\ rows[r].status = "completed" => rows'[r].status = "completed"

Ending(c) == pc["end"] = "settled" /\ target["end"] = c

LEMMA PlaceOfCall ==
  ASSUME Inv, NEW c \in Tool, Pending(c)
  PROVE  toolRow[c] \in Places /\ toolOps[c] \in SUBSET (1 .. MaxOps)
<1>1. toolRow[c] \in 0 .. Len(rows) /\ toolRow[c] # 0 /\ Len(rows) \in Nat
  BY DEF Inv, TypeOK, OrderInv, Pointers
<1> QED
  BY <1>1 DEF Places, Inv, TypeOK

\* A step that is not about a call
LEMMA KeptCalls ==
  ASSUME Inv, Calls, UNCHANGED <<toolRow, toolOps, pendingTools>>,
         \A c \in Tool : Ending(c)' <=> Ending(c),
         \/ RowsKept /\ Stage' = Stage /\ UNCHANGED op
         \/ /\ Stage \notin {"created", "completed"} /\ Stage' # "completed"
            /\ \/ RowsKept /\ Stage' # "created"
               \/ /\ op'.kind # "start"
                  /\ \E row : row.status # "running" /\ rows' = Append(rows, row)
  PROVE  Calls' /\ Grows
<1>1. rows \in Seq(Row) /\ Len(rows) \in Nat /\ \A c : Pending(c)' <=> Pending(c)
  BY DEF Inv, TypeOK, Pending
<1>2. \A c \in Tool : Pending(c) => toolRow[c] \in Places
  BY PlaceOfCall
<1>3. \A c \in Tool : Settled(c)' <=> Settled(c)
  BY DEF Settled, Ending, Stage
<1>4. Once'
  BY DEF Calls, Once
<1>5. CASE RowsKept
  <2>1. Grows
    BY <1>1, <1>5 DEF RowsKept, RowKept, Grows
  <2>2. Stage' = "created" /\ op'.kind = "start" =>
          Stage = "created" /\ UNCHANGED op /\ Len(rows) \in Places
    BY <1>1, CreatedId
  <2>3. \A r \in Places : /\ rows'[r].tool = rows[r].tool
                          /\ rows'[r].status = "running" <=> rows[r].status = "running"
                          /\ rows[r].status = "running" => rows'[r] = rows[r]
    BY <1>5 DEF RowsKept, RowKept
  <2>4. Stage' = "created" /\ op'.kind = "start" =>
          /\ rows'[Len(rows')].tool = op'.tool /\ rows'[Len(rows')].status = "running"
          /\ ~Pending(op.tool)'
    BY <1>1, <1>5, <2>2, <2>3 DEF Calls, RowsKept
  <2>5. \A c \in Tool : Pending(c)' =>
          /\ rows'[toolRow'[c]].tool = c
          /\ \/ rows'[toolRow'[c]].status = "running" /\ rows'[toolRow'[c]].ops \subseteq toolOps'[c]
             \/ Settled(c)'
    BY <1>1, <1>2, <1>3, <2>3 DEF Calls
  <2>6. \A r \in Places' : rows'[r].status = "running" =>
          \/ \E c \in Tool : Pending(c)' /\ toolRow'[c] = r /\ ~Settled(c)'
          \/ Stage' = "created" /\ op'.kind = "start" /\ r = Len(rows')
    <3>1. ASSUME NEW r \in Places, rows[r].status = "running"
          PROVE  \/ \E c \in Tool : Pending(c)' /\ toolRow'[c] = r /\ ~Settled(c)'
                 \/ Stage' = "created" /\ op'.kind = "start" /\ r = Len(rows')
      <4>1. CASE \E c \in Tool : Pending(c) /\ toolRow[c] = r /\ ~Settled(c)
        BY <1>1, <1>3, <4>1
      <4>2. CASE Stage = "created" /\ op.kind = "start" /\ r = Len(rows)
        BY <1>5, <4>2 DEF RowsKept
      <4> QED
        BY <3>1, <4>1, <4>2 DEF Calls
    <3> QED
      BY <1>5, <2>3, <3>1 DEF RowsKept, Places
  <2> QED
    BY <1>4, <2>1, <2>4, <2>5, <2>6 DEF Calls, Stage
<1>6. ASSUME NEW row, row.status # "running", rows' = Append(rows, row),
             Stage \notin {"created", "completed"}, op'.kind # "start"
      PROVE  Calls' /\ Grows
  <2>1. /\ Len(rows') = Len(rows) + 1 /\ rows'[Len(rows) + 1] = row
        /\ \A r \in Places : rows'[r] = rows[r]
    BY <1>1, <1>6 DEF Places
  <2>2. Grows
    BY <1>1, <2>1 DEF Grows
  <2>3. \A c \in Tool : Pending(c)' =>
          /\ rows'[toolRow'[c]].tool = c
          /\ \/ rows'[toolRow'[c]].status = "running" /\ rows'[toolRow'[c]].ops \subseteq toolOps'[c]
             \/ Settled(c)'
    BY <1>1, <1>2, <1>3, <2>1 DEF Calls
  <2>4. ASSUME NEW r \in Places', rows'[r].status = "running"
        PROVE  \E c \in Tool : Pending(c)' /\ toolRow'[c] = r /\ ~Settled(c)'
    <3>1. r \in Places /\ rows[r].status = "running"
      BY <1>1, <1>6, <2>1, <2>4 DEF Places
    <3>2. PICK c \in Tool : Pending(c) /\ toolRow[c] = r /\ ~Settled(c)
      BY <1>6, <3>1 DEF Calls
    <3> QED
      BY <1>1, <1>3, <3>2
  <2> QED
    BY <1>4, <1>6, <2>2, <2>3, <2>4 DEF Calls, Stage
<1> QED
  BY <1>5, <1>6

\* A patch of a call that still runs: by more input, its result, or finish().
LEMMA PatchedCall ==
  ASSUME Inv, Calls, NEW c \in Tool, Pending(c),
         \A d \in Tool : ~Settled(d), Stage # "created", Stage' # "created",
         NEW ops \in SUBSET (1 .. MaxOps), toolOps[c] \subseteq ops,
         NEW status \in {"running", "completed", "cancelled"},
         rows' = Patched(toolRow[c], ops, status), UNCHANGED <<toolRow, pendingTools>>,
         \A d \in Tool : d # c => toolOps'[d] = toolOps[d],
         \A d \in Tool : Settled(d)' <=> status # "running" /\ d = c,
         status = "running" => toolOps'[c] = ops
  PROVE  Calls' /\ Grows /\ rows'[toolRow[c]].ops = ops
<1>1. rows \in Seq(Row) /\ Len(rows) \in Nat /\ \A d : Pending(d)' <=> Pending(d)
  BY DEF Inv, TypeOK, Pending
<1>2. \A d \in Tool : Pending(d) =>
        /\ toolRow[d] \in Places
        /\ rows[toolRow[d]].tool = d /\ rows[toolRow[d]].status = "running"
        /\ rows[toolRow[d]].ops \subseteq toolOps[d]
  BY PlaceOfCall DEF Calls
<1>3. /\ Len(rows') = Len(rows)
      /\ \A q \in Places : q # toolRow[c] => rows'[q] = rows[q]
      /\ rows'[toolRow[c]] = [ops |-> ops, tool |-> rows[toolRow[c]].tool, status |-> status]
  <2>1. toolRow[c] \in 1 .. Len(rows)
    BY <1>2 DEF Places
  <2>2. CASE status = "running"
    BY <1>1, <2>1, <2>2, PatchedLemma DEF Places
  <2>3. CASE status = "completed"
    BY <1>1, <2>1, <2>3, PatchedLemma, ZenonT(60) DEF Places
  <2>4. CASE status = "cancelled"
    BY <1>1, <2>1, <2>4, PatchedLemma, ZenonT(60) DEF Places
  <2> QED
    BY <2>2, <2>3, <2>4
<1>4. /\ rows'[toolRow[c]].ops = ops /\ rows'[toolRow[c]].tool = c
      /\ rows'[toolRow[c]].status = status
  BY <1>2, <1>3
<1>5. Grows
  <2>1. ASSUME NEW r \in Places
        PROVE  /\ rows[r].ops \subseteq rows'[r].ops
               /\ rows[r].status = "completed" => rows'[r].status = "completed"
    BY <1>2, <1>3, <1>4
  <2> QED
    BY <1>1, <1>3, <2>1 DEF Grows
<1>6. Once'
  BY DEF Calls, Once
<1>7. ASSUME NEW d \in Tool, Pending(d)'
      PROVE  /\ rows'[toolRow'[d]].tool = d
             /\ \/ rows'[toolRow'[d]].status = "running" /\ rows'[toolRow'[d]].ops \subseteq toolOps'[d]
                \/ Settled(d)'
  <2>1. CASE d = c
    BY <1>4, <2>1
  <2>2. CASE d # c
    <3>1. toolRow[d] \in Places /\ toolRow[d] # toolRow[c]
      BY <1>1, <1>2, <1>7, <2>2
    <3> QED
      BY <1>1, <1>2, <1>3, <1>7, <2>2, <3>1
  <2> QED
    BY <2>1, <2>2
<1>8. ASSUME NEW r \in Places', rows'[r].status = "running"
      PROVE  \E d \in Tool : Pending(d)' /\ toolRow'[d] = r /\ ~Settled(d)'
  <2>1. CASE r = toolRow[c]
    BY <1>1, <1>4, <1>8, <2>1
  <2>2. CASE r # toolRow[c]
    <3>1. r \in Places /\ rows[r].status = "running"
      BY <1>3, <1>8, <2>2 DEF Places
    <3>2. PICK d \in Tool : Pending(d) /\ toolRow[d] = r
      BY <3>1 DEF Calls
    <3> QED
      BY <1>1, <2>2, <3>2
  <2> QED
    BY <2>1, <2>2
<1> QED
  BY <1>4, <1>5, <1>6, <1>7, <1>8 DEF Calls, Stage

\* The call that was settled stops being pending.
LEMMA DeletedCall ==
  ASSUME Inv, Calls, NEW c, Delete(c), UNCHANGED <<rows, toolRow, toolOps>>,
         \A d \in Tool : Settled(d) => d = c, \A d \in Tool : ~Settled(d)',
         c \in Tool /\ Pending(c) => Settled(c), Stage # "created", Stage' # "created"
  PROVE  Calls' /\ Grows
<1>1. /\ \A d : Pending(d)' => Pending(d) /\ d # c
      /\ \A d : Pending(d) /\ d # c => Pending(d)'
      /\ Once'
  BY DeleteLemma DEF Inv, TypeOK, Calls
<1>2. Grows
  BY DEF Grows, Inv, TypeOK
<1>3. ASSUME NEW r \in Places, rows[r].status = "running"
      PROVE  \E d \in Tool : Pending(d)' /\ toolRow[d] = r /\ ~Settled(d)'
  <2>1. PICK d \in Tool : Pending(d) /\ toolRow[d] = r /\ ~Settled(d)
    BY <1>3 DEF Calls
  <2> QED
    BY <1>1, <2>1
<1> QED
  BY <1>1, <1>2, <1>3 DEF Calls, Stage, Places

\* A call is pending when the row of its start is created.
LEMMA CreatedCalls ==
  ASSUME Inv, Solo, Calls, Created
  PROVE  Calls' /\ Grows
<1>1. /\ Stage = "created" /\ Stage' = "idle" /\ UNCHANGED <<op, rows, target>>
      /\ pc'["end"] = pc["end"] /\ pc["end"] = "off"
      /\ \A d \in Tool : ~Settled(d) /\ ~Settled(d)'
  BY DEF Created, Goto, Inv, TypeOK, Stage, Actor, Finisher, Solo, Settled
<1>2. Len(rows) \in Places /\ op.n = sent /\ NewId = Len(rows)
  BY <1>1, CreatedId
<1>3. Grows
  BY <1>1 DEF Grows, Inv, TypeOK
<1>4. CASE op.kind # "start"
  <2>1. UNCHANGED <<toolRow, toolOps, pendingTools>>
    BY <1>4 DEF Created
  <2> QED
    BY <1>1, <1>3, <1>4, <2>1 DEF Calls, Once, Pending, Stage, Places
<1>5. CASE op.kind = "start"
  <2>1. /\ pendingTools' = Append(pendingTools, op.tool)
        /\ toolRow' = [toolRow EXCEPT ![op.tool] = Len(rows)]
        /\ toolOps' = [toolOps EXCEPT ![op.tool] = {sent}]
    BY <1>2, <1>5 DEF Created
  <2>2. /\ op.tool \in Tool /\ ~Pending(op.tool) /\ rows[Len(rows)].tool = op.tool
        /\ rows[Len(rows)].status = "running" /\ rows[Len(rows)].ops = {sent}
    BY <1>1, <1>5 DEF Inv, OrderInv, Applying, NewRow, Calls
  <2>3. (\A d : Pending(d)' <=> Pending(d) \/ d = op.tool) /\ Once'
    BY <2>1, <2>2, AddLemma DEF Inv, TypeOK, Calls
  <2>4. \A d \in Tool : /\ toolRow'[d] = IF d = op.tool THEN Len(rows) ELSE toolRow[d]
                        /\ toolOps'[d] = IF d = op.tool THEN {sent} ELSE toolOps[d]
    BY <2>1, <2>2 DEF Inv, TypeOK
  <2>5. ASSUME NEW d \in Tool, Pending(d)'
        PROVE  /\ rows[toolRow'[d]].tool = d
               /\ rows[toolRow'[d]].status = "running" /\ rows[toolRow'[d]].ops \subseteq toolOps'[d]
    BY <1>1, <2>2, <2>3, <2>4, <2>5 DEF Calls
  <2>6. ASSUME NEW r \in Places, rows[r].status = "running"
        PROVE  \E d \in Tool : Pending(d)' /\ toolRow'[d] = r
    <3>1. CASE r = Len(rows)
      BY <2>2, <2>3, <2>4, <3>1
    <3>2. CASE r # Len(rows)
      <4>1. PICK d \in Tool : Pending(d) /\ toolRow[d] = r
        BY <2>6, <3>2 DEF Calls
      <4> QED
        BY <2>2, <2>3, <2>4, <4>1
    <3> QED
      BY <3>1, <3>2
  <2> QED
    BY <1>1, <1>3, <2>3, <2>5, <2>6 DEF Calls, Stage, Places
<1> QED
  BY <1>4, <1>5

LEMMA AppendedRow ==
  ASSUME Inv, NEW row, rows' = Append(rows, row)
  PROVE  /\ Grows
         /\ Len(rows) \in Nat /\ Len(rows') = Len(rows) + 1 /\ rows'[Len(rows')] = row
         /\ \A r \in Places : rows'[r] = rows[r]
<1>1. rows \in Seq(Row)
  BY DEF Inv, TypeOK
<1>2. /\ Len(rows) \in Nat /\ Len(rows') = Len(rows) + 1 /\ rows'[Len(rows) + 1] = row
      /\ \A r \in 1 .. Len(rows) : rows'[r] = rows[r]
  BY <1>1
<1> QED
  BY <1>2 DEF Grows, Places

\* A new row: of a call that starts, and of a result without a start
LEMMA StartedCalls ==
  ASSUME Inv, Calls, StartTool, \A d \in Tool : ~Settled(d) /\ ~Settled(d)'
  PROVE  Calls' /\ Grows
<1> DEFINE row == [ops |-> {op.n}, tool |-> op.tool, status |-> "running"]
<1>1. /\ Stage = "body" /\ Stage' = "created" /\ op.kind = "start" /\ ~Pending(op.tool)
      /\ rows' = Append(rows, row) /\ UNCHANGED <<op, toolRow, toolOps, pendingTools>>
  BY DEF StartTool, Body, Create, tools, Stage, Goto, Inv, TypeOK, Actor
<1>2. row.tool = op.tool /\ row.status = "running"
  OBVIOUS
<1> HIDE DEF row
<1>3. /\ Len(rows) \in Nat /\ Len(rows') = Len(rows) + 1 /\ rows'[Len(rows')] = row
      /\ \A r \in Places : rows'[r] = rows[r]
      /\ \A d : Pending(d)' <=> Pending(d)
  BY <1>1 DEF Places, Inv, TypeOK, Pending
<1>4. Grows
  BY <1>3 DEF Grows
<1>5. ASSUME NEW d \in Tool, Pending(d)'
      PROVE  /\ rows'[toolRow'[d]].tool = d
             /\ rows'[toolRow'[d]].status = "running" /\ rows'[toolRow'[d]].ops \subseteq toolOps'[d]
  <2>1. toolRow[d] \in Places
    BY <1>3, <1>5, PlaceOfCall
  <2>2. /\ rows[toolRow[d]].tool = d /\ rows[toolRow[d]].status = "running"
        /\ rows[toolRow[d]].ops \subseteq toolOps[d]
    BY <1>3, <1>5 DEF Calls
  <2>3. rows'[toolRow'[d]] = rows[toolRow[d]] /\ toolOps'[d] = toolOps[d]
    BY <1>1, <1>3, <2>1
  <2> QED
    BY <2>2, <2>3
<1>6. ASSUME NEW r \in Places', rows'[r].status = "running", r # Len(rows')
      PROVE  \E d \in Tool : Pending(d)' /\ toolRow'[d] = r
  <2>1. r \in Places /\ rows[r].status = "running"
    BY <1>3, <1>6 DEF Places
  <2>2. PICK d \in Tool : Pending(d) /\ toolRow[d] = r
    BY <1>1, <2>1 DEF Calls
  <2> QED
    BY <1>1, <1>3, <2>2
<1>7. Once' /\ ~Pending(op.tool)'
  BY <1>1, <1>3 DEF Calls, Once, Pending
<1> QED
  BY <1>1, <1>2, <1>3, <1>4, <1>5, <1>6, <1>7 DEF Calls, Stage

LEMMA ResultCalls ==
  ASSUME Inv, Calls, Stage = "result", Stage' = "completed", ~Pending(op.tool),
         rows' = Append(rows, [ops |-> {op.n}, tool |-> op.tool, status |-> "completed"]),
         UNCHANGED <<op, toolRow, toolOps, pendingTools>>,
         \A d \in Tool : Settled(d)' <=> d = op.tool, \A d \in Tool : ~Settled(d)
  PROVE  Calls' /\ Grows
<1> DEFINE row == [ops |-> {op.n}, tool |-> op.tool, status |-> "completed"]
<1>1. row.status = "completed" /\ rows' = Append(rows, row)
  OBVIOUS
<1> HIDE DEF row
<1>2. /\ Len(rows) \in Nat /\ Len(rows') = Len(rows) + 1 /\ rows'[Len(rows')] = row
      /\ \A r \in Places : rows'[r] = rows[r]
      /\ \A d : Pending(d)' <=> Pending(d)
  <2>1. \A d : Pending(d)' <=> Pending(d)
    BY DEF Pending
  <2> QED
    BY <1>1, <2>1, AppendedRow
<1>3. Grows
  BY <1>1, AppendedRow
<1>4. ASSUME NEW d \in Tool, Pending(d)'
      PROVE  /\ rows'[toolRow'[d]].tool = d
             /\ rows'[toolRow'[d]].status = "running" /\ rows'[toolRow'[d]].ops \subseteq toolOps'[d]
  <2>1. toolRow[d] \in Places
    BY <1>2, <1>4, PlaceOfCall
  <2>2. /\ rows[toolRow[d]].tool = d /\ rows[toolRow[d]].status = "running"
        /\ rows[toolRow[d]].ops \subseteq toolOps[d]
    BY <1>2, <1>4 DEF Calls
  <2>3. rows'[toolRow'[d]] = rows[toolRow[d]] /\ toolOps'[d] = toolOps[d]
    BY <1>2, <2>1
  <2> QED
    BY <2>2, <2>3
<1>5. ASSUME NEW r \in Places', rows'[r].status = "running"
      PROVE  \E d \in Tool : Pending(d)' /\ toolRow'[d] = r /\ ~Settled(d)'
  <2>1. r \in Places /\ rows[r].status = "running"
    BY <1>1, <1>2, <1>5 DEF Places
  <2>2. PICK d \in Tool : Pending(d) /\ toolRow[d] = r
    BY <2>1 DEF Calls
  <2> QED
    BY <1>2, <2>2
<1>6. Once'
  BY DEF Calls, Once
<1> QED
  BY <1>3, <1>4, <1>5, <1>6 DEF Calls, Stage

LEMMA SameRowsKept ==
  ASSUME UNCHANGED rows
  PROVE  RowsKept
BY DEF RowsKept, RowKept

LEMMA TextRowsKept ==
  ASSUME TextInv, rowId # 0,
         \/ rows' = Patched(rowId, payload, "text")
         \/ rows' = [rows EXCEPT ![rowId].ops = payload]
  PROVE  RowsKept /\ payload \subseteq rows'[rowId].ops
<1>1. /\ rows \in Seq(Row) /\ rowId \in 1 .. Len(rows) /\ payload \in SUBSET (1 .. MaxOps)
      /\ rows[rowId].status = "text" /\ rows[rowId].ops \subseteq payload
      /\ rows[rowId] \in Row /\ DOMAIN rows = 1 .. Len(rows)
  BY ElementOfSeq DEF TextInv, Buffered, Inv, TypeOK, OrderInv, Pointers
<1>2. CASE rows' = Patched(rowId, payload, "text")
  <2>1. /\ Len(rows') = Len(rows)
        /\ \A q \in 1 .. Len(rows) : q # rowId => rows'[q] = rows[q]
        /\ rows'[rowId] = [ops |-> payload, tool |-> rows[rowId].tool, status |-> "text"]
    BY <1>1, <1>2, PatchedLemma, ZenonT(60)
  <2>2. RowKept(rowId) /\ rows'[rowId].ops = payload
    BY <1>1, <2>1 DEF RowKept
  <2> QED
    BY <2>1, <2>2 DEF RowsKept, RowKept, Places
<1>3. CASE rows' = [rows EXCEPT ![rowId].ops = payload]
  <2>1. rows' = [rows EXCEPT ![rowId] = [rows[rowId] EXCEPT !.ops = payload]]
    BY <1>3
  <2>2. /\ rows'[rowId] = [rows[rowId] EXCEPT !.ops = payload] /\ Len(rows') = Len(rows)
        /\ \A q \in 1 .. Len(rows) : q # rowId => rows'[q] = rows[q]
    BY <1>1, <2>1
  <2>3. RowKept(rowId) /\ rows'[rowId].ops = payload
    BY <1>1, <2>2 DEF RowKept, Row
  <2> QED
    BY <2>2, <2>3 DEF RowsKept, RowKept, Places
<1> QED
  BY <1>2, <1>3

LEMMA FlushTextKept ==
  ASSUME TextInv, rowId # 0, NEW a, FlushText(a)
  PROVE  RowsKept /\ payload \subseteq rows'[rowId].ops /\ UNCHANGED <<rowId, payload>>
<1>1. rows' = Patched(rowId, payload, "text") /\ UNCHANGED <<rowId, payload>>
  BY DEF FlushText, Patch, Patched
<1> QED
  BY <1>1, TextRowsKept

\* The stream applies an op only while finish() has not been called.
LEMMA StreamCalls ==
  ASSUME TextInv, NoProgress, Calls, ~MayStop, ~Progress, StreamStep
  PROVE  Calls' /\ Grows
<1>1. Inv /\ Solo /\ Stage # "ended" /\ pc["end"] = "off" /\ UNCHANGED target
  <2>1. Inv /\ Solo /\ Stage # "ended"
    BY SoloStep DEF TextInv, Next
  <2>2. UNCHANGED target
    BY DEF StreamStep, AssistantText, MoreThinking, ToolOp, PlainOp, Flushed,
       OpenThinking, StartTool, MergeToolStart, ProgressTool, ToolResult, NewPlan, NewLine, Counter, Body,
       Created, CompleteTool, Completed, StreamEnds
  <2> QED
    BY <2>1, <2>2 DEF Solo
<1>2. pc'["end"] = pc["end"] /\ \A d \in Tool : Ending(d)' <=> Ending(d)
  BY <1>1, SoloStep DEF Ending, Next
<1>3. /\ \A d \in Tool : Settled(d) <=> Stage = "completed" /\ op.tool = d
      /\ \A d \in Tool : Settled(d)' <=> Stage' = "completed" /\ op'.tool = d
  BY <1>1, <1>2 DEF Settled, Stage
<1>4. Stage \in {"body", "result"} => op.n = sent /\ sent \in 1 .. MaxOps
  BY <1>1, MaxOpsAssumption DEF Inv, OrderInv, Applying, TypeOK
<1>5. CASE AssistantText \/ MoreThinking
  <2>1. Stage = "idle" /\ Stage' \in {"idle", "created"} /\ op'.kind # "start"
        /\ UNCHANGED <<toolRow, toolOps, pendingTools>>
    BY <1>1, <1>5 DEF AssistantText, MoreThinking, Delivered, tools, Stage, Goto, Inv, TypeOK, Actor
  <2>2. \/ UNCHANGED <<rows, pc>>
        \/ \E row : row.status # "running" /\ rows' = Append(rows, row)
    <3>1. [ops |-> {sent + 1}, tool |-> NoTool, status |-> "text"].status # "running"
      OBVIOUS
    <3> QED
      BY <1>5, <3>1 DEF AssistantText, MoreThinking, Create
  <2>3. UNCHANGED <<rows, pc>> => RowsKept /\ Stage' # "created"
    BY <2>1, SameRowsKept DEF Stage
  <2> QED
    BY <1>1, <1>2, <2>1, <2>2, <2>3, KeptCalls
<1>6. ASSUME NEW kind, NEW c, OtherOp(kind, c), UNCHANGED tools
      PROVE  Calls' /\ Grows
  <2>1. Stage = "idle" /\ Stage' \in {"flushed", "body"} /\ UNCHANGED <<toolRow, toolOps, pendingTools>>
    BY <1>1, <1>6 DEF OtherOp, Delivered, tools, Stage, Goto, Inv, TypeOK, Actor
  <2>2. RowsKept
    BY <1>6, SameRowsKept, FlushTextKept DEF OtherOp
  <2> QED
    BY <1>1, <1>2, <2>1, <2>2, KeptCalls
<1>7. CASE Flushed \/ ToolResult \/ StreamEnds
  <2>1. Stage \in {"flushed", "body", "idle"} /\ Stage' \in {"body", "result", "ended"}
    BY <1>1, <1>7 DEF Flushed, ToolResult, Body, StreamEnds, Stage, Goto, Inv, TypeOK, Actor
  <2>2. UNCHANGED <<rows, toolRow, toolOps, pendingTools>>
    BY <1>7 DEF Flushed, ToolResult, CollectProgress, StreamEnds, tools
  <2> QED
    BY <1>1, <1>2, <2>1, <2>2, SameRowsKept, KeptCalls
<1>8. ASSUME Stage = "body", NEW status \in {"text", "line", "counter"}, op'.kind # "start",
             rows' = Append(rows, [ops |-> {op.n}, tool |-> NoTool, status |-> status]),
             Stage' = "created", UNCHANGED <<toolRow, toolOps, pendingTools>>
      PROVE  Calls' /\ Grows
  <2>1. [ops |-> {op.n}, tool |-> NoTool, status |-> status].status # "running"
    OBVIOUS
  <2>2. \E row : row.status # "running" /\ rows' = Append(rows, row)
    BY <1>8, <2>1
  <2> QED
    BY <1>1, <1>2, <1>8, <2>2, KeptCalls
<1>9. CASE OpenThinking \/ NewPlan \/ NewLine
  <2>1. /\ Stage = "body" /\ Stage' = "created" /\ op.kind # "start" /\ UNCHANGED op
        /\ UNCHANGED <<toolRow, toolOps, pendingTools>>
        /\ \E status \in {"text", "line", "counter"} :
             rows' = Append(rows, [ops |-> {op.n}, tool |-> NoTool, status |-> status])
    BY <1>1, <1>9 DEF OpenThinking, NewPlan, NewLine, Body, Create, tools, Stage, Goto, Inv, TypeOK, Actor
  <2> QED
    BY <1>8, <2>1
<1>10. CASE Counter
  <2>1. /\ Stage = "body" /\ op.kind # "start" /\ UNCHANGED op
        /\ UNCHANGED <<toolRow, toolOps, pendingTools>>
    BY <1>10 DEF Counter, Body, tools, Stage
  <2>2. CASE counterRow = 0
    <3>1. Stage' = "created" /\ rows' = Append(rows, [ops |-> {op.n}, tool |-> NoTool, status |-> "counter"])
      BY <1>1, <1>10, <2>2 DEF Counter, Create, Stage, Goto, Inv, TypeOK, Actor
    <3> QED
      BY <1>8, <2>1, <3>1
  <2>3. CASE counterRow # 0
    <3>1. Stage' = "idle" /\ rows' = Patched(counterRow, rows[counterRow].ops \cup {op.n}, "counter")
      BY <1>1, <1>10, <2>3 DEF Counter, Patch, Patched, Stage, Goto, Inv, TypeOK, Actor
    <3>2. RowsKept
      <4>1. counterRow \in 1 .. Len(rows) /\ rows \in Seq(Row) /\ rows[counterRow].status = "counter"
        BY <1>1, <2>3 DEF Inv, TypeOK, OrderInv, Pointers
      <4>2. rows[counterRow].ops \cup {op.n} \in SUBSET (1 .. MaxOps)
        <5>1. rows[counterRow] \in Row
          BY <4>1, ElementOfSeq
        <5>2. op.n \in 1 .. MaxOps /\ rows[counterRow].ops \in SUBSET (1 .. MaxOps)
          BY <1>4, <2>1, <5>1 DEF Row
        <5> QED
          BY <5>2
      <4>3. /\ Len(rows') = Len(rows)
            /\ \A q \in 1 .. Len(rows) : q # counterRow => rows'[q] = rows[q]
            /\ rows'[counterRow] = [ops |-> rows[counterRow].ops \cup {op.n},
                                    tool |-> rows[counterRow].tool, status |-> "counter"]
        BY <3>1, <4>1, <4>2, PatchedLemma, ZenonT(60)
      <4> QED
        BY <4>1, <4>3 DEF RowsKept, RowKept, Places
    <3> QED
      BY <1>1, <1>2, <2>1, <3>1, <3>2, KeptCalls
  <2> QED
    BY <2>2, <2>3
<1>11. CASE StartTool
  <2>1. Stage = "body" /\ Stage' = "created"
    BY <1>1, <1>11 DEF StartTool, Body, Stage, Goto, Inv, TypeOK, Actor
  <2> QED
    BY <1>1, <1>3, <1>11, <2>1, StartedCalls
<1>12. CASE MergeToolStart
  <2>1. /\ Stage = "body" /\ Stage' = "idle" /\ Pending(op.tool) /\ op.tool \in Tool /\ UNCHANGED op
        /\ toolOps' = [toolOps EXCEPT ![op.tool] = toolOps[op.tool] \cup {op.n}]
        /\ rows' = Patched(toolRow[op.tool], toolOps[op.tool] \cup {op.n}, "running")
        /\ UNCHANGED <<toolRow, pendingTools>>
    BY <1>1, <1>12 DEF MergeToolStart, Body, Patch, Patched, Stage, Goto, Inv, TypeOK, Actor, OrderInv, Applying
  <2>2. toolOps \in [Tool -> SUBSET (1 .. MaxOps)]
    BY <1>1 DEF Inv, TypeOK
  <2>3. toolOps[op.tool] \cup {op.n} \in SUBSET (1 .. MaxOps)
    BY <1>4, <2>1, <2>2
  <2>4. toolOps'[op.tool] = toolOps[op.tool] \cup {op.n} /\ \A d \in Tool : d # op.tool => toolOps'[d] = toolOps[d]
    BY <2>1, <2>2
  <2>5. \A d \in Tool : ~Settled(d) /\ ~Settled(d)'
    BY <1>3, <2>1
  <2> QED
    BY <1>1, <2>1, <2>3, <2>4, <2>5, PatchedCall
<1>13. CASE CompleteTool
  <2>1. /\ Stage = "result" /\ Stage' = "completed" /\ UNCHANGED op
        /\ UNCHANGED <<toolRow, pendingTools, toolOps>>
        /\ IF Pending(op.tool)
           THEN rows' = Patched(toolRow[op.tool], toolOps[op.tool] \cup {op.n}, "completed")
           ELSE rows' = Append(rows, [ops |-> {op.n}, tool |-> op.tool, status |-> "completed"])
    <3>1. ProgressLeft("stream") = {}
      BY NoneLeft DEF Actor
    <3> QED
      BY <1>1, <1>13, <3>1 DEF CompleteTool, Patch, Patched, Create, tools, Stage, Goto, Inv, TypeOK, Actor
  <2>2. CASE Pending(op.tool)
    <3>1. op.tool \in Tool
      BY <1>1, <2>2, ElementOfSeq DEF Pending, Range, Inv, TypeOK
    <3>2. toolOps[op.tool] \cup {op.n} \in SUBSET (1 .. MaxOps)
      BY <1>1, <1>4, <2>1, <3>1 DEF Inv, TypeOK
    <3>3. \A d \in Tool : ~Settled(d) /\ (Settled(d)' <=> d = op.tool)
      BY <1>3, <2>1
    <3> QED
      BY <1>1, <2>1, <2>2, <3>1, <3>2, <3>3, PatchedCall
  <2>3. CASE ~Pending(op.tool)
    BY <1>1, <1>3, <2>1, <2>3, ResultCalls
  <2> QED
    BY <2>2, <2>3
<1>14. CASE Completed
  <2>1. /\ Stage = "completed" /\ Stage' = "idle" /\ Delete(op.tool)
        /\ UNCHANGED <<rows, toolRow, toolOps>>
    BY <1>1, <1>14 DEF Completed, Stage, Goto, Inv, TypeOK, Actor
  <2>2. (\A d \in Tool : Settled(d) <=> d = op.tool) /\ \A d \in Tool : ~Settled(d)'
    BY <1>3, <2>1
  <2> QED
    BY <1>1, <2>1, <2>2, DeletedCall
<1>15. ~ProgressTool
  BY DEF NoProgress, ProgressTool, Body
<1> QED
  BY <1>5, <1>6, <1>7, <1>9, <1>10, <1>11, <1>12, <1>13, <1>14, <1>15, CreatedCalls, <1>1
     DEF StreamStep, ToolOp, PlainOp

LEMMA TimerCalls ==
  ASSUME TextInv, NoProgress, Calls, Answer \/ Timer \/ UNCHANGED vars
  PROVE  Calls' /\ Grows /\ RowsKept /\ UNCHANGED <<pc, op, rowId, payload, pendingTools, sent, disposed>>
<1>1. \A t \in Ticker : ~ToolTimer(t) /\ ~TickerPatches(t)
  BY DEF NoProgress, ToolTimer, TickerPatches, Runs
<1>2. UNCHANGED <<pc, op, toolRow, toolOps, pendingTools, target, rowId, payload, sent, disposed>>
  BY <1>1 DEF Answer, Timer, PatchAnswered, CreateAnswered, TextTimer, tools, vars, text
<1>3. RowsKept
  <2>1. UNCHANGED rows \/ (rowId # 0 /\ rows' = [rows EXCEPT ![rowId].ops = payload])
    BY <1>1 DEF Answer, Timer, PatchAnswered, CreateAnswered, TextTimer, vars
  <2> QED
    BY <2>1, SameRowsKept, TextRowsKept
<1>4. Stage' = Stage /\ \A d \in Tool : Ending(d)' <=> Ending(d)
  BY <1>2 DEF Stage, Ending
<1> QED
  BY <1>2, <1>3, <1>4, KeptCalls DEF TextInv

\* finish() settles every call that is pending, and each of them once.
LEMMA FinishCalls ==
  ASSUME TextInv, NoProgress, Calls, ~MayStop, NEW f \in Finisher, FinishStep(f)
  PROVE  /\ Calls' /\ Grows /\ f = "end" /\ Stage = "ended" /\ UNCHANGED <<pc["stream"], op, sent>>
<1>1. /\ Inv /\ f = "end" /\ Stage = "ended" /\ Stage' = "ended" /\ UNCHANGED <<op, sent>>
      /\ f \in Actor
  <2>1. UNCHANGED <<op, sent>>
    BY DEF FinishStep, FinishCalled, FinishStart, FinishCollect, FinishProgress, FinishFlush,
       FinishFlushed, FinishSettle, FinishSettled, At
  <2> QED
    BY <2>1, SoloStep DEF TextInv, Next, Actor
<1>2. pc \in [Actor -> StreamPc \cup FinishPc] /\ target \in [Finisher -> Tool \cup {NoTool}]
  BY <1>1 DEF Inv, TypeOK
<1>3. /\ \A d \in Tool : Settled(d) <=> pc["end"] = "settled" /\ target["end"] = d
      /\ \A d \in Tool : Settled(d)' <=> pc'["end"] = "settled" /\ target'["end"] = d
      /\ \A d \in Tool : (Ending(d) <=> Settled(d)) /\ (Ending(d)' <=> Settled(d)')
  BY <1>1 DEF Settled, Stage, Ending
<1>4. ASSUME FinishSettle(f), pendingTools # <<>> PROVE Calls' /\ Grows
  <2> DEFINE c == Head(pendingTools)
  <2>1. c \in Tool /\ Pending(c)
    BY <1>1, <1>4, FirstPending
  <2>2. /\ rows' = Patched(toolRow[c], toolOps[c], "cancelled")
        /\ target' = [target EXCEPT ![f] = c] /\ Goto(f, "settled") /\ pc["end"] = "settle"
        /\ UNCHANGED <<toolRow, toolOps, pendingTools>>
    BY <1>1, <1>4 DEF FinishSettle, At, Patch, Patched, tools
  <2> HIDE DEF c
  <2>3. pc'["end"] = "settled" /\ target'["end"] = c
    BY <1>1, <1>2, <2>1, <2>2 DEF Goto
  <2>4. (\A d \in Tool : ~Settled(d)) /\ \A d \in Tool : Settled(d)' <=> d = c
    BY <1>3, <2>2, <2>3
  <2>5. toolOps[c] \in SUBSET (1 .. MaxOps)
    BY <1>1, <2>1 DEF Inv, TypeOK
  <2> QED
    BY <1>1, <2>1, <2>2, <2>4, <2>5, PatchedCall
<1>5. ASSUME FinishSettled(f) PROVE Calls' /\ Grows
  <2>1. /\ Delete(target["end"]) /\ pc["end"] = "settled" /\ pc'["end"] = "settle"
        /\ UNCHANGED <<rows, toolRow, toolOps>>
    BY <1>1, <1>2, <1>5 DEF FinishSettled, At, Goto
  <2>2. (\A d \in Tool : Settled(d) <=> d = target["end"]) /\ \A d \in Tool : ~Settled(d)'
    BY <1>3, <2>1
  <2> QED
    BY <1>1, <2>1, <2>2, DeletedCall
<1>6. ASSUME ~FinishSettled(f), ~(FinishSettle(f) /\ pendingTools # <<>>) PROVE Calls' /\ Grows
  <2>1. UNCHANGED <<toolRow, toolOps, pendingTools>> /\ pc["end"] # "settled" /\ pc'["end"] # "settled"
    <3>1. UNCHANGED <<toolRow, toolOps, pendingTools>> /\ pc["end"] # "settled"
      BY <1>1, <1>6 DEF FinishStep, FinishCalled, FinishStart, FinishCollect, CollectProgress, FinishProgress,
         FinishFlush, FinishFlushed, FinishSettle, At, tools
    <3>2. UNCHANGED pc \/ \E label \in {"start", "collect", "progress", "flush", "flushed", "settle", "done"} :
                            Goto(f, label)
      BY <1>6 DEF FinishStep, FinishCalled, FinishStart, FinishCollect, FinishProgress, FinishFlush,
         FinishFlushed, FinishSettle
    <3> QED
      BY <1>1, <1>2, <3>1, <3>2 DEF Goto
  <2>2. RowsKept
    <3>1. \/ UNCHANGED rows
          \/ rowId # 0 /\ rows' = Patched(rowId, payload, "text")
          \/ PatchProgress(f)
      BY <1>6 DEF FinishStep, FinishCalled, FinishStart, FinishCollect, FinishProgress, FinishFlush,
         FlushText, FinishFlushed, FinishSettle, Patch, Patched
    <3>2. ~PatchProgress(f)
      BY <1>1, NoneLeft DEF PatchProgress
    <3> QED
      BY <3>1, <3>2, SameRowsKept, TextRowsKept
  <2>3. \A d \in Tool : Ending(d)' <=> Ending(d)
    BY <2>1 DEF Ending
  <2> QED
    BY <1>1, <2>1, <2>2, <2>3, KeptCalls
<1> QED
  BY <1>1, <1>4, <1>5, <1>6 DEF Stage

LEMMA CallStep ==
  ASSUME CallInv, ~MayStop, ~Progress, [Next]_vars
  PROVE  CallInv' /\ Grows
<1>1. TextInv' /\ NoProgress'
  BY TextStep, ProgressStep DEF CallInv, TextInv
<1> QED
  BY <1>1, StreamCalls, TimerCalls, FinishCalls DEF CallInv, Next

LEMMA CallInit ==
  ASSUME Init
  PROVE  CallInv /\ Finishing /\ Shows
<1>1. TextInv
  BY InvInit DEF TextInv, Init, Solo, Buffered, Stage, Actor, Finisher
<1>2. Calls
  BY DEF Init, Calls, Once, Pending, Range, Stage, Places, Settled, Actor, Finisher
<1>3. Finishing /\ Shows
  BY DEF Init, Finishing, Shows, Written, Stage, Actor, Finisher
<1>4. NoProgress
  BY TickerActor DEF Init, NoProgress, NoOp
<1> QED
  BY <1>1, <1>2, <1>3, <1>4 DEF CallInv

\* "A result that is in a row stays there": without progress payloads and stops,
\* completeTool and finish() settle only what is still running.
THEOREM ResultsStay == ASSUME ~MayStop, ~Progress PROVE Spec => ResultKept
<1>1. Init => CallInv
  BY CallInit
<1>2. CallInv /\ [Next]_vars => CallInv'
  BY CallStep
<1>3. CallInv /\ [Next]_vars =>
        [\A r \in 1 .. Len(rows) :
           rows[r].status = "completed" => rows'[r].status = "completed"]_vars
  BY CallStep DEF Grows, Places
<1> QED
  BY <1>1, <1>2, <1>3, PTL DEF Spec, ResultKept

\* finish() drops the session when no text is open and no call is pending.
LEMMA FinishingStep ==
  ASSUME DoneInv, ~MayStop, ~Progress, [Next]_vars
  PROVE  Finishing'
<1>1. TextInv /\ NoProgress /\ Calls /\ Finishing /\ Inv /\ Solo
  BY DEF DoneInv, CallInv, TextInv
<1>2. ASSUME StreamStep PROVE Finishing'
  <2>1. pc["end"] = "off" /\ pc'["end"] = "off"
    BY <1>1, <1>2, SoloStep DEF Next, Solo
  <2>2. UNCHANGED disposed
    BY <1>2 DEF StreamStep, AssistantText, MoreThinking, ToolOp, PlainOp, Flushed,
       OpenThinking, StartTool, MergeToolStart, ProgressTool, ToolResult, NewPlan, NewLine, Counter, Body,
       Created, CompleteTool, Completed, StreamEnds
  <2> QED
    BY <1>1, <2>1, <2>2 DEF Finishing
<1>3. ASSUME Answer \/ Timer \/ UNCHANGED vars PROVE Finishing'
  BY <1>1, <1>3, TimerCalls DEF Finishing
<1>4. ASSUME NEW f \in Finisher, FinishStep(f) PROVE Finishing'
  <2>1. f = "end" /\ pc \in [Actor -> StreamPc \cup FinishPc] /\ f \in Actor
    BY <1>1, <1>4, FinishCalls DEF Inv, TypeOK, Actor
  <2>2. pc["end"] # "done" /\ ~disposed
    BY <1>1, <1>4, <2>1 DEF FinishStep, FinishCalled, FinishStart, FinishCollect, FinishProgress,
       FinishFlush, FinishFlushed, FinishSettle, FinishSettled, At, Runs, Finishing
  <2>3. \A label : Goto(f, label) => pc'["end"] = label
    BY <2>1 DEF Goto
  <2>4. CASE FinishCalled(f) \/ FinishStart(f) \/ FinishCollect(f) \/ FinishProgress(f)
    <3>1. pc'["end"] \in {"start", "collect", "progress", "flush"} /\ UNCHANGED disposed
      BY <2>1, <2>3, <2>4 DEF FinishCalled, FinishStart, FinishCollect, FinishProgress, At
    <3> QED
      BY <2>2, <3>1 DEF Finishing
  <2>5. CASE FinishFlush(f) \/ FinishFlushed(f)
    <3>1. /\ pc'["end"] = "flushed" \/ (pc'["end"] = "settle" /\ rowId' = 0)
          /\ UNCHANGED disposed
      BY <2>3, <2>5 DEF FinishFlush, FinishFlushed, ResetText, text
    <3> QED
      BY <2>2, <3>1 DEF Finishing
  <2>6. CASE FinishSettle(f) \/ FinishSettled(f)
    <3>1. /\ rowId = 0 /\ UNCHANGED rowId
          /\ \/ pc'["end"] \in {"settle", "settled"} /\ UNCHANGED disposed
             \/ pc'["end"] = "done" /\ pendingTools' = <<>>
      BY <1>1, <2>1, <2>3, <2>6 DEF FinishSettle, FinishSettled, At, Finishing, text, tools
    <3> QED
      BY <2>2, <3>1 DEF Finishing
  <2> QED
    BY <1>4, <2>4, <2>5, <2>6 DEF FinishStep
<1> QED
  BY <1>2, <1>3, <1>4 DEF Next

LEMMA AppendShows ==
  ASSUME Inv, NEW row, rows' = Append(rows, row), NEW n, n \in row.ops
  PROVE  Shown(n)'
<1>1. Len(rows) \in Nat /\ Len(rows') = Len(rows) + 1 /\ rows'[Len(rows')] = row
  BY AppendedRow
<1>2. Len(rows') \in 1 .. Len(rows')
  BY <1>1
<1> QED
  BY <1>1, <1>2 DEF Shown

LEMMA PatchShows ==
  ASSUME Inv, NEW r \in Places, NEW shown \in SUBSET (1 .. MaxOps), NEW n \in shown,
         NEW status \in {"counter", "running", "completed"}, rows' = Patched(r, shown, status)
  PROVE  Shown(n)'
<1>1. rows \in Seq(Row) /\ r \in 1 .. Len(rows)
  BY DEF Inv, TypeOK, Places
<1>2. Len(rows') = Len(rows) /\ rows'[r] = [ops |-> shown, tool |-> rows[r].tool, status |-> status]
  <2>1. CASE status = "counter"
    BY <1>1, <2>1, PatchedLemma
  <2>2. CASE status = "running"
    BY <1>1, <2>2, PatchedLemma
  <2>3. CASE status = "completed"
    BY <1>1, <2>3, PatchedLemma
  <2> QED
    BY <2>1, <2>2, <2>3
<1> QED
  BY <1>1, <1>2 DEF Shown

\* Every op that is applied is in a row, or in the buffer of the open one.
LEMMA OpShown ==
  ASSUME CallInv, ~MayStop, ~Progress, StreamStep
  PROVE  /\ \A n \in 1 .. Written' : n \in 1 .. Written \/ Shown(n)' \/ n \in payload'
         /\ payload \subseteq payload' \/ payload = {} \/ Flushed
<1>1. /\ TextInv /\ NoProgress /\ Calls /\ Inv /\ sent \in Nat /\ rows \in Seq(Row)
      /\ pc \in [Actor -> StreamPc \cup FinishPc] /\ "stream" \in Actor
  BY MaxOpsAssumption DEF CallInv, TextInv, Inv, TypeOK, Actor
<1>2. \A label : Goto("stream", label) => Stage' = label
  BY <1>1 DEF Goto, Stage
<1>3. Stage \in {"body", "result"} =>
        /\ op.n = sent /\ rowId = 0 /\ payload = {} /\ Written = sent - 1
        /\ sent \in 1 .. MaxOps
  BY <1>1, MaxOpsAssumption DEF Inv, OrderInv, Applying, Pointers, Written, TypeOK
<1>4. ASSUME Stage \in {"body", "result"}, UNCHANGED sent, sent \in payload' \/ Shown(sent)'
      PROVE  \A n \in 1 .. Written' : n \in 1 .. Written \/ Shown(n)' \/ n \in payload'
  <2>1. Written' <= sent /\ Written' \in Int
    BY <1>1, <1>4 DEF Written
  <2>2. ASSUME NEW n \in 1 .. Written' PROVE n \in 1 .. Written \/ Shown(n)' \/ n \in payload'
    <3>1. n \in 1 .. sent - 1 \/ n = sent
      BY <1>1, <2>1
    <3> QED
      BY <1>3, <1>4, <3>1
  <2> QED
    BY <2>2
<1>5. CASE AssistantText \/ MoreThinking
  <2>1. /\ Stage = "idle" /\ sent' = sent + 1 /\ sent' \in payload'
        /\ payload \subseteq payload' \/ rowId = 0
    BY <1>5 DEF AssistantText, MoreThinking, Delivered, Stage
  <2>2. rowId = 0 => payload = {}
    BY <1>1, <2>1 DEF Inv, OrderInv, Pointers
  <2>3. Written = sent /\ Written' <= sent + 1 /\ Written' \in Int
    BY <1>1, <2>1 DEF Written
  <2>4. \A n \in 1 .. Written' : n \in 1 .. Written \/ n = sent'
    BY <1>1, <2>1, <2>3
  <2> QED
    BY <2>1, <2>2, <2>4
<1>6. ASSUME NEW kind, NEW c, OtherOp(kind, c)
      PROVE  Written' = Written /\ UNCHANGED payload
  <2>1. /\ Stage = "idle" /\ sent' = sent + 1 /\ Stage' \in {"flushed", "body"} /\ UNCHANGED payload
    BY <1>2, <1>6 DEF OtherOp, Delivered, FlushText, text, Stage
  <2> QED
    BY <1>1, <2>1 DEF Written
<1>7. ASSUME Flushed \/ ToolResult \/ Created \/ Completed \/ StreamEnds
      PROVE  Written' = Written /\ (UNCHANGED payload \/ Flushed)
  <2>1. /\ UNCHANGED sent /\ (UNCHANGED payload \/ Flushed)
        /\ \/ Stage \in {"flushed", "body"} /\ Stage' \in {"body", "result"}
           \/ Stage \in {"created", "completed", "idle"} /\ Stage' \in {"idle", "ended"}
    BY <1>2, <1>7 DEF Flushed, ToolResult, Created, Completed, StreamEnds, Body, Stage, text
  <2> QED
    BY <2>1 DEF Written
<1>8. CASE OpenThinking \/ NewPlan \/ NewLine \/ StartTool
  <2>1. Stage = "body" /\ UNCHANGED sent
    BY <1>8 DEF OpenThinking, NewPlan, NewLine, StartTool, Body, Stage
  <2>2. \E st, t : rows' = Append(rows, [ops |-> {op.n}, tool |-> t, status |-> st])
    BY <1>8 DEF OpenThinking, NewPlan, NewLine, StartTool, Create
  <2>3. PICK row : rows' = Append(rows, row) /\ sent \in row.ops
    <3>1. \A st, t : sent \in [ops |-> {op.n}, tool |-> t, status |-> st].ops
      BY <1>3, <2>1
    <3> QED
      BY <2>2, <3>1
  <2>4. Shown(sent)'
    BY <1>1, <2>1, <2>3, AppendShows
  <2> QED
    BY <1>3, <1>4, <2>1, <2>4
<1>9. CASE Counter
  <2>1. Stage = "body" /\ UNCHANGED sent /\ op.n = sent /\ sent \in 1 .. MaxOps
    BY <1>3, <1>9 DEF Counter, Body, Stage
  <2>2. CASE counterRow = 0
    <3>1. rows' = Append(rows, [ops |-> {op.n}, tool |-> NoTool, status |-> "counter"])
      BY <1>9, <2>2 DEF Counter, Create
    <3>2. Shown(sent)'
      BY <1>1, <2>1, <3>1, AppendShows
    <3> QED
      BY <1>3, <1>4, <2>1, <3>2
  <2>3. CASE counterRow # 0
    <3>1. /\ rows' = Patched(counterRow, rows[counterRow].ops \cup {op.n}, "counter")
          /\ counterRow \in Places
      <4>1. counterRow \in Places
        BY <1>1, <2>3 DEF Places, Inv, TypeOK
      <4> QED
        BY <1>9, <2>3, <4>1 DEF Counter, Patch, Patched
    <3>2. rows[counterRow].ops \cup {op.n} \in SUBSET (1 .. MaxOps)
      <4>1. rows[counterRow] \in Row
        BY <1>1, <3>1, ElementOfSeq DEF Places
      <4> QED
        BY <2>1, <4>1 DEF Row
    <3>3. Shown(sent)'
      BY <1>1, <2>1, <3>1, <3>2, PatchShows
    <3> QED
      BY <1>3, <1>4, <2>1, <3>3
  <2> QED
    BY <2>2, <2>3
<1>10. ASSUME Stage \in {"body", "result"}, Pending(op.tool), NEW status \in {"running", "completed"},
              rows' = Patched(toolRow[op.tool], toolOps[op.tool] \cup {op.n}, status), UNCHANGED sent
       PROVE  Shown(sent)'
  <2>1. op.tool \in Tool
    BY <1>1, <1>10, ElementOfSeq DEF Pending, Range, Inv, TypeOK
  <2>2. /\ toolRow[op.tool] \in Places /\ toolOps[op.tool] \cup {op.n} \in SUBSET (1 .. MaxOps)
        /\ sent \in toolOps[op.tool] \cup {op.n}
    BY <1>1, <1>3, <1>10, <2>1, PlaceOfCall
  <2> QED
    BY <1>1, <1>10, <2>2, PatchShows
<1>11. CASE MergeToolStart
  <2>1. /\ Stage = "body" /\ Pending(op.tool) /\ UNCHANGED sent
        /\ rows' = Patched(toolRow[op.tool], toolOps[op.tool] \cup {op.n}, "running")
    BY <1>11 DEF MergeToolStart, Body, Patch, Patched, Stage
  <2>2. Shown(sent)'
    BY <1>10, <2>1
  <2> QED
    BY <1>3, <1>4, <2>1, <2>2
<1>12. CASE CompleteTool
  <2>1. /\ Stage = "result" /\ UNCHANGED sent
        /\ IF Pending(op.tool)
           THEN rows' = Patched(toolRow[op.tool], toolOps[op.tool] \cup {op.n}, "completed")
           ELSE rows' = Append(rows, [ops |-> {op.n}, tool |-> op.tool, status |-> "completed"])
    <3>1. ProgressLeft("stream") = {}
      BY <1>1, NoneLeft
    <3> QED
      BY <1>12, <3>1 DEF CompleteTool, Patch, Patched, Create, Stage
  <2>2. CASE Pending(op.tool)
    <3>1. Shown(sent)'
      BY <1>10, <2>1, <2>2
    <3> QED
      BY <1>3, <1>4, <2>1, <3>1
  <2>3. CASE ~Pending(op.tool)
    <3>1. sent \in [ops |-> {op.n}, tool |-> op.tool, status |-> "completed"].ops
      BY <1>3, <2>1
    <3>2. Shown(sent)'
      BY <1>1, <2>1, <2>3, <3>1, AppendShows
    <3> QED
      BY <1>3, <1>4, <2>1, <3>2
  <2> QED
    BY <2>2, <2>3
<1>13. ~ProgressTool
  BY <1>1 DEF NoProgress, ProgressTool, Body
<1> QED
  BY <1>5, <1>6, <1>7, <1>8, <1>9, <1>11, <1>12, <1>13 DEF StreamStep, ToolOp, PlainOp

\* What is in the buffer reaches its row before the buffer is reset.
LEMMA ShowsStep ==
  ASSUME DoneInv, ~MayStop, ~Progress, [Next]_vars
  PROVE  Shows'
<1>1. /\ TextInv /\ NoProgress /\ Calls /\ CallInv /\ Finishing /\ Shows /\ Inv /\ Solo /\ Grows
      /\ pc \in [Actor -> StreamPc \cup FinishPc] /\ {"stream", "end"} \subseteq Actor
      /\ rows \in Seq(Row) /\ Len(rows) \in Nat /\ rowId \in 0 .. Len(rows)
  <2>1. /\ TextInv /\ NoProgress /\ Calls /\ CallInv /\ Finishing /\ Shows /\ Inv /\ Solo /\ TypeOK
    BY DEF DoneInv, CallInv, TextInv, Inv
  <2>2. Grows
    BY <2>1, CallStep
  <2>3. /\ pc \in [Actor -> StreamPc \cup FinishPc] /\ rows \in Seq(Row) /\ rowId \in 0 .. Len(rows)
    BY <2>1 DEF TypeOK
  <2>4. {"stream", "end"} \subseteq Actor /\ Len(rows) \in Nat
    BY <2>3 DEF Actor, Finisher
  <2> QED
    BY <2>1, <2>2, <2>3, <2>4
<1>2. \A n : Shown(n) => Shown(n)'
  <2>1. Len(rows') \in Nat
    BY <1>1, CallStep DEF CallInv, TextInv, Inv, TypeOK
  <2> QED
    BY <1>1, <2>1 DEF Shown, Grows, Places
<1>3. Stage = "flushed" \/ pc["end"] = "flushed" => \A n \in payload : Shown(n)
  BY <1>1 DEF Shows, Shown, Inv, TypeOK
<1>4. ASSUME StreamStep PROVE Shows'
  <2>1. pc["end"] = "off" /\ pc'["end"] = "off"
    BY <1>1, <1>4, SoloStep DEF Next, Solo
  <2>2. \A n \in payload : n \in payload' \/ Shown(n)'
    <3>1. CASE Flushed
      BY <1>2, <1>3, <3>1 DEF Flushed, Stage
    <3> QED
      BY <1>1, <1>4, <3>1, OpShown
  <2>3. \A n \in 1 .. Written' : Shown(n)' \/ n \in payload'
    BY <1>1, <1>2, <1>4, <2>2, OpShown DEF Shows
  <2>4. Stage' = "flushed" => rowId' # 0 /\ payload' \subseteq rows'[rowId'].ops
    <3>1. CASE \E kind, c : OtherOp(kind, c)
      <4>1. PICK kind, c : OtherOp(kind, c)
        BY <3>1
      <4>2. CASE rowId # 0
        BY <1>1, <4>1, <4>2, FlushTextKept DEF OtherOp
      <4>3. CASE rowId = 0
        BY <1>1, <4>1, <4>3 DEF OtherOp, Goto, Stage
      <4> QED
        BY <4>2, <4>3
    <3>2. CASE ~\E kind, c : OtherOp(kind, c)
      <4>1. \/ Stage # "flushed" /\ UNCHANGED pc
            \/ \E label \in {"created", "body", "idle", "result", "completed", "ended"} : Goto("stream", label)
        BY <1>4, <3>2 DEF StreamStep, AssistantText, MoreThinking, Delivered, ToolOp, PlainOp, Flushed,
           OpenThinking, StartTool, MergeToolStart, ProgressTool, ToolResult, NewPlan, NewLine, Counter,
           Created, CompleteTool, Completed, StreamEnds, Stage
      <4> QED
        BY <1>1, <4>1 DEF Goto, Stage
    <3> QED
      BY <3>1, <3>2
  <2> QED
    BY <2>1, <2>3, <2>4 DEF Shows, Stage
<1>5. ASSUME Answer \/ Timer \/ UNCHANGED vars PROVE Shows'
  <2>1. UNCHANGED <<pc, rowId, payload, sent>> /\ RowsKept
    BY <1>1, <1>5, TimerCalls
  <2>2. Written' = Written
    BY <2>1 DEF Written, Stage
  <2>3. \A n \in 1 .. Written' : Shown(n)' \/ n \in payload'
    BY <1>1, <1>2, <2>1, <2>2 DEF Shows
  <2>4. rowId # 0 => rows[rowId].ops \subseteq rows'[rowId].ops
    <3>1. rowId # 0 => rowId \in Places
      BY <1>1 DEF Places
    <3> QED
      BY <1>1, <3>1 DEF Grows
  <2> QED
    BY <1>1, <2>1, <2>3, <2>4 DEF Shows, Stage
<1>6. ASSUME NEW f \in Finisher, FinishStep(f) PROVE Shows'
  <2>1. f = "end" /\ UNCHANGED sent /\ Stage = "ended" /\ Stage' = "ended"
    BY <1>1, <1>6, FinishCalls DEF Stage
  <2>2. Written' = Written
    BY <2>1 DEF Written
  <2>3. FinishFlushed(f) \/ UNCHANGED payload
    BY <1>6 DEF FinishStep, FinishCalled, FinishStart, FinishCollect, FinishProgress,
       FinishFlush, FlushText, FinishSettle, FinishSettled, text
  <2>4. \A n \in payload : n \in payload' \/ Shown(n)'
    BY <1>2, <1>3, <2>1, <2>3 DEF FinishFlushed, At
  <2>5. \A n \in 1 .. Written' : Shown(n)' \/ n \in payload'
    BY <1>1, <1>2, <2>2, <2>4 DEF Shows
  <2>6. pc'["end"] = "flushed" => rowId' # 0 /\ payload' \subseteq rows'[rowId'].ops
    <3>1. CASE FinishFlush(f)
      <4>1. CASE rowId # 0
        BY <1>1, <3>1, <4>1, FlushTextKept DEF FinishFlush
      <4>2. CASE rowId = 0
        BY <1>1, <2>1, <3>1, <4>2 DEF FinishFlush, Goto
      <4> QED
        BY <4>1, <4>2
    <3>2. CASE ~FinishFlush(f)
      <4>1. \/ UNCHANGED pc /\ pc["end"] # "flushed"
            \/ \E label \in {"start", "collect", "progress", "flush", "settle", "settled", "done"} :
                 Goto("end", label)
        BY <1>6, <2>1, <3>2 DEF FinishStep, FinishCalled, FinishStart, FinishCollect, FinishProgress,
           FinishFlushed, FinishSettle, FinishSettled, At
      <4> QED
        BY <1>1, <4>1 DEF Goto
    <3> QED
      BY <3>1, <3>2
  <2> QED
    BY <2>1, <2>5, <2>6 DEF Shows, Stage
<1> QED
  BY <1>4, <1>5, <1>6 DEF Next

LEMMA DoneStep ==
  ASSUME DoneInv, ~MayStop, ~Progress, [Next]_vars
  PROVE  DoneInv'
BY CallStep, FinishingStep, ShowsStep DEF DoneInv

\* "Settle any tool still marked running so no row is left dangling" (finish):
\* when the session is dropped and the stream has ended, no row says running.
THEOREM AllSettled == ASSUME ~MayStop, ~Progress PROVE Spec => []ToolsSettled
<1>1. Init => DoneInv
  BY CallInit DEF DoneInv
<1>2. DoneInv /\ [Next]_vars => DoneInv'
  BY DoneStep
<1>3. DoneInv => ToolsSettled
  <2> SUFFICES ASSUME DoneInv, TurnOver
               PROVE  \A r \in Places : rows[r].status # "running"
    BY DEF ToolsSettled, Places
  <2>1. Calls /\ Stage = "ended" /\ pendingTools = <<>>
    BY DEF DoneInv, CallInv, Finishing, TurnOver, Stage
  <2>2. \A c : ~Pending(c)
    BY <2>1 DEF Pending, Range
  <2> QED
    BY <2>1, <2>2 DEF Calls
<1> QED
  BY <1>1, <1>2, <1>3, PTL DEF Spec

\* Everything the provider sent is in some row when the turn is over, however
\* the timers, the awaited patches and finish() interleave.
THEOREM AllShown == ASSUME ~MayStop, ~Progress PROVE Spec => []NothingLost
<1>1. Init => DoneInv
  BY CallInit DEF DoneInv
<1>2. DoneInv /\ [Next]_vars => DoneInv'
  BY DoneStep
<1>3. DoneInv => NothingLost
  <2> SUFFICES ASSUME DoneInv, TurnOver
               PROVE  \A n \in 1 .. sent : Shown(n)
    BY DEF NothingLost
  <2>1. Shows /\ Inv /\ Stage = "ended" /\ rowId = 0
    BY DEF DoneInv, CallInv, TextInv, Finishing, TurnOver, Stage
  <2>2. payload = {} /\ Written = sent
    BY <2>1 DEF Inv, OrderInv, Pointers, Written
  <2> QED
    BY <2>1, <2>2 DEF Shows
<1> QED
  BY <1>1, <1>2, <1>3, PTL DEF Spec

=============================================================================
