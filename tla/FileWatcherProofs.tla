-------------------------- MODULE FileWatcherProofs --------------------------
(***************************************************************************)
(* The file watcher loses no update, for every length of the kernel's      *)
(* queue, every content of the file and every number of edits.             *)
(***************************************************************************)
EXTENDS FileWatcher, TLAPS

\* An edit of a watched file leaves a Write pending, even when the kernel
\* merges the event or drops it: a full queue alternates Write and Chmod.
LEMMA WriteIsReported ==
    ASSUME TypeOK, QueueOK, watched, Notify("Write")
    PROVE  \E i \in 1..Len(queue') : queue'[i] = "Write"
<1>1. CASE Len(queue) >= QMax
  <2>1. Len(queue) \in Nat /\ 1 \in 1..Len(queue) /\ 2 \in 1..Len(queue)
    BY <1>1, QMaxAssumption DEF TypeOK
  <2>2. queue[1] = "Write" \/ queue[2] = "Write"
    BY <1>1, <2>1, QMaxAssumption DEF QueueOK
  <2>3. Len(queue') >= Len(queue) /\ queue'[1] = queue[1] /\ queue'[2] = queue[2]
                     /\ Len(queue') \in Nat
    BY <1>1, <2>1, QMaxAssumption DEF Notify, Notified, TypeOK, Kinds
  <2> QED BY <2>1, <2>2, <2>3
<1>2. CASE Len(queue) < QMax
  BY <1>2, QMaxAssumption DEF Notify, Notified, TypeOK, Kinds
<1> QED BY <1>1, <1>2, QMaxAssumption DEF TypeOK

\* Reporting an event keeps the queue within its limit and typed.
LEMMA NotifyType ==
    ASSUME TypeOK, NEW e \in Kinds, Notify(e)
    PROVE  queue' \in Seq(Kinds) /\ Len(queue') <= QMax + 1
BY QMaxAssumption DEF Notify, Notified, TypeOK, Kinds

\* Reporting a Write or a Chmod keeps the queue alternating.
LEMMA NotifyQueue ==
    ASSUME TypeOK, QueueOK, watched, NEW e \in {"Write", "Chmod"}, Notify(e)
    PROVE  \A i \in 1..Len(queue') :
             /\ i <= QMax => queue'[i] \in {"Write", "Chmod"}
             /\ i < Len(queue') => queue'[i] # queue'[i + 1]
BY QMaxAssumption DEF Notify, Notified, TypeOK, QueueOK, Kinds

\* Reporting an event never takes a pending Write away.
LEMMA NotifyKeeps ==
    ASSUME TypeOK, NEW e \in Kinds, Notify(e), UNCHANGED batch, WritePending
    PROVE  WritePending'
BY QMaxAssumption DEF Notify, Notified, TypeOK, WritePending, Kinds

\* A read that goes on to the end of the file is no longer than the file, or
\* than it was already.
LEMMA RestOfRead ==
    ASSUME TypeOK
    PROVE  LET b == buf \o SubSeq(file, Len(buf) + 1, Len(file))
           IN  b \in Seq(Block) /\ (Len(b) = Len(file) \/ Len(b) = Len(buf))
<1> DEFINE rest == SubSeq(file, Len(buf) + 1, Len(file))
<1>1. rest \in Seq(Block) /\ buf \in Seq(Block) /\ Len(buf) \in Nat /\ Len(file) \in Nat
  BY DEF TypeOK
<1>2. Len(rest) = (IF Len(buf) + 1 <= Len(file) THEN Len(file) - Len(buf) ELSE 0)
  BY <1>1 DEF TypeOK
<1> HIDE DEF rest
<1>3. (buf \o rest) \in Seq(Block) /\ Len(buf \o rest) = Len(buf) + Len(rest)
  BY <1>1
<1> QED BY <1>1, <1>2, <1>3 DEF rest

\* The initial states satisfy the inductive invariant.
LEMMA InitInv == Init => IndInv
<1> SUFFICES ASSUME Init PROVE IndInv
  OBVIOUS
<1>1. file \in Seq(Block)
  <2>1. CASE file = <<>>
    BY <2>1
  <2>2. ASSUME NEW b \in Block, file = <<b>> PROVE file \in Seq(Block)
    BY <2>2
  <2> QED BY <2>1, <2>2 DEF Init
<1>2. /\ writes \in 0..MaxWrites /\ pc \in PCs
      /\ watched \in BOOLEAN /\ missed \in BOOLEAN /\ ctxDone \in BOOLEAN
  <2>1. writes \in 0..MaxWrites
    BY MaxWritesAssumption DEF Init
  <2>2. pc \in PCs
    BY DEF Init, PCs
  <2>3. watched \in BOOLEAN /\ missed \in BOOLEAN /\ ctxDone \in BOOLEAN
    BY Zenon DEF Init
  <2> QED BY <2>1, <2>2, <2>3
<1>3. queue \in Seq(Kinds) /\ batch \in Seq(Kinds) /\ buf \in Seq(Block) /\ data \in Seq(Block)
  BY DEF Init
<1>4. Len(queue) <= QMax + 1
  BY QMaxAssumption DEF Init
<1>5. Len(file) <= writes + 1 /\ Len(buf) <= writes + 1 /\ Len(data) <= writes + 1
  <2>1. CASE file = <<>>
    BY <2>1 DEF Init
  <2>2. ASSUME NEW b \in Block, file = <<b>> PROVE Len(file) <= writes + 1
    BY <2>2 DEF Init
  <2> QED BY <2>1, <2>2 DEF Init
<1>6. TypeOK
  BY <1>1, <1>2, <1>3, <1>4, <1>5 DEF TypeOK
<1> QED BY <1>6 DEF Init, IndInv, QueueOK, UpToDate

\* Every step keeps the state well typed.
LEMMA TypeStep == TypeOK /\ [Next]_vars => TypeOK'
<1> SUFFICES ASSUME TypeOK, [Next]_vars PROVE TypeOK'
  OBVIOUS
<1> USE MaxWritesAssumption, QMaxAssumption DEF disk, events, watcher
<1>1. CASE Truncate
  BY <1>1, NotifyType DEF Truncate, Edit, TypeOK, Kinds
<1>2. ASSUME NEW b \in Block, AppendBlock(b) PROVE TypeOK'
  BY <1>2, NotifyType DEF AppendBlock, Edit, TypeOK, Kinds
<1>3. CASE Touch
  BY <1>3, NotifyType DEF Touch, Edit, TypeOK, Kinds
<1>4. ASSUME NEW b \in Block, Replace(b) PROVE TypeOK'
  <2>1. buf' \in Seq(Block) /\ Len(buf') <= writes' + 1
    BY <1>4, RestOfRead DEF Replace, Edit, TypeOK
  <2>2. queue' \in Seq(Kinds) /\ Len(queue') <= QMax + 1
    BY <1>4, NotifyType DEF Replace, Kinds
  <2>3. data' \in Seq(Block) /\ Len(data') <= writes' + 1 /\ pc' \in PCs
    BY <1>4, <2>1 DEF Replace, Edit, TypeOK, PCs, Running
  <2>4. file' \in Seq(Block) /\ Len(file') <= writes' + 1 /\ writes' \in 0..MaxWrites
    BY <1>4 DEF Replace, Edit, TypeOK
  <2> QED BY <1>4, <2>1, <2>2, <2>3, <2>4 DEF Replace, TypeOK
<1>5. CASE FetchEvents
  BY <1>5 DEF FetchEvents, TypeOK
<1>6. CASE Add
  BY <1>6 DEF Add, TypeOK, PCs
<1>7. CASE NewWatcherReturns
  BY <1>7 DEF NewWatcherReturns, TypeOK, PCs, Running
<1>8. CASE ReadFails
  BY <1>8 DEF ReadFails, TypeOK, PCs, Running
<1>9. CASE Start
  BY <1>9 DEF Start, TypeOK, PCs, Running
<1>10. CASE ReceiveEvent
  <2>1. batch' \in Seq(Kinds)
    BY <1>10 DEF ReceiveEvent, TypeOK
  <2>2. pc' \in PCs
    BY <1>10 DEF ReceiveEvent, TypeOK, PCs, Running
  <2>3. buf' = <<>> \/ buf' = buf
    BY <1>10 DEF ReceiveEvent
  <2>4. buf' \in Seq(Block) /\ Len(buf') <= writes + 1
    <3>1. CASE buf' = <<>>
      BY <3>1 DEF TypeOK
    <3>2. CASE buf' = buf
      BY <3>2 DEF TypeOK
    <3> QED BY <2>3, <3>1, <3>2
  <2> QED BY <1>10, <2>1, <2>2, <2>4 DEF ReceiveEvent, TypeOK
<1>11. CASE ReadBlock
  BY <1>11 DEF ReadBlock, TypeOK
<1>12. CASE ReadEnds
  BY <1>12 DEF ReadEnds, TypeOK, PCs, Running
<1>13. CASE Publish
  BY <1>13 DEF Publish, TypeOK, PCs, Running
<1>14. CASE Cancel
  BY <1>14 DEF Cancel, TypeOK
<1>15. CASE Stop
  BY <1>15 DEF Stop, TypeOK, PCs
<1>16. CASE UNCHANGED vars
  BY <1>16 DEF vars, TypeOK
<1> QED
  BY <1>1, <1>2, <1>3, <1>4, <1>5, <1>6, <1>7, <1>8, <1>9, <1>10, <1>11, <1>12,
     <1>13, <1>14, <1>15, <1>16 DEF Next, Editing, Watching

\* Every step keeps the queue alternating and the refresh up to date.
LEMMA InvStep == IndInv /\ [Next]_vars => QueueOK' /\ UpToDate'
<1> SUFFICES ASSUME IndInv, [Next]_vars PROVE QueueOK' /\ UpToDate'
  OBVIOUS
<1> USE QMaxAssumption DEF disk, events, watcher, IndInv
<1>1. CASE Truncate \/ \E b \in Block : AppendBlock(b)
  <2>1. Notify("Write") /\ UNCHANGED <<watched, batch, watcher>>
    BY <1>1 DEF Truncate, AppendBlock
  <2>2. QueueOK'
    BY <2>1, NotifyQueue DEF QueueOK, Notify
  <2>3. watched => WritePending'
    BY <2>1, WriteIsReported DEF WritePending
  <2> QED BY <2>1, <2>2, <2>3 DEF UpToDate
<1>3. CASE Touch
  <2>1. Notify("Chmod") /\ UNCHANGED <<file, watched, batch, watcher>>
    BY <1>3 DEF Touch
  <2>2. QueueOK'
    BY <2>1, NotifyQueue DEF QueueOK, Notify
  <2>3. WritePending => WritePending'
    BY <2>1, NotifyKeeps DEF Kinds
  <2> QED BY <2>1, <2>2, <2>3 DEF UpToDate, ReadIsPrefix
<1>4. ASSUME NEW b \in Block, Replace(b) PROVE QueueOK' /\ UpToDate'
  <2>1. ~watched' /\ (pc' = "add" => pc = "add") /\ (pc = "add" => queue' = <<>> /\ buf' = <<>>)
    BY <1>4 DEF Replace, Reading, QueueOK, Notify
  <2> QED BY <2>1 DEF QueueOK, UpToDate
<1>5. CASE FetchEvents
  <2>1. WritePending => WritePending'
    BY <1>5 DEF FetchEvents, WritePending
  <2> QED BY <1>5, <2>1 DEF FetchEvents, QueueOK, UpToDate, ReadIsPrefix, TypeOK
<1>6. CASE Add
  <2>1. pc' \in {"readNew", "failed"} /\ Len(buf') = 0 /\ queue' = <<>>
    BY <1>6 DEF Add, QueueOK
  <2>2. QueueOK'
    BY <2>1 DEF QueueOK
  <2>3. Len(file') \in Nat /\ Len(buf') <= Len(file')
    BY <1>6, <2>1 DEF Add, TypeOK
  <2> QED BY <2>1, <2>2, <2>3 DEF UpToDate, Reading, ReadIsPrefix
<1>7. CASE NewWatcherReturns
  <2>1. UNCHANGED <<events, file>> /\ pc' = "created" /\ data' = buf /\ pc \in Reading
    BY <1>7 DEF NewWatcherReturns, Reading
  <2>2. ReadIsPrefix => buf = file
    BY <1>7 DEF NewWatcherReturns, ReadIsPrefix, TypeOK
  <2> QED BY <2>1, <2>2 DEF QueueOK, UpToDate, Reading, WritePending
<1>8. CASE ReadFails
  BY <1>8 DEF ReadFails, QueueOK, UpToDate, Reading, WritePending
<1>9. CASE Start
  BY <1>9 DEF Start, QueueOK, UpToDate, Reading, WritePending
<1>10. CASE ReceiveEvent
  <2>1. CASE Head(batch) = "Write"
    <3>1. pc' = "readEvent" /\ Len(buf') = 0 /\ Len(file') \in Nat
      BY <1>10, <2>1 DEF ReceiveEvent, TypeOK
    <3> QED BY <1>10, <3>1 DEF ReceiveEvent, QueueOK, UpToDate, Reading, ReadIsPrefix
  <2>2. CASE Head(batch) # "Write"
    <3>1. WritePending => WritePending'
      <4>1. ASSUME NEW i \in 1..Len(batch), batch[i] = "Write"
            PROVE  i - 1 \in 1..Len(Tail(batch)) /\ Tail(batch)[i - 1] = "Write"
        BY <1>10, <2>2, <4>1 DEF ReceiveEvent, TypeOK
      <4> QED BY <1>10, <4>1 DEF ReceiveEvent, WritePending
    <3> QED BY <1>10, <2>2, <3>1 DEF ReceiveEvent, QueueOK, UpToDate, Reading
  <2> QED BY <2>1, <2>2
<1>11. CASE ReadBlock
  <2>1. ReadIsPrefix => ReadIsPrefix'
    BY <1>11 DEF ReadBlock, ReadIsPrefix, TypeOK
  <2> QED BY <1>11, <2>1 DEF ReadBlock, QueueOK, UpToDate, Reading, WritePending
<1>12. CASE ReadEnds
  <2>1. ReadIsPrefix => buf = file
    BY <1>12 DEF ReadEnds, ReadIsPrefix, TypeOK
  <2> QED BY <1>12, <2>1 DEF ReadEnds, QueueOK, UpToDate, Reading, WritePending
<1>13. CASE Publish
  BY <1>13 DEF Publish, QueueOK, UpToDate, Reading, WritePending
<1>14. CASE Cancel
  BY <1>14 DEF Cancel, QueueOK, UpToDate, Reading, WritePending, ReadIsPrefix
<1>15. CASE Stop
  BY <1>15 DEF Stop, QueueOK, UpToDate, Reading, WritePending
<1>16. CASE UNCHANGED vars
  BY <1>16 DEF vars, QueueOK, UpToDate, Reading, WritePending, ReadIsPrefix
<1> QED
  BY <1>1, <1>3, <1>4, <1>5, <1>6, <1>7, <1>8, <1>9, <1>10, <1>11, <1>12,
     <1>13, <1>14, <1>15, <1>16 DEF Next, Editing, Watching

\* The inductive invariant holds in every behaviour of NewWatcher and Start.
THEOREM IndInvHolds == Spec => []IndInv
<1>1. IndInv /\ [Next]_vars => IndInv'
  BY TypeStep, InvStep DEF IndInv
<1> QED BY InitInv, <1>1, PTL DEF Spec

\* The watcher's state keeps its types: what it caches is never longer than the
\* file can have been, and the kernel's queue keeps its limit.
THEOREM TypeCorrect == Spec => []TypeOK
<1>1. IndInv => TypeOK
  BY DEF IndInv
<1> QED BY IndInvHolds, <1>1, PTL

\* NewWatcher and Start lose no update: while the watch stands, w.data differs
\* from the file only while a refresh is pending or after a failed read.
THEOREM UpdatesNotLost == Spec => []NoLostUpdate
<1>1. IndInv => NoLostUpdate
  BY DEF IndInv, UpToDate, NoLostUpdate, Running
<1> QED BY IndInvHolds, <1>1, PTL
=============================================================================
