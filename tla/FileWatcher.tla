----------------------------- MODULE FileWatcher -----------------------------
(***************************************************************************)
(* internal/backend/file/file.go: the Watcher that caches the hardware     *)
(* file in memory (w.data) and refreshes it from inotify events.           *)
(*                                                                         *)
(* The file is a sequence of blocks.  Whoever edits it truncates it and    *)
(* appends blocks, each system call being one step, and os.ReadFile reads  *)
(* it block by block, so a read may overlap an edit and return a mixture.  *)
(* The kernel's event queue and fsnotify's reader goroutine are external:  *)
(* an event equal to the last queued one is merged, an event that finds    *)
(* the queue full is dropped and leaves one overflow notice behind it.     *)
(***************************************************************************)
EXTENDS Naturals, Sequences

CONSTANTS
    Block,      \* what one block of the file may hold
    QMax,       \* length limit of the kernel's event queue
    MaxWrites,  \* bound on the edits of one behaviour
    Saves       \* how the file is saved: subset of {"inplace", "replace"}

ASSUME QMaxAssumption == QMax \in Nat /\ QMax >= 2
ASSUME MaxWritesAssumption == MaxWrites \in Nat
ASSUME SavesAssumption == Saves \subseteq {"inplace", "replace"}

VARIABLES
    file,     \* the blocks now at FilePath
    writes,   \* edits made so far
    watched,  \* the inotify watch is on the inode FilePath names
    queue,    \* events in the kernel's queue
    batch,    \* events fsnotify has read and not yet sent on Events/Errors
    pc,       \* where NewWatcher and then Start are
    buf,      \* what the os.ReadFile under way has read so far
    data,     \* w.data
    missed,   \* the last refresh failed: its os.ReadFile returned an error
    ctxDone   \* the context given to Start is cancelled

disk == <<file, writes>>
events == <<watched, queue, batch>>
watcher == <<pc, buf, data, missed>>
vars == <<disk, events, watcher, ctxDone>>

Kinds == {"Write", "Chmod", "Remove", "Overflow"}

\* The program counters of NewWatcher and of Start.
Reading == {"readNew", "readEvent"}
Running == {"created", "select", "readEvent", "publish"}
PCs == {"add", "readNew", "failed", "stopped"} \cup Running

\* An edit adds at most one block, and neither a read nor what the watcher caches
\* is longer than the file can have been.
TypeOK ==
    /\ file \in Seq(Block) /\ writes \in 0..MaxWrites
    /\ Len(file) <= writes + 1 /\ Len(buf) <= writes + 1 /\ Len(data) <= writes + 1
    /\ watched \in BOOLEAN
    /\ queue \in Seq(Kinds) /\ Len(queue) <= QMax + 1
    /\ batch \in Seq(Kinds)
    /\ pc \in PCs
    /\ buf \in Seq(Block) /\ data \in Seq(Block)
    /\ missed \in BOOLEAN /\ ctxDone \in BOOLEAN

Init ==
    /\ file \in {<<>>} \cup {<<b>> : b \in Block}
    /\ writes = 0
    /\ watched = FALSE /\ queue = <<>> /\ batch = <<>>
    /\ pc = "add" /\ buf = <<>> /\ data = <<>> /\ missed = FALSE
    /\ ctxDone = FALSE

-----------------------------------------------------------------------------
(* The kernel and fsnotify (external). *)

\* The queue after the kernel has reported an event of kind e.
Notified(e) ==
    IF Len(queue) > QMax THEN queue
    ELSE IF Len(queue) = QMax THEN Append(queue, "Overflow")
    ELSE IF Len(queue) > 0 /\ queue[Len(queue)] = e THEN queue
    ELSE Append(queue, e)

Notify(e) == queue' = IF watched THEN Notified(e) ELSE queue

\* fsnotify's goroutine reads everything the kernel has queued.
FetchEvents ==
    /\ batch = <<>> /\ queue # <<>>
    /\ batch' = queue /\ queue' = <<>>
    /\ UNCHANGED <<disk, watched, watcher, ctxDone>>

-----------------------------------------------------------------------------
(* Whoever edits the file. *)

Edit ==
    /\ writes < MaxWrites
    /\ writes' = writes + 1

\* Opening with O_TRUNC, the first half of saving in place.
Truncate ==
    /\ Edit /\ "inplace" \in Saves /\ file # <<>>
    /\ file' = <<>>
    /\ Notify("Write")
    /\ UNCHANGED <<watched, batch, watcher, ctxDone>>

\* One write(2), the second half of saving in place.
AppendBlock(b) ==
    /\ Edit /\ "inplace" \in Saves
    /\ file' = Append(file, b)
    /\ Notify("Write")
    /\ UNCHANGED <<watched, batch, watcher, ctxDone>>

\* chmod, chown, touch: an event that is not a Write.
Touch ==
    /\ Edit
    /\ Notify("Chmod")
    /\ UNCHANGED <<file, watched, batch, watcher, ctxDone>>

\* Saving by renaming a new file over FilePath.  The watch stays with the
\* inode that FilePath no longer names and dies with it.  A read under way
\* keeps the old inode open; nobody writes to it any more, so the rest of
\* that read is taken at once.
Replace(b) ==
    /\ Edit /\ "replace" \in Saves
    /\ file' = <<b>>
    /\ Notify("Remove") /\ watched' = FALSE
    /\ buf' = IF pc \in Reading THEN buf \o SubSeq(file, Len(buf) + 1, Len(file)) ELSE buf
    /\ pc' = IF pc = "readEvent" THEN "publish" ELSE IF pc = "readNew" THEN "created" ELSE pc
    /\ data' = IF pc = "readNew" THEN buf' ELSE data
    /\ UNCHANGED <<batch, missed, ctxDone>>

-----------------------------------------------------------------------------
(* NewWatcher: the watch is added before the first read. *)

Add ==
    /\ pc = "add"
    /\ \/ watched' = TRUE /\ pc' = "readNew"
       \/ watched' = FALSE /\ pc' = "failed"
    /\ UNCHANGED <<disk, queue, batch, buf, data, missed, ctxDone>>

\* One read(2) of os.ReadFile, in NewWatcher or in Start.
ReadBlock ==
    /\ pc \in Reading /\ Len(buf) < Len(file)
    /\ buf' = Append(buf, file[Len(buf) + 1])
    /\ UNCHANGED <<disk, events, pc, data, missed, ctxDone>>

\* NewWatcher's os.ReadFile reaches the end of the file.
NewWatcherReturns ==
    /\ pc = "readNew" /\ Len(buf) >= Len(file)
    /\ data' = buf /\ pc' = "created"
    /\ UNCHANGED <<disk, events, buf, missed, ctxDone>>

\* os.ReadFile returns an error: NewWatcher gives up, Start goes on with the
\* data it has and waits for the next event.
ReadFails ==
    /\ pc \in Reading
    /\ pc' = IF pc = "readNew" THEN "failed" ELSE "select"
    /\ missed' = (pc = "readEvent")
    /\ UNCHANGED <<disk, events, buf, data, ctxDone>>

-----------------------------------------------------------------------------
(* Start: the goroutine that refreshes w.data. *)

Start ==
    /\ pc = "created" /\ pc' = "select"
    /\ UNCHANGED <<disk, events, buf, data, missed, ctxDone>>

\* Mutant: the refresh is tied to the wrong kind of event.
ReceiveEventWrongOp ==
    /\ pc = "select" /\ batch # <<>>
    /\ batch' = Tail(batch)
    /\ IF Head(batch) = "Chmod" THEN pc' = "readEvent" /\ buf' = <<>>
                                ELSE UNCHANGED <<pc, buf>>
    /\ UNCHANGED <<disk, watched, queue, data, missed, ctxDone>>

\* case event := <-w.watcher.Events and case err := <-w.watcher.Errors: only
\* a Write makes Start read the file; an error is logged and forgotten.
ReceiveEvent ==
    /\ pc = "select" /\ batch # <<>>
    /\ batch' = Tail(batch)
    /\ IF Head(batch) = "Write" THEN pc' = "readEvent" /\ buf' = <<>>
                                ELSE UNCHANGED <<pc, buf>>
    /\ UNCHANGED <<disk, watched, queue, data, missed, ctxDone>>

\* Start's os.ReadFile reaches the end of the file.
ReadEnds ==
    /\ pc = "readEvent" /\ Len(buf) >= Len(file)
    /\ pc' = "publish"
    /\ UNCHANGED <<disk, events, buf, data, missed, ctxDone>>

\* Mutant: events that arrived during the read are taken for its own.
PublishDebounced ==
    /\ pc = "publish"
    /\ data' = buf /\ missed' = FALSE /\ pc' = "select"
    /\ batch' = <<>> /\ queue' = <<>>
    /\ UNCHANGED <<disk, watched, buf, ctxDone>>

\* Mutant: what was read is appended to w.data.
PublishAppending ==
    /\ pc = "publish"
    /\ data' = data \o buf /\ missed' = FALSE /\ pc' = "select"
    /\ UNCHANGED <<disk, events, buf, ctxDone>>

\* w.data = d under dataMu.
Publish ==
    /\ pc = "publish"
    /\ data' = buf /\ missed' = FALSE /\ pc' = "select"
    /\ UNCHANGED <<disk, events, buf, ctxDone>>

Cancel ==
    /\ ~ctxDone /\ ctxDone' = TRUE
    /\ UNCHANGED <<disk, events, watcher>>

\* case <-ctx.Done().
Stop ==
    /\ pc = "select" /\ ctxDone
    /\ pc' = "stopped"
    /\ UNCHANGED <<disk, events, buf, data, missed, ctxDone>>

Editing == Truncate \/ Touch \/ \E b \in Block : AppendBlock(b) \/ Replace(b)
Watching == Start \/ ReceiveEvent \/ ReadBlock \/ ReadEnds \/ Publish \/ Stop

Next ==
    \/ Editing \/ FetchEvents
    \/ Add \/ NewWatcherReturns \/ ReadFails
    \/ Watching \/ Cancel

\* Goroutines that can run do run; a read that fails, an edit and the
\* cancellation of the context need never happen.
Fairness ==
    /\ WF_vars(FetchEvents) /\ WF_vars(Add) /\ WF_vars(NewWatcherReturns)
    /\ WF_vars(Watching)

Spec == Init /\ [][Next]_vars /\ Fairness

-----------------------------------------------------------------------------
(* Properties. *)

\* A Write event that Start has not received yet.
WritePending ==
    \/ \E i \in 1..Len(queue) : queue[i] = "Write"
    \/ \E i \in 1..Len(batch) : batch[i] = "Write"

\* From the moment NewWatcher returns, and as long as the watch is on the file,
\* w.data differs from the file only while a refresh is on its way (or the last
\* one could not read the file): no edit slips between adding the watch, the
\* first read, a read under way and the publication of what was read, and none
\* is lost to a merged or a dropped event.
NoLostUpdate ==
    pc \in Running /\ watched /\ data # file =>
        WritePending \/ missed \/ pc \in {"readEvent", "publish"}

\* Once edits stop, GetByMac and GetByIP answer from the file as it is, unless
\* Start was stopped, the watch was lost or the last refresh could not read.
EventuallyFresh ==
    <>[](pc \in {"failed", "stopped"} \/ ~watched \/ missed \/ data = file)

\* docs/Backend-File.md promises that the file on disk is watched for changes
\* and that its data is what is served: when no event is left to handle, Start
\* serves the file's content, however the file was saved.
ServesFileOnDisk ==
    pc = "select" /\ queue = <<>> /\ batch = <<>> /\ ~missed => data = file

-----------------------------------------------------------------------------
(* The inductive invariant behind NoLostUpdate. *)

\* No two neighbours in the kernel's queue are equal and the overflow notice
\* stands only behind QMax others, so a queue that drops events holds a Write.
QueueOK ==
    /\ pc = "add" => ~watched /\ queue = <<>> /\ buf = <<>>
    /\ watched => \A i \in 1..Len(queue) :
        /\ i <= QMax => queue[i] \in {"Write", "Chmod"}
        /\ i < Len(queue) => queue[i] # queue[i + 1]

\* What has been read is still a prefix of the file.
ReadIsPrefix ==
    Len(buf) <= Len(file) /\ \A i \in 1..Len(buf) : buf[i] = file[i]

\* Without a Write to come, each stage of a refresh is up to date.
UpToDate ==
    watched /\ ~WritePending =>
        /\ pc \in Reading => ReadIsPrefix
        /\ pc = "publish" => buf = file
        /\ pc \in {"created", "select"} => missed \/ data = file

IndInv == TypeOK /\ QueueOK /\ UpToDate
=============================================================================
