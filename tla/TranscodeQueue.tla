--------------------------- MODULE TranscodeQueue ---------------------------
(***************************************************************************)
(* The in-memory job queue of the transcoding service and the worker       *)
(* thread that drains it: class TranscodeQueue and the loop _process_queue *)
(* of FileWatcherService in transcoding-service/file_watcher.py.           *)
(*                                                                         *)
(* Producers (directory scan, file-system observer, Kafka thread, POST     *)
(* /transcode) call add / add_s3 concurrently; every method body runs      *)
(* under self.lock, so each is one action.  What the job itself does is    *)
(* in HlsPublish; here it ends in mark_completed or in mark_failed.        *)
(***************************************************************************)
EXTENDS Naturals, Sequences

CONSTANTS
    Entry,       \* what callers put in the queue: a path, or an S3 entry
    Key,         \* what add / add_s3 compare: the path, or the storage_key
    KeyOf,       \* KeyOf[e] is the key of entry e
    HistoryCap,  \* the 50 of mark_completed and mark_failed
    None         \* Python's None

ASSUME QueueAssumption ==
    /\ KeyOf \in [Entry -> Key]
    /\ HistoryCap \in Nat
    /\ None \notin Entry

VARIABLES
    pending,     \* self.pending, a list of entries
    processing,  \* self.processing, an entry or None
    completed,   \* self.completed, the last HistoryCap completed entries
    failed,      \* self.failed, the last HistoryCap failed entries
    item,        \* the worker's local variable: the entry it works on
    running      \* FileWatcherService.running

queueVars == <<pending, processing, completed, failed, item, running>>

-----------------------------------------------------------------------------
(* A key is known when add / add_s3 would refuse it.                       *)
Waiting(k) == \E i \in 1..Len(pending) : KeyOf[pending[i]] = k
InProcess(k) == processing # None /\ KeyOf[processing] = k

(* Faulty: the trim starts one entry too late.                             *)
RememberTooMany(history, e) ==
    IF Len(history) <= HistoryCap
    THEN Append(history, e)
    ELSE Tail(Append(history, e))

(* list.append followed by the trim to the last HistoryCap elements.       *)
Remember(history, e) ==
    IF Len(history) < HistoryCap
    THEN Append(history, e)
    ELSE Tail(Append(history, e))

(* Types; the histories the service keeps stay at 50 entries each.         *)
QueueTypeOK ==
    /\ pending \in Seq(Entry)
    /\ processing \in Entry \cup {None}
    /\ completed \in Seq(Entry) /\ Len(completed) <= HistoryCap
    /\ failed \in Seq(Entry) /\ Len(failed) <= HistoryCap
    /\ item \in Entry \cup {None}
    /\ running \in BOOLEAN

QueueInit ==
    /\ pending = <<>>
    /\ processing = None
    /\ completed = <<>>
    /\ failed = <<>>
    /\ item = None
    /\ running = TRUE

-----------------------------------------------------------------------------
(* Faulty: add tests the waiting entries and forgets the one in process.   *)
AddUnlessWaiting(e) ==
    /\ ~Waiting(KeyOf[e])
    /\ pending' = Append(pending, e)
    /\ UNCHANGED <<processing, completed, failed, item, running>>

(* add and add_s3: a key that waits or is being processed is not queued    *)
(* again; the call then changes nothing.                                   *)
Add(e) ==
    /\ ~Waiting(KeyOf[e])
    /\ ~InProcess(KeyOf[e])
    /\ pending' = Append(pending, e)
    /\ UNCHANGED <<processing, completed, failed, item, running>>

AddIgnored(e) ==
    /\ Waiting(KeyOf[e]) \/ InProcess(KeyOf[e])
    /\ UNCHANGED queueVars

(* Faulty: pop() instead of pop(0).                                        *)
GetNewest ==
    /\ running
    /\ item = None
    /\ pending # <<>>
    /\ processing' = pending[Len(pending)]
    /\ pending' = SubSeq(pending, 1, Len(pending) - 1)
    /\ item' = pending[Len(pending)]
    /\ UNCHANGED <<completed, failed, running>>

(* Faulty: the popped entry is not published in self.processing.           *)
GetWithoutClaim ==
    /\ running
    /\ item = None
    /\ pending # <<>>
    /\ pending' = Tail(pending)
    /\ item' = Head(pending)
    /\ UNCHANGED <<processing, completed, failed, running>>

(* One iteration of the worker loop finds a job: get_next pops the oldest  *)
(* entry and makes it the one in process.  An empty queue only sleeps.     *)
GetNext ==
    /\ running
    /\ item = None
    /\ pending # <<>>
    /\ processing' = Head(pending)
    /\ pending' = Tail(pending)
    /\ item' = Head(pending)
    /\ UNCHANGED <<completed, failed, running>>

(* Faulty: the error path never clears self.processing.                    *)
MarkFailedKeepsClaim ==
    /\ item # None
    /\ failed' = Remember(failed, item)
    /\ item' = None
    /\ UNCHANGED <<pending, processing, completed, running>>

(* mark_completed and mark_failed clear self.processing only if it still   *)
(* is the entry they are called with, and trim their history.              *)
ClearIfProcessing(e) ==
    processing' = IF processing = e THEN None ELSE processing

MarkCompleted ==
    /\ item # None
    /\ ClearIfProcessing(item)
    /\ completed' = Remember(completed, item)
    /\ item' = None
    /\ UNCHANGED <<pending, failed, running>>

MarkFailed ==
    /\ item # None
    /\ ClearIfProcessing(item)
    /\ failed' = Remember(failed, item)
    /\ item' = None
    /\ UNCHANGED <<pending, completed, running>>

(* stop: the worker finishes its item and leaves the loop.                 *)
Stop ==
    /\ running
    /\ running' = FALSE
    /\ UNCHANGED <<pending, processing, completed, failed, item>>

(* The process dies and starts again with an empty queue.                  *)
Restart ==
    /\ pending' = <<>>
    /\ processing' = None
    /\ completed' = <<>>
    /\ failed' = <<>>
    /\ item' = None
    /\ running' = TRUE

Worker == GetNext \/ MarkCompleted \/ MarkFailed

QueueNext ==
    \/ \E e \in Entry : Add(e) \/ AddIgnored(e)
    \/ Worker
    \/ Stop
    \/ Restart

QueueSpec == QueueInit /\ [][QueueNext]_queueVars

(* The worker thread keeps running while the process lives; callers, Stop  *)
(* and Restart are not obliged to do anything.                             *)
FairQueueSpec == QueueSpec /\ WF_queueVars(Worker)

-----------------------------------------------------------------------------
(* A key is never queued twice, and a key that is being processed does not *)
(* wait as well: whatever producers race in add / add_s3, one video is not *)
(* transcoded twice because it was announced twice.                        *)
OneJobPerKey ==
    /\ \A i, j \in 1..Len(pending) :
          KeyOf[pending[i]] = KeyOf[pending[j]] => i = j
    /\ \A i \in 1..Len(pending) : ~InProcess(KeyOf[pending[i]])

(* self.processing, which add / add_s3 and the status endpoint trust, is   *)
(* at every moment the entry in the worker's hands, and None when it holds *)
(* none: mark_completed and mark_failed clear it on every way out.         *)
ProcessingIsItem == processing = item

(* The inductive invariant of TranscodeQueueProofs.                        *)
QueueInv == QueueTypeOK /\ OneJobPerKey /\ ProcessingIsItem

(* Refinement mapping to the life cycle of a key.                          *)
KeyStatus ==
    [k \in Key |-> IF InProcess(k) THEN "running"
                   ELSE IF Waiting(k) THEN "queued"
                   ELSE "absent"]

Lifecycle == INSTANCE JobLifecycle WITH Key <- Key, status <- KeyStatus

(* The list-and-lock implementation does what JobLifecycle promises: each  *)
(* step of a caller or of the worker is one step of one key's life cycle.  *)
ImplementsLifecycle == Lifecycle!Spec

(* get_next pops from the front, so a waiting job is reached however often *)
(* other keys are submitted, unless the service is stopped or restarted.   *)
NoStarvation ==
    \A k \in Key : Waiting(k) ~> (~Waiting(k) \/ ~running)
=============================================================================
