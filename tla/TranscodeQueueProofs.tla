------------------------ MODULE TranscodeQueueProofs ------------------------
(***************************************************************************)
(* Proofs about TranscodeQueue, for every set of entries and every history *)
(* bound: its invariants, and that it implements JobLifecycle.             *)
(***************************************************************************)
EXTENDS TranscodeQueue, TLAPS, SequenceTheorems

(* Popping the front of a non-empty list: what remains is the rest, in the *)
(* same order.                                                             *)
LEMMA PopFront ==
    ASSUME NEW S, NEW s \in Seq(S), s # <<>>
    PROVE  /\ Len(s) \in Nat \ {0}
           /\ Head(s) = s[1]
           /\ Head(s) \in S
           /\ Tail(s) \in Seq(S)
           /\ Len(Tail(s)) = Len(s) - 1
           /\ \A i \in 1..Len(Tail(s)) : Tail(s)[i] = s[i + 1]
  BY EmptySeq, HeadTailProperties

(* mark_completed and mark_failed keep a history a list of entries within  *)
(* its bound.                                                              *)
LEMMA RememberBounded ==
    ASSUME NEW history \in Seq(Entry), NEW e \in Entry,
           Len(history) <= HistoryCap
    PROVE  /\ Remember(history, e) \in Seq(Entry)
           /\ Len(Remember(history, e)) <= HistoryCap
<1>1. /\ Append(history, e) \in Seq(Entry)
      /\ Append(history, e) # <<>>
      /\ Len(Append(history, e)) = Len(history) + 1
  BY AppendProperties
<1>2. /\ Tail(Append(history, e)) \in Seq(Entry)
      /\ Len(Tail(Append(history, e))) = Len(history)
  BY <1>1, PopFront, LenProperties
<1>3. Len(history) \in Nat
  BY LenProperties
<1>4. QED
  BY <1>1, <1>2, <1>3, QueueAssumption DEF Remember

-----------------------------------------------------------------------------
(* The initial queue satisfies the invariant.                              *)
LEMMA QueueInitInv == QueueInit => QueueInv
  BY QueueAssumption
     DEF QueueInit, QueueInv, QueueTypeOK, OneJobPerKey, ProcessingIsItem,
         InProcess

(* add / add_s3 keep keys apart: the appended key was neither waiting nor  *)
(* in process.                                                             *)
LEMMA AddInv ==
    ASSUME QueueInv, NEW e \in Entry, Add(e)
    PROVE  QueueInv'
<1> USE QueueAssumption
<1> USE DEF QueueInv, QueueTypeOK, ProcessingIsItem
<1>1. /\ pending' \in Seq(Entry)
      /\ Len(pending) \in Nat
      /\ Len(pending') = Len(pending) + 1
      /\ \A i \in 1..Len(pending) : pending'[i] = pending[i]
      /\ pending'[Len(pending) + 1] = e
  BY AppendProperties, LenProperties DEF Add
<1>2. \A i \in 1..Len(pending) : KeyOf[pending[i]] # KeyOf[e]
  BY DEF Add, Waiting
<1>3. \A i \in 1..Len(pending') :
         \/ i \in 1..Len(pending) /\ pending'[i] = pending[i]
         \/ i = Len(pending) + 1 /\ pending'[i] = e
  BY <1>1
<1>4. \A i, j \in 1..Len(pending') :
         KeyOf[pending'[i]] = KeyOf[pending'[j]] => i = j
  BY <1>2, <1>3 DEF OneJobPerKey
<1>5. \A i \in 1..Len(pending') :
         ~(processing' # None /\ KeyOf[processing'] = KeyOf[pending'[i]])
  BY <1>3 DEF OneJobPerKey, Add, InProcess
<1>6. OneJobPerKey'
  BY <1>4, <1>5 DEF OneJobPerKey, InProcess
<1>7. QED
  BY <1>1, <1>6 DEF Add

(* get_next: the entry that becomes the one in process had a key of its    *)
(* own among the waiting ones.                                             *)
LEMMA GetNextInv ==
    ASSUME QueueInv, GetNext
    PROVE  QueueInv'
<1> USE QueueAssumption
<1> USE DEF QueueInv, QueueTypeOK, ProcessingIsItem
<1>1. /\ Len(pending) \in Nat \ {0}
      /\ processing' = pending[1]
      /\ processing' \in Entry
      /\ pending' \in Seq(Entry)
      /\ Len(pending') = Len(pending) - 1
      /\ \A i \in 1..Len(pending') : pending'[i] = pending[i + 1]
  BY PopFront DEF GetNext
<1>2. \A i \in 1..Len(pending') : i + 1 \in 1..Len(pending)
  BY <1>1
<1>3. \A i, j \in 1..Len(pending') :
         KeyOf[pending'[i]] = KeyOf[pending'[j]] => i = j
  BY <1>1, <1>2 DEF OneJobPerKey
<1>4. \A i \in 1..Len(pending') : KeyOf[pending'[i]] # KeyOf[processing']
  BY <1>1, <1>2 DEF OneJobPerKey
<1>5. OneJobPerKey'
  BY <1>3, <1>4 DEF OneJobPerKey, InProcess
<1>6. QED
  BY <1>1, <1>5 DEF GetNext

(* mark_completed and mark_failed release the entry in process and touch   *)
(* no waiting one.                                                         *)
LEMMA MarkInv ==
    ASSUME QueueInv, MarkCompleted \/ MarkFailed
    PROVE  QueueInv'
<1> USE QueueAssumption DEF QueueInv, ProcessingIsItem
<1>1. /\ item \in Entry
      /\ processing' = None
      /\ item' = None
      /\ pending' = pending
      /\ running' = running
  BY DEF QueueTypeOK, MarkCompleted, MarkFailed, ClearIfProcessing
<1>2. OneJobPerKey'
  BY <1>1 DEF OneJobPerKey, InProcess
<1>3. /\ completed' \in Seq(Entry) /\ Len(completed') <= HistoryCap
      /\ failed' \in Seq(Entry) /\ Len(failed') <= HistoryCap
  <2>1. CASE MarkCompleted
    BY <2>1, <1>1, RememberBounded
       DEF MarkCompleted, QueueTypeOK
  <2>2. CASE MarkFailed
    BY <2>2, <1>1, RememberBounded
       DEF MarkFailed, QueueTypeOK
  <2>3. QED
    BY <2>1, <2>2
<1>4. QED
  BY <1>1, <1>2, <1>3 DEF QueueTypeOK

(* Every step of the queue preserves the invariant.                        *)
LEMMA QueueNextInv ==
    ASSUME QueueInv, [QueueNext]_queueVars
    PROVE  QueueInv'
<1>1. ASSUME NEW e \in Entry, Add(e)
      PROVE  QueueInv'
  BY <1>1, AddInv
<1>2. CASE GetNext
  BY <1>2, GetNextInv
<1>3. CASE MarkCompleted \/ MarkFailed
  BY <1>3, MarkInv
<1>4. CASE Stop
  BY <1>4
     DEF Stop, QueueInv, QueueTypeOK, OneJobPerKey, ProcessingIsItem,
         InProcess
<1>5. CASE Restart
  BY <1>5, QueueAssumption
     DEF Restart, QueueInv, QueueTypeOK, OneJobPerKey, ProcessingIsItem,
         InProcess
<1>6. CASE UNCHANGED queueVars
  BY <1>6
     DEF queueVars, QueueInv, QueueTypeOK, OneJobPerKey, ProcessingIsItem,
         InProcess
<1>7. QED
  BY <1>1, <1>2, <1>3, <1>4, <1>5, <1>6
     DEF QueueNext, Worker, AddIgnored

-----------------------------------------------------------------------------
(* The queue always has the invariant: types, one job per key,             *)
(* self.processing is the worker's item, and bounded histories.            *)
THEOREM QueueSafety == QueueSpec => []QueueInv
  BY QueueInitInv, QueueNextInv, PTL DEF QueueSpec

(* Whatever the producers do, no video is queued twice, nor queued while   *)
(* it is being transcoded (add, add_s3, get_next).                 *)
THEOREM AtMostOneJobPerKey == QueueSpec => []OneJobPerKey
<1>1. QueueInv => OneJobPerKey
  BY DEF QueueInv
<1>2. QED
  BY <1>1, QueueSafety, PTL

(* The histories hold at most fifty entries each (HistoryCap), whatever is *)
(* reported in whatever order.                                             *)
THEOREM HistoriesBounded == QueueSpec => []QueueTypeOK
<1>1. QueueInv => QueueTypeOK
  BY DEF QueueInv
<1>2. QED
  BY <1>1, QueueSafety, PTL

(* The claim that add and add_s3 look at is the item the worker has in its *)
(* hands, at every moment and for any number of producers.                 *)
THEOREM ClaimIsExact == QueueSpec => []ProcessingIsItem
<1>1. QueueInv => ProcessingIsItem
  BY DEF QueueInv
<1>2. QED
  BY <1>1, QueueSafety, PTL

-----------------------------------------------------------------------------
(* What KeyStatus says of one key, and of every key.                       *)
LEMMA StatusOfKey ==
    ASSUME NEW k \in Key
    PROVE  /\ InProcess(k) => KeyStatus[k] = "running"
           /\ ~InProcess(k) /\ Waiting(k) => KeyStatus[k] = "queued"
           /\ ~InProcess(k) /\ ~Waiting(k) => KeyStatus[k] = "absent"
  BY DEF KeyStatus

(* add / add_s3 submit exactly the key of the entry.                       *)
LEMMA AddSubmits ==
    ASSUME QueueInv, NEW e \in Entry, Add(e)
    PROVE  Lifecycle!Submit(KeyOf[e])
<1> DEFINE key == KeyOf[e]
<1>1. key \in Key
  BY QueueAssumption
<1>2. /\ Len(pending) \in Nat
      /\ Len(pending') = Len(pending) + 1
      /\ \A i \in 1..Len(pending) : pending'[i] = pending[i]
      /\ pending'[Len(pending) + 1] = e
      /\ processing' = processing
  BY AppendProperties, LenProperties DEF Add, QueueInv, QueueTypeOK
<1>3. ~Waiting(key) /\ ~InProcess(key)
  BY DEF Add
<1>4. \A k \in Key : (\E i \in 1..Len(pending') : KeyOf[pending'[i]] = k)
                       <=> k = key \/ Waiting(k)
  <2> SUFFICES ASSUME NEW k \in Key
               PROVE  (\E i \in 1..Len(pending') : KeyOf[pending'[i]] = k)
                      <=> k = key \/ Waiting(k)
    OBVIOUS
  <2>1. ASSUME k = key
        PROVE  \E i \in 1..Len(pending') : KeyOf[pending'[i]] = k
    BY <1>2, <2>1, Len(pending) + 1 \in 1..Len(pending')
  <2>2. ASSUME Waiting(k)
        PROVE  \E i \in 1..Len(pending') : KeyOf[pending'[i]] = k
    <3>1. PICK i \in 1..Len(pending) : KeyOf[pending[i]] = k
      BY <2>2 DEF Waiting
    <3>2. i \in 1..Len(pending') /\ KeyOf[pending'[i]] = k
      BY <1>2, <3>1
    <3>3. QED
      BY <3>2
  <2>3. ASSUME NEW i \in 1..Len(pending'), KeyOf[pending'[i]] = k, k # key
        PROVE  Waiting(k)
    <3>1. i \in 1..Len(pending) /\ KeyOf[pending[i]] = k
      BY <1>2, <2>3
    <3>2. QED
      BY <3>1 DEF Waiting
  <2>4. QED
    BY <2>1, <2>2, <2>3
<1>5. KeyStatus' = [KeyStatus EXCEPT ![key] = "queued"]
  BY <1>1, <1>2, <1>3, <1>4 DEF KeyStatus, InProcess, Waiting
<1>6. KeyStatus[key] = "absent"
  BY <1>1, <1>3, StatusOfKey
<1>7. QED
  BY <1>5, <1>6 DEF Lifecycle!Submit

(* get_next takes exactly the key of the oldest entry, while no key runs.  *)
LEMMA GetNextTakes ==
    ASSUME QueueInv, GetNext
    PROVE  /\ KeyOf[Head(pending)] \in Key
           /\ Lifecycle!Take(KeyOf[Head(pending)])
<1> DEFINE key == KeyOf[Head(pending)]
<1>1. /\ Len(pending) \in Nat \ {0}
      /\ Head(pending) = pending[1]
      /\ Head(pending) \in Entry
      /\ processing' = Head(pending)
      /\ processing' # None
      /\ Len(pending') = Len(pending) - 1
      /\ \A i \in 1..Len(pending') : pending'[i] = pending[i + 1]
  BY PopFront, QueueAssumption DEF GetNext, QueueInv, QueueTypeOK
<1>2. key \in Key
  BY <1>1, QueueAssumption
<1>3. \A k \in Key : ~InProcess(k)
  BY DEF GetNext, QueueInv, ProcessingIsItem, InProcess
<1>4. Waiting(key)
  BY <1>1 DEF Waiting
<1>5. \A k \in Key : k # key =>
         ((\E i \in 1..Len(pending') : KeyOf[pending'[i]] = k) <=> Waiting(k))
  <2> SUFFICES ASSUME NEW k \in Key, k # key
               PROVE  (\E i \in 1..Len(pending') : KeyOf[pending'[i]] = k)
                      <=> Waiting(k)
    OBVIOUS
  <2>1. ASSUME Waiting(k)
        PROVE  \E i \in 1..Len(pending') : KeyOf[pending'[i]] = k
    <3>1. PICK i \in 1..Len(pending) : KeyOf[pending[i]] = k
      BY <2>1 DEF Waiting
    <3>2. i # 1
      BY <1>1, <3>1
    <3>3. i - 1 \in 1..Len(pending') /\ pending'[i - 1] = pending[i]
      BY <1>1, <3>2
    <3>4. QED
      BY <3>1, <3>3
  <2>2. ASSUME NEW i \in 1..Len(pending'), KeyOf[pending'[i]] = k
        PROVE  Waiting(k)
    <3>1. i + 1 \in 1..Len(pending) /\ KeyOf[pending[i + 1]] = k
      BY <1>1, <2>2
    <3>2. QED
      BY <3>1 DEF Waiting
  <2>3. QED
    BY <2>1, <2>2
<1>6. KeyStatus' = [KeyStatus EXCEPT ![key] = "running"]
  BY <1>1, <1>2, <1>3, <1>5 DEF KeyStatus, InProcess, Waiting
<1>7. \A k \in Key : KeyStatus[k] # "running"
  BY <1>3 DEF KeyStatus
<1>8. KeyStatus[key] = "queued"
  BY <1>2, <1>3, <1>4, StatusOfKey
<1>9. QED
  BY <1>2, <1>6, <1>7, <1>8 DEF Lifecycle!Take

(* mark_completed and mark_failed settle the key of the worker's item.     *)
LEMMA MarkSettles ==
    ASSUME QueueInv, MarkCompleted \/ MarkFailed
    PROVE  /\ KeyOf[item] \in Key
           /\ Lifecycle!Settle(KeyOf[item])
<1> DEFINE key == KeyOf[item]
<1>1. /\ item \in Entry
      /\ processing = item
      /\ processing # None
      /\ processing' = None
      /\ pending' = pending
  BY QueueAssumption
     DEF QueueInv, QueueTypeOK, ProcessingIsItem, MarkCompleted, MarkFailed,
         ClearIfProcessing
<1>2. key \in Key
  BY <1>1, QueueAssumption
<1>3. InProcess(key) /\ \A k \in Key : InProcess(k) => k = key
  BY <1>1 DEF InProcess
<1>4. ~Waiting(key)
  BY <1>3 DEF QueueInv, OneJobPerKey, Waiting
<1>5. KeyStatus' = [KeyStatus EXCEPT ![key] = "absent"]
  BY <1>1, <1>2, <1>3, <1>4 DEF KeyStatus, InProcess, Waiting
<1>6. KeyStatus[key] = "running"
  BY <1>2, <1>3, StatusOfKey
<1>7. QED
  BY <1>2, <1>5, <1>6 DEF Lifecycle!Settle

(* Every step of the queue is a step of some key's life cycle, or none.    *)
LEMMA StepRefines ==
    ASSUME QueueInv, [QueueNext]_queueVars
    PROVE  [Lifecycle!Next]_KeyStatus
<1>1. ASSUME NEW e \in Entry, Add(e)
      PROVE  Lifecycle!Next
  BY <1>1, AddSubmits, QueueAssumption DEF Lifecycle!Next
<1>2. CASE GetNext
  BY <1>2, GetNextTakes DEF Lifecycle!Next
<1>3. CASE MarkCompleted \/ MarkFailed
  BY <1>3, MarkSettles DEF Lifecycle!Next
<1>4. CASE Stop
  BY <1>4 DEF Stop, KeyStatus, InProcess, Waiting
<1>5. CASE Restart
  <2>1. KeyStatus' = [k \in Key |-> "absent"]
    BY <1>5 DEF Restart, KeyStatus, InProcess, Waiting
  <2>2. QED
    BY <2>1 DEF Lifecycle!Next, Lifecycle!Forget
<1>6. CASE UNCHANGED queueVars
  BY <1>6 DEF queueVars, KeyStatus, InProcess, Waiting
<1>7. QED
  BY <1>1, <1>2, <1>3, <1>4, <1>5, <1>6
     DEF QueueNext, Worker, AddIgnored

(* The queue of file_watcher.py implements the life cycle promised to its  *)
(* callers: a key waits at most once, one key runs at a time, and a key    *)
(* runs only after it has waited.                                          *)
THEOREM QueueImplementsLifecycle == QueueSpec => ImplementsLifecycle
<1>1. QueueInit => Lifecycle!Init
  BY DEF QueueInit, Lifecycle!Init, KeyStatus, InProcess, Waiting
<1>2. QueueInv /\ [QueueNext]_queueVars => [Lifecycle!Next]_KeyStatus
  BY StepRefines
<1>3. QED
  BY <1>1, <1>2, QueueSafety, PTL
     DEF QueueSpec, ImplementsLifecycle, Lifecycle!Spec
=============================================================================
