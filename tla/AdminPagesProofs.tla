-------------------------- MODULE AdminPagesProofs --------------------------
(* Safety of the upload page of the admin dashboard, for any number of     *)
(* files, items, runs of the loop and inputs of the administrator.         *)
EXTENDS AdminPages, SequenceTheorems, FiniteSetTheorems, TLAPS

ItemStatus == {"pending", "uploading", "success", "error"}

-----------------------------------------------------------------------------
(* updateItem changes the status of the items with this id, and no other.  *)
LEMMA UpdatedItems ==
    ASSUME NEW q \in Seq(Item), NEW f, NEW st \in ItemStatus
    PROVE  /\ Updated(q, f, st) \in Seq(Item) /\ Len(Updated(q, f, st)) = Len(q)
           /\ DOMAIN Updated(q, f, st) = DOMAIN q
           /\ \A i \in DOMAIN q :
                 LET item == Updated(q, f, st)[i] IN
                 /\ item.id = q[i].id /\ item.category = q[i].category
                 /\ item.late = q[i].late
                 /\ item.status = IF q[i].id = f THEN st ELSE q[i].status
                 /\ q[i].id # f => item = q[i]
  <1>1. /\ Len(q) \in Nat /\ DOMAIN q = 1..Len(q) /\ \A i \in DOMAIN q : q[i] \in Item
    BY LenProperties, ElementOfSeq
  <1>2. \A i \in DOMAIN q :
           LET item == [q[i] EXCEPT !.status = st] IN
           /\ item \in Item /\ item.id = q[i].id /\ item.category = q[i].category
           /\ item.late = q[i].late /\ item.status = st
    BY <1>1 DEF Item, ItemStatus
  <1> DEFINE u == Updated(q, f, st)
  <1>3. /\ DOMAIN u = DOMAIN q
        /\ \A i \in DOMAIN q : u[i] = IF q[i].id = f THEN [q[i] EXCEPT !.status = st] ELSE q[i]
    BY DEF Updated
  <1>4. u = [i \in 1..Len(q) |-> u[i]]
    BY <1>1 DEF Updated
  <1> HIDE DEF u
  <1>5. \A i \in 1..Len(q) : u[i] \in Item
    BY <1>1, <1>2, <1>3
  <1>6. u \in [1..Len(q) -> Item]
    BY <1>4, <1>5
  <1>7. u \in Seq(Item) /\ Len(u) = Len(q)
    <2>1. u \in Seq(Item)
      BY <1>1, <1>6, SeqDef
    <2>2. DOMAIN u = 1..Len(u) /\ Len(u) \in Nat
      BY <2>1, LenProperties
    <2> QED
      BY <1>1, <1>3, <2>1, <2>2
  <1> QED
    BY <1>1, <1>2, <1>3, <1>7 DEF u

(* Removing the item at i moves the later ones up by one.                  *)
LEMMA RemovedItem ==
    ASSUME NEW q \in Seq(Item), NEW i \in DOMAIN q
    PROVE  /\ RemoveAt(q, i) \in Seq(Item) /\ Len(RemoveAt(q, i)) = Len(q) - 1
           /\ \A j \in 1..Len(q) - 1 :
                 RemoveAt(q, i)[j] = IF j < i THEN q[j] ELSE q[j + 1]
  <1>1. Len(q) \in Nat /\ DOMAIN q = 1..Len(q) /\ i \in 1..Len(q)
    BY LenProperties
  <1> DEFINE before == SubSeq(q, 1, i - 1)
             after == SubSeq(q, i + 1, Len(q))
  <1>2. /\ before \in Seq(Item) /\ Len(before) = i - 1
        /\ \A j \in 1..i - 1 : before[j] = q[j]
    <2>1. 1 \in Int /\ i - 1 \in Int /\ \A j \in 1..i - 1 : q[j] \in Item
      BY <1>1, ElementOfSeq
    <2>2. /\ before \in Seq(Item)
          /\ Len(before) = IF 1 <= i - 1 THEN (i - 1) - 1 + 1 ELSE 0
          /\ \A j \in 1..(i - 1) - 1 + 1 : before[j] = q[1 + j - 1]
      BY <2>1, SubSeqProperties
    <2> QED
      BY <1>1, <2>2
  <1>3. /\ after \in Seq(Item) /\ Len(after) = Len(q) - i
        /\ \A j \in 1..Len(q) - i : after[j] = q[i + j]
    <2>1. i + 1 \in Int /\ Len(q) \in Int /\ \A j \in i + 1..Len(q) : q[j] \in Item
      BY <1>1, ElementOfSeq
    <2>2. /\ after \in Seq(Item)
          /\ Len(after) = IF i + 1 <= Len(q) THEN Len(q) - (i + 1) + 1 ELSE 0
          /\ \A j \in 1..Len(q) - (i + 1) + 1 : after[j] = q[(i + 1) + j - 1]
      BY <2>1, SubSeqProperties
    <2> QED
      BY <1>1, <2>2
  <1>4. RemoveAt(q, i) = before \o after
    BY DEF RemoveAt
  <1> HIDE DEF before, after
  <1>5. /\ before \o after \in Seq(Item)
        /\ Len(before \o after) = Len(before) + Len(after)
        /\ \A j \in 1..Len(before) + Len(after) :
              (before \o after)[j] = IF j <= Len(before) THEN before[j]
                                     ELSE after[j - Len(before)]
    BY <1>2, <1>3, ConcatProperties
  <1>6. Len(before \o after) = Len(q) - 1 /\ Len(before) = i - 1 /\ Len(q) \in Nat
        /\ i \in Int
    BY <1>1, <1>2, <1>3, <1>5
  <1>7. ASSUME NEW j \in 1..Len(q) - 1
        PROVE  (before \o after)[j] = IF j < i THEN q[j] ELSE q[j + 1]
    <2>1. (before \o after)[j] = IF j <= i - 1 THEN before[j] ELSE after[j - (i - 1)]
      BY <1>5, <1>6
    <2>2. CASE j < i
      BY <1>1, <1>2, <2>1, <2>2
    <2>3. CASE ~(j < i)
      <3>1. j - (i - 1) \in 1..Len(q) - i /\ i + (j - (i - 1)) = j + 1 /\ ~(j <= i - 1)
        BY <1>1, <2>3
      <3> QED
        BY <1>3, <2>1, <2>3, <3>1
    <2> QED
      BY <2>2, <2>3
  <1> QED
    BY <1>4, <1>5, <1>6, <1>7

-----------------------------------------------------------------------------
(* The page's own loop works on the queue that is shown: items are only    *)
(* appended to it meanwhile, and none it has yet to send is done.          *)
UploadTypeOK ==
    /\ queue \in Seq(Item) /\ uploading \in BOOLEAN /\ loops \subseteq Loop
    /\ \A l \in loops : l.at \in DOMAIN l.items

IdsDiffer == \A i, j \in DOMAIN queue : queue[i].id = queue[j].id => i = j

OneLoop ==
    /\ \A l, m \in loops : l.mine /\ m.mine => l = m
    /\ uploading <=> \E l \in loops : l.mine

Follows(l) ==
    /\ Len(l.items) <= Len(queue)
    /\ \A i \in DOMAIN l.items : queue[i].id = l.items[i].id
    /\ \A i \in DOMAIN queue : queue[i].status = "uploading" <=> i = l.at
    /\ \A i \in ToSend(l.items, l.at) : queue[i].status # "success"
    /\ \A i \in DOMAIN l.items :
          i >= l.at => queue[i].late \/ queue[i].category = l.items[i].category

StoredIsKnown ==
    \A l \in loops : l.stage = "stored" => <<Sent(l).category, Sent(l).id>> \in stored

QuietQueue == ~uploading => \A i \in DOMAIN queue : queue[i].status # "uploading"

UploadInv ==
    /\ UploadTypeOK /\ IdsDiffer /\ OneLoop /\ StoredIsKnown /\ QuietQueue
    /\ \A l \in loops : l.mine => Follows(l)
    /\ SuccessIsStored

(* The steps that concern uploads.                                         *)
LeaveUpload ==
    /\ queue' = <<>> /\ uploading' = FALSE /\ stored' = stored
    /\ loops' = {} \/ loops' = {[l EXCEPT !.mine = FALSE] : l \in loops}

UploadAct ==
    \/ UNCHANGED <<uploadVars, stored>>
    \/ LeaveUpload
    \/ \E f \in File : SelectFile(f)
    \/ ChangeItem \/ ProcessQueue
    \/ \E l \in loops : UploadStep(l)

LEMMA UploadActs ==
    ASSUME [AdminNext]_adminVars
    PROVE  UploadAct
  <1>1. CASE Administrator
    <2>1. ASSUME NEW p \in Page, Navigate(p) \/ LoadPage(p) PROVE UploadAct
      BY <2>1 DEF Navigate, LoadPage, Document, LeaveUpload, UploadAct
    <2>2. CASE TypePath \/ Retranscode \/ TokenExpires
      BY <2>2 DEF TypePath, Retranscode, TokenExpires, UploadAct
    <2>3. CASE SignOut
      BY <2>3 DEF SignOut, Document, LeaveUpload, UploadAct
    <2> QED
      BY <1>1, <2>1, <2>2, <2>3 DEF Administrator, UploadAct
  <1>2. ASSUME NEW s \in Slot, Tick(s) \/ PollStep(s) \/ RetranscodeQueued(s)
        PROVE  UploadAct
    BY <1>2 DEF Tick, PollStep, RetranscodeQueued, StatusAnswers, ListCategory, TotalArrives,
                TotalFails, ContentArrives, ContentFails, StrayEnds, Keep, UploadAct
  <1>3. CASE RetranscodeFails
    BY <1>3 DEF RetranscodeFails, Keep, UploadAct
  <1>4. CASE Unauthorized
    BY <1>4 DEF Unauthorized, Document, LeaveUpload, UploadAct
  <1>5. CASE UNCHANGED adminVars
    BY <1>5 DEF adminVars, UploadAct
  <1> QED
    BY <1>1, <1>2, <1>3, <1>4, <1>5 DEF AdminNext, UploadAct

LEMMA UploadInit == AdminInit => UploadInv
  <1> SUFFICES ASSUME AdminInit PROVE UploadInv
    OBVIOUS
  <1>1. queue = <<>> /\ loops = {} /\ uploading = FALSE
    BY DEF AdminInit
  <1>2. queue \in Seq(Item) /\ \A i \in DOMAIN queue : FALSE
    BY <1>1, EmptySeq
  <1> QED
    BY <1>1, <1>2 DEF UploadInv, UploadTypeOK, IdsDiffer, OneLoop, StoredIsKnown,
                      QuietQueue, SuccessIsStored

(* What follows for the queue from its type.                               *)
LEMMA QueueFacts ==
    ASSUME UploadInv
    PROVE  /\ queue \in Seq(Item) /\ Len(queue) \in Nat /\ DOMAIN queue = 1..Len(queue)
           /\ \A i \in DOMAIN queue : queue[i] \in Item
  BY LenProperties, ElementOfSeq DEF UploadInv, UploadTypeOK

LEMMA LoopFacts ==
    ASSUME UploadInv, NEW l \in loops
    PROVE  /\ l \in Loop /\ l.items \in Seq(Item) /\ Len(l.items) \in Nat
           /\ DOMAIN l.items = 1..Len(l.items) /\ l.at \in DOMAIN l.items /\ l.at \in Nat
           /\ l.mine => DOMAIN l.items \subseteq DOMAIN queue /\ Follows(l)
  <1>1. l \in Loop /\ l.items \in Seq(Item) /\ l.at \in DOMAIN l.items
    BY DEF UploadInv, UploadTypeOK, Loop
  <1>2. Len(l.items) \in Nat /\ DOMAIN l.items = 1..Len(l.items)
    BY <1>1, LenProperties
  <1>3. l.mine => DOMAIN l.items \subseteq DOMAIN queue /\ Follows(l)
    BY <1>1, <1>2, QueueFacts DEF UploadInv, Follows
  <1> QED
    BY <1>1, <1>2, <1>3

(* The page is left, or the document: no loop is the page's any more.      *)
LEMMA LeaveUploadInv ==
    ASSUME UploadInv, LeaveUpload
    PROVE  UploadInv'
  <1>1. queue' \in Seq(Item) /\ \A i \in DOMAIN queue' : FALSE
    BY EmptySeq DEF LeaveUpload
  <1>2. \A m \in loops' : \E l \in loops : m = [l EXCEPT !.mine = FALSE]
    BY DEF LeaveUpload
  <1>3. \A l \in loops : LET m == [l EXCEPT !.mine = FALSE] IN
           /\ m \in Loop /\ ~m.mine /\ m.items = l.items /\ m.at = l.at /\ m.stage = l.stage
    <2> SUFFICES ASSUME NEW l \in Loop
                 PROVE  LET m == [l EXCEPT !.mine = FALSE] IN
                        /\ m \in Loop /\ ~m.mine /\ m.items = l.items /\ m.at = l.at
                        /\ m.stage = l.stage
      BY LoopFacts
    <2> QED
      BY DEF Loop
  <1>4. \A m \in loops' : /\ m \in Loop /\ ~m.mine
                          /\ \E l \in loops : /\ m.items = l.items /\ m.at = l.at
                                              /\ m.stage = l.stage
    BY <1>2, <1>3
  <1>5. UploadTypeOK'
    BY <1>1, <1>4, LoopFacts DEF UploadTypeOK, LeaveUpload
  <1>6. StoredIsKnown'
    BY <1>4 DEF UploadInv, StoredIsKnown, Sent, LeaveUpload
  <1>7. OneLoop'
    BY <1>4 DEF OneLoop, LeaveUpload
  <1> QED
    BY <1>1, <1>4, <1>5, <1>6, <1>7 DEF UploadInv, IdsDiffer, QuietQueue, SuccessIsStored

(* A step that leaves the loops alone: items may be appended, items that   *)
(* are shown keep id and status, and an edit of category is remembered.    *)
LEMMA ItemsKept ==
    ASSUME UploadInv, UNCHANGED <<uploading, loops, stored>>,
           queue' \in Seq(Item), Len(queue) <= Len(queue'),
           \A i \in DOMAIN queue :
              /\ queue'[i].id = queue[i].id /\ queue'[i].status = queue[i].status
              /\ queue[i].late => queue'[i].late
              /\ \/ queue'[i].category = queue[i].category
                 \/ queue[i].status = "pending" /\ (uploading => queue'[i].late),
           \A i \in DOMAIN queue' \ DOMAIN queue :
              /\ queue'[i].status = "pending"
              /\ \A j \in DOMAIN queue' : queue'[j].id = queue'[i].id => i = j
    PROVE  UploadInv'
  <1>1. DOMAIN queue' = 1..Len(queue') /\ Len(queue') \in Nat
    BY LenProperties
  <1>2. DOMAIN queue \subseteq DOMAIN queue'
    BY <1>1, QueueFacts
  <1>3. IdsDiffer'
    BY <1>2 DEF UploadInv, IdsDiffer
  <1>4. ASSUME NEW l \in loops, l.mine PROVE Follows(l)'
    <2>1. /\ Follows(l) /\ DOMAIN l.items \subseteq DOMAIN queue /\ uploading
          /\ ToSend(l.items, l.at) \subseteq DOMAIN l.items /\ l.at \in DOMAIN l.items
          /\ Len(l.items) \in Nat
      BY <1>4, LoopFacts DEF UploadInv, OneLoop, ToSend
    <2>2. Len(l.items) <= Len(queue')
      BY <1>1, <2>1, QueueFacts DEF Follows
    <2>3. \A i \in DOMAIN l.items : queue'[i].id = l.items[i].id
      BY <2>1 DEF Follows
    <2>4. \A i \in DOMAIN queue' : queue'[i].status = "uploading" <=> i = l.at
      BY <1>2, <2>1 DEF Follows
    <2>5. \A i \in ToSend(l.items, l.at) : queue'[i].status # "success"
      BY <2>1 DEF Follows
    <2>6. \A i \in DOMAIN l.items :
             i >= l.at => queue'[i].late \/ queue'[i].category = l.items[i].category
      BY <2>1 DEF Follows
    <2> QED
      BY <2>2, <2>3, <2>4, <2>5, <2>6 DEF Follows
  <1>5. SuccessIsStored'
    BY <1>2 DEF UploadInv, SuccessIsStored
  <1>6. QuietQueue'
    BY <1>2 DEF UploadInv, QuietQueue
  <1>7. UploadTypeOK' /\ OneLoop' /\ StoredIsKnown'
    BY DEF UploadInv, UploadTypeOK, OneLoop, StoredIsKnown
  <1> QED
    BY <1>3, <1>4, <1>5, <1>6, <1>7 DEF UploadInv

LEMMA SelectFileInv ==
    ASSUME UploadInv, NEW f \in File, SelectFile(f)
    PROVE  UploadInv'
  <1>1. PICK c \in Category :
           queue' = Append(queue, [id |-> f, category |-> c, late |-> FALSE,
                                   status |-> "pending"])
    BY DEF SelectFile
  <1> DEFINE new == [id |-> f, category |-> c, late |-> FALSE, status |-> "pending"]
  <1>2. new \in Item /\ new.id = f /\ new.status = "pending"
    BY DEF Item
  <1>3. queue' = Append(queue, new)
    BY <1>1
  <1> HIDE DEF new
  <1>4. /\ queue' \in Seq(Item) /\ Len(queue') = Len(queue) + 1
        /\ \A i \in 1..Len(queue) : queue'[i] = queue[i]
        /\ queue'[Len(queue) + 1] = new
    BY <1>2, <1>3, QueueFacts, AppendProperties
  <1>5. DOMAIN queue' = 1..Len(queue) + 1
    BY <1>4, LenProperties
  <1>6. \A i \in DOMAIN queue : queue'[i] = queue[i] /\ queue[i].id # f
    BY <1>4, QueueFacts DEF SelectFile
  <1>7. \A i \in DOMAIN queue' \ DOMAIN queue : i = Len(queue) + 1
    BY <1>5, QueueFacts
  <1>8. \A j \in DOMAIN queue' : queue'[j].id = f => j = Len(queue) + 1
    BY <1>6, <1>7
  <1>9. Len(queue) <= Len(queue') /\ UNCHANGED <<uploading, loops, stored>>
    BY <1>4, QueueFacts DEF SelectFile
  <1>10. \A i \in DOMAIN queue' \ DOMAIN queue :
            /\ queue'[i].status = "pending"
            /\ \A j \in DOMAIN queue' : queue'[j].id = queue'[i].id => i = j
    BY <1>2, <1>4, <1>7, <1>8
  <1> QED
    BY <1>4, <1>6, <1>9, <1>10, ItemsKept

LEMMA EditItemInv ==
    ASSUME UploadInv, NEW i \in DOMAIN queue, EditItem(i),
           UNCHANGED <<uploading, loops, stored>>
    PROVE  UploadInv'
  <1>1. PICK c \in Category : queue' = [queue EXCEPT ![i].category = c,
                                                     ![i].late = @ \/ uploading]
    BY DEF EditItem
  <1>2. uploading \in BOOLEAN /\ queue[i] \in Item
    BY QueueFacts DEF UploadInv, UploadTypeOK
  <1> DEFINE new == [queue[i] EXCEPT !.category = c, !.late = @ \/ uploading]
  <1>3. \A r \in Item, b \in BOOLEAN :
           LET n == [r EXCEPT !.category = c, !.late = @ \/ b] IN
           /\ n \in Item /\ n.id = r.id /\ n.status = r.status
           /\ r.late => n.late
           /\ b => n.late
    BY DEF Item
  <1>4. /\ new \in Item /\ new.id = queue[i].id /\ new.status = queue[i].status
        /\ queue[i].late => new.late
        /\ uploading => new.late
    BY <1>2, <1>3
  <1>5. queue' = [queue EXCEPT ![i] = new]
    BY <1>1
  <1> HIDE DEF new
  <1>6. /\ queue' \in Seq(Item) /\ Len(queue') = Len(queue) /\ queue'[i] = new
        /\ \A j \in 1..Len(queue) : j # i => queue'[j] = queue[j]
    BY <1>4, <1>5, QueueFacts, ExceptSeq
  <1>7. DOMAIN queue' = DOMAIN queue
    BY <1>6, QueueFacts, LenProperties
  <1>8. \A j \in DOMAIN queue :
           /\ queue'[j].id = queue[j].id /\ queue'[j].status = queue[j].status
           /\ queue[j].late => queue'[j].late
           /\ \/ queue'[j].category = queue[j].category
              \/ queue[j].status = "pending" /\ (uploading => queue'[j].late)
    <2> SUFFICES ASSUME NEW j \in DOMAIN queue
                 PROVE  /\ queue'[j].id = queue[j].id /\ queue'[j].status = queue[j].status
                        /\ queue[j].late => queue'[j].late
                        /\ \/ queue'[j].category = queue[j].category
                           \/ queue[j].status = "pending" /\ (uploading => queue'[j].late)
      OBVIOUS
    <2>1. CASE j = i
      BY <1>4, <1>6, <2>1 DEF EditItem
    <2>2. CASE j # i
      BY <1>6, <2>2, QueueFacts
    <2> QED
      BY <2>1, <2>2
  <1>9. Len(queue) <= Len(queue') /\ DOMAIN queue' \ DOMAIN queue = {}
    BY <1>6, <1>7, QueueFacts
  <1> QED
    BY <1>6, <1>8, <1>9, ItemsKept

LEMMA RemoveItemInv ==
    ASSUME UploadInv, NEW i \in DOMAIN queue, RemoveItem(i),
           UNCHANGED <<uploading, loops, stored>>
    PROVE  UploadInv'
  <1> DEFINE Was(j) == IF j < i THEN j ELSE j + 1
  <1>1. /\ queue' \in Seq(Item) /\ Len(queue') = Len(queue) - 1
        /\ \A j \in 1..Len(queue) - 1 : queue'[j] = queue[Was(j)]
    BY QueueFacts, RemovedItem DEF RemoveItem
  <1>2. DOMAIN queue' = 1..Len(queue) - 1
    BY <1>1, LenProperties
  <1>3. \A j \in DOMAIN queue' : Was(j) \in DOMAIN queue /\ queue'[j] = queue[Was(j)]
    BY <1>1, <1>2, QueueFacts
  <1>4. \A j, k \in DOMAIN queue' : Was(j) = Was(k) => j = k
    BY <1>2, QueueFacts
  <1> HIDE DEF Was
  <1>5. IdsDiffer'
    BY <1>3, <1>4 DEF UploadInv, IdsDiffer
  <1>6. SuccessIsStored'
    BY <1>3 DEF UploadInv, SuccessIsStored
  <1>7. QuietQueue'
    BY <1>3 DEF UploadInv, QuietQueue
  <1>8. \A l \in loops' : ~l.mine
    BY DEF UploadInv, OneLoop, RemoveItem
  <1>9. UploadTypeOK' /\ OneLoop' /\ StoredIsKnown'
    BY <1>1 DEF UploadInv, UploadTypeOK, OneLoop, StoredIsKnown
  <1> QED
    BY <1>5, <1>6, <1>7, <1>8, <1>9 DEF UploadInv

(* The button: the new loop follows the queue it has copied.               *)
LEMMA ProcessQueueInv ==
    ASSUME UploadInv, ProcessQueue
    PROVE  UploadInv'
  <1>1. PICK i \in Earliest(ToSend(queue, 0)) :
          /\ loops' = loops \cup
                {[mine |-> TRUE, items |-> queue, at |-> i, stage |-> "sent"]}
          /\ queue' = Updated(queue, queue[i].id, "uploading")
    BY DEF ProcessQueue
  <1>2. /\ i \in DOMAIN queue /\ i \in Nat \ {0} /\ queue[i].status # "success"
        /\ \A j \in DOMAIN queue : queue[j].status # "success" => i <= j
    BY <1>1, QueueFacts DEF Earliest, ToSend
  <1>3. PICK new \in Loop : /\ new.mine /\ new.items = queue /\ new.at = i
                            /\ new.stage = "sent" /\ loops' = loops \cup {new}
    <2> DEFINE n == [mine |-> TRUE, items |-> queue, at |-> i, stage |-> "sent"]
    <2> SUFFICES n \in Loop
      BY <1>1
    <2> QED
      BY <1>2, QueueFacts DEF Loop
  <1>4. loops' = loops \cup {new}
    BY <1>3
  <1>5. ~uploading /\ uploading' = TRUE /\ stored' = stored /\ \A l \in loops : ~l.mine
    BY DEF ProcessQueue, UploadInv, OneLoop
  <1>6. /\ queue' \in Seq(Item) /\ Len(queue') = Len(queue) /\ DOMAIN queue' = DOMAIN queue
        /\ \A j \in DOMAIN queue :
              /\ queue'[j].id = queue[j].id /\ queue'[j].category = queue[j].category
              /\ queue'[j].late = queue[j].late
              /\ queue'[j].status = IF queue[j].id = queue[i].id THEN "uploading"
                                    ELSE queue[j].status
    BY <1>1, QueueFacts, UpdatedItems DEF ItemStatus
  <1>7. \A j \in DOMAIN queue : queue[j].id = queue[i].id <=> j = i
    BY <1>2 DEF UploadInv, IdsDiffer
  <1>8. \A j \in DOMAIN queue :
           queue'[j].status = IF j = i THEN "uploading" ELSE queue[j].status
    BY <1>6, <1>7
  <1>9. UploadTypeOK'
    BY <1>2, <1>3, <1>4, <1>5, <1>6 DEF UploadInv, UploadTypeOK
  <1>10. IdsDiffer'
    BY <1>6 DEF UploadInv, IdsDiffer
  <1>11. OneLoop'
    BY <1>3, <1>4, <1>5 DEF OneLoop
  <1>12. StoredIsKnown'
    BY <1>3, <1>4, <1>5 DEF UploadInv, StoredIsKnown
  <1>13. QuietQueue'
    BY <1>5 DEF QuietQueue
  <1>14. SuccessIsStored'
    BY <1>5, <1>6, <1>8 DEF UploadInv, SuccessIsStored
  <1>15. Follows(new)'
    <2>1. Len(new.items) <= Len(queue')
      BY <1>3, <1>6, QueueFacts
    <2>2. \A j \in DOMAIN queue' : queue'[j].status = "uploading" <=> j = new.at
      BY <1>3, <1>5, <1>6, <1>8 DEF UploadInv, QuietQueue
    <2>3. \A j \in ToSend(new.items, new.at) :
             j \in DOMAIN queue /\ j # i /\ queue[j].status # "success"
      BY <1>2, <1>3, QueueFacts DEF ToSend
    <2>4. \A j \in ToSend(new.items, new.at) : queue'[j].status # "success"
      BY <1>8, <2>3
    <2>5. \A j \in DOMAIN new.items :
             /\ queue'[j].id = new.items[j].id
             /\ queue'[j].category = new.items[j].category
      BY <1>3, <1>6
    <2> QED
      BY <2>1, <2>2, <2>4, <2>5 DEF Follows
  <1>16. \A l \in loops' : l.mine => Follows(l)'
    BY <1>4, <1>5, <1>15
  <1> QED
    BY <1>9, <1>10, <1>11, <1>12, <1>13, <1>14, <1>16 DEF UploadInv

LEMMA StoreUploadInv ==
    ASSUME UploadInv, NEW l \in loops, StoreUpload(l)
    PROVE  UploadInv'
  <1> DEFINE new == [l EXCEPT !.stage = "stored"]
  <1>1. \A m \in Loop : LET n == [m EXCEPT !.stage = "stored"] IN
           /\ n \in Loop /\ n.mine = m.mine /\ n.items = m.items /\ n.at = m.at
           /\ n.stage = "stored"
    BY DEF Loop
  <1>2. /\ new \in Loop /\ new.mine = l.mine /\ new.items = l.items /\ new.at = l.at
        /\ new.stage = "stored"
    BY <1>1, LoopFacts
  <1>3. /\ loops' = (loops \ {l}) \cup {new}
        /\ stored' = stored \cup {<<Sent(l).category, Sent(l).id>>}
        /\ UNCHANGED <<queue, uploading>>
    BY DEF StoreUpload
  <1> HIDE DEF new
  <1>4. Sent(new) = Sent(l)
    BY <1>2 DEF Sent
  <1>5. UploadTypeOK'
    BY <1>2, <1>3, LoopFacts DEF UploadInv, UploadTypeOK
  <1>6. OneLoop'
    BY <1>2, <1>3 DEF UploadInv, OneLoop
  <1>7. StoredIsKnown'
    <2>1. \A m \in loops' : m.stage = "stored" =>
             <<m.items[m.at].category, m.items[m.at].id>> \in stored'
      BY <1>2, <1>3, <1>4 DEF UploadInv, StoredIsKnown, Sent
    <2> QED
      BY <2>1 DEF StoredIsKnown, Sent
  <1>8. \A m \in loops' : m.mine => Follows(m)'
    BY <1>2, <1>3 DEF UploadInv, Follows
  <1> QED
    BY <1>3, <1>5, <1>6, <1>7, <1>8 DEF UploadInv, IdsDiffer, QuietQueue, SuccessIsStored

(* The items after the page's own loop has ended its item with st.         *)
Ended(q, l, st) ==
    /\ q \in Seq(Item) /\ Len(q) = Len(queue) /\ DOMAIN q = DOMAIN queue
    /\ \A j \in DOMAIN queue :
          /\ q[j].id = queue[j].id /\ q[j].category = queue[j].category
          /\ q[j].late = queue[j].late
          /\ q[j].status = IF j = l.at THEN st ELSE queue[j].status
          /\ q[j].status # "uploading"
          /\ q[j].status = "success" /\ ~q[j].late =>
                <<q[j].category, q[j].id>> \in stored

LEMMA ItemEnds ==
    ASSUME UploadInv, NEW l \in loops, l.mine, NEW st \in {"success", "error"},
           st = "success" => l.stage = "stored",
           NEW q, q = Updated(queue, Sent(l).id, st)
    PROVE  Ended(q, l, st)
  <1>1. /\ q \in Seq(Item) /\ Len(q) = Len(queue) /\ DOMAIN q = DOMAIN queue
        /\ \A j \in DOMAIN queue :
              /\ q[j].id = queue[j].id /\ q[j].category = queue[j].category
              /\ q[j].late = queue[j].late
              /\ q[j].status = IF queue[j].id = Sent(l).id THEN st ELSE queue[j].status
    BY QueueFacts, UpdatedItems DEF ItemStatus
  <1>2. /\ l.at \in DOMAIN queue /\ queue[l.at].id = Sent(l).id
        /\ queue[l.at].late \/ queue[l.at].category = Sent(l).category
        /\ \A j \in DOMAIN queue : queue[j].status = "uploading" <=> j = l.at
    BY LoopFacts DEF Follows, Sent
  <1>3. \A j \in DOMAIN queue : queue[j].id = Sent(l).id <=> j = l.at
    BY <1>2 DEF UploadInv, IdsDiffer
  <1>4. \A j \in DOMAIN queue :
           q[j].status = IF j = l.at THEN st ELSE queue[j].status
    BY <1>1, <1>3
  <1>5. \A j \in DOMAIN queue : q[j].status # "uploading"
    BY <1>2, <1>4
  <1>6. ASSUME NEW j \in DOMAIN queue, q[j].status = "success", ~q[j].late
        PROVE  <<q[j].category, q[j].id>> \in stored
    <2>1. CASE j = l.at
      <3>1. <<Sent(l).category, Sent(l).id>> \in stored
        BY <1>4, <1>6, <2>1 DEF UploadInv, StoredIsKnown
      <3> QED
        BY <1>1, <1>2, <1>6, <2>1, <3>1
    <2>2. CASE j # l.at
      BY <1>1, <1>4, <1>6, <2>2 DEF UploadInv, SuccessIsStored
    <2> QED
      BY <2>1, <2>2
  <1> QED
    BY <1>1, <1>4, <1>5, <1>6 DEF Ended

(* The items after the page's own loop has gone on with item i as well.     *)
LEMMA ItemSent ==
    ASSUME UploadInv, NEW l \in loops, l.mine, NEW st, NEW q, Ended(q, l, st),
           NEW i \in ToSend(l.items, l.at), \A j \in ToSend(l.items, l.at) : i <= j,
           queue' = Updated(q, l.items[i].id, "uploading"), stored' = stored,
           NEW new \in Loop, new.items = l.items, new.at = i
    PROVE  /\ queue' \in Seq(Item) /\ DOMAIN queue' = DOMAIN queue
           /\ \A j \in DOMAIN queue : queue'[j].id = queue[j].id
           /\ SuccessIsStored'
           /\ Follows(new)'
  <1>1. /\ l.items \in Seq(Item) /\ DOMAIN l.items = 1..Len(l.items)
        /\ Len(l.items) \in Nat /\ l.at \in DOMAIN l.items /\ l.at \in Nat
        /\ i \in DOMAIN l.items /\ i \in Nat \ {0} /\ i > l.at
    BY LoopFacts DEF ToSend
  <1>2. /\ Follows(l) /\ DOMAIN l.items \subseteq DOMAIN queue
        /\ i \in DOMAIN queue /\ queue[i].id = l.items[i].id
    BY <1>1, LoopFacts DEF Follows
  <1>3. \A j \in DOMAIN queue : queue[j].id = l.items[i].id <=> j = i
    BY <1>2 DEF UploadInv, IdsDiffer
  <1>4. /\ q \in Seq(Item) /\ Len(q) = Len(queue) /\ DOMAIN q = DOMAIN queue
        /\ \A j \in DOMAIN queue :
              /\ q[j].id = queue[j].id /\ q[j].category = queue[j].category
              /\ q[j].late = queue[j].late /\ q[j].status # "uploading"
              /\ j # l.at => q[j].status = queue[j].status
    BY DEF Ended
  <1>5. /\ queue' \in Seq(Item) /\ Len(queue') = Len(queue)
        /\ DOMAIN queue' = DOMAIN queue
        /\ \A j \in DOMAIN queue :
              /\ queue'[j].id = q[j].id /\ queue'[j].category = q[j].category
              /\ queue'[j].late = q[j].late
              /\ queue'[j].status = IF q[j].id = l.items[i].id THEN "uploading"
                                    ELSE q[j].status
    BY <1>4, UpdatedItems DEF ItemStatus
  <1>6. \A j \in DOMAIN queue :
           /\ queue'[j].id = queue[j].id /\ queue'[j].category = queue[j].category
           /\ queue'[j].late = queue[j].late
           /\ queue'[j].status = IF j = i THEN "uploading" ELSE q[j].status
           /\ q[j].status # "uploading"
    <2> SUFFICES ASSUME NEW j \in DOMAIN queue
                 PROVE  /\ queue'[j].id = queue[j].id
                        /\ queue'[j].category = queue[j].category
                        /\ queue'[j].late = queue[j].late
                        /\ queue'[j].status = IF j = i THEN "uploading" ELSE q[j].status
                        /\ q[j].status # "uploading"
      OBVIOUS
    <2>1. q[j].id = queue[j].id /\ (q[j].id = l.items[i].id <=> j = i)
      BY <1>3, <1>4
    <2> QED
      BY <1>4, <1>5, <2>1
  <1>7. SuccessIsStored'
    BY <1>5, <1>6 DEF Ended, SuccessIsStored
  <1>8. \A j \in DOMAIN queue' : queue'[j].status = "uploading" <=> j = new.at
    BY <1>5, <1>6
  <1>9. \A j \in ToSend(new.items, new.at) :
           /\ j \in DOMAIN queue /\ j # i /\ j # l.at
           /\ q[j].status = queue[j].status /\ queue[j].status # "success"
    <2>1. \A j \in ToSend(new.items, new.at) :
             j \in DOMAIN l.items /\ j > i /\ j \in ToSend(l.items, l.at)
      BY <1>1 DEF ToSend
    <2>2. \A j \in ToSend(new.items, new.at) :
             j \in DOMAIN queue /\ j # i /\ j # l.at /\ queue[j].status # "success"
      BY <1>1, <1>2, <2>1 DEF Follows
    <2> QED
      BY <1>4, <2>2
  <1>10. \A j \in ToSend(new.items, new.at) : queue'[j].status # "success"
    BY <1>6, <1>9
  <1>11. \A j \in DOMAIN new.items :
            /\ queue'[j].id = new.items[j].id
            /\ j >= new.at => queue'[j].late \/ queue'[j].category = new.items[j].category
    BY <1>1, <1>2, <1>6 DEF Follows
  <1>12. Len(new.items) <= Len(queue')
    BY <1>2, <1>5 DEF Follows
  <1>13. Follows(new)'
    BY <1>8, <1>10, <1>11, <1>12 DEF Follows
  <1> QED
    BY <1>5, <1>6, <1>7, <1>13

(* The step that ends the loop, of the page or of one that was left.       *)
LEMMA LastItemInv ==
    ASSUME UploadInv, NEW l \in loops, NEW st \in {"success", "error"},
           st = "success" => l.stage = "stored", stored' = stored,
           queue' = (IF l.mine THEN Updated(queue, Sent(l).id, st) ELSE queue),
           uploading' = (uploading /\ ~l.mine), loops' = loops \ {l}
    PROVE  UploadInv'
  <1>1. /\ queue' \in Seq(Item) /\ DOMAIN queue' = DOMAIN queue
        /\ \A j \in DOMAIN queue :
              /\ queue'[j].id = queue[j].id
              /\ l.mine => queue'[j].status # "uploading"
        /\ SuccessIsStored'
    <2>1. CASE l.mine
      <3>1. PICK q : q = Updated(queue, Sent(l).id, st)
        OBVIOUS
      <3>2. Ended(q, l, st)
        BY <2>1, <3>1, ItemEnds
      <3>3. queue' = q
        BY <2>1, <3>1
      <3> QED
        BY <3>2, <3>3 DEF Ended, SuccessIsStored
    <2>2. CASE ~l.mine
      BY <2>2, QueueFacts DEF UploadInv, SuccessIsStored
    <2> QED
      BY <2>1, <2>2
  <1>2. uploading' \in BOOLEAN /\ UploadTypeOK'
    BY <1>1 DEF UploadInv, UploadTypeOK
  <1>3. OneLoop'
    BY DEF UploadInv, OneLoop
  <1>4. QuietQueue'
    BY <1>1 DEF UploadInv, QuietQueue
  <1>5. IdsDiffer' /\ StoredIsKnown'
    BY <1>1 DEF UploadInv, IdsDiffer, StoredIsKnown
  <1>6. \A m \in loops' : m.mine => Follows(m)'
    <2>1. CASE l.mine
      BY <2>1 DEF UploadInv, OneLoop
    <2>2. CASE ~l.mine
      BY <2>2 DEF UploadInv, Follows
    <2> QED
      BY <2>1, <2>2
  <1> QED
    BY <1>1, <1>2, <1>3, <1>4, <1>5, <1>6 DEF UploadInv

(* The step that goes on with the next item.                               *)
LEMMA FurtherItemInv ==
    ASSUME UploadInv, NEW l \in loops, NEW st \in {"success", "error"},
           st = "success" => l.stage = "stored", stored' = stored,
           NEW i \in Earliest(ToSend(l.items, l.at)),
           queue' = (IF l.mine
                     THEN Updated(Updated(queue, Sent(l).id, st), l.items[i].id, "uploading")
                     ELSE queue),
           uploading' = uploading,
           loops' = (loops \ {l}) \cup {[l EXCEPT !.at = i, !.stage = "sent"]}
    PROVE  UploadInv'
  <1>1. /\ l \in Loop /\ l.items \in Seq(Item) /\ DOMAIN l.items = 1..Len(l.items)
        /\ Len(l.items) \in Nat /\ l.at \in DOMAIN l.items /\ l.at \in Nat
    BY LoopFacts
  <1>2. /\ i \in DOMAIN l.items /\ i \in Nat \ {0} /\ i > l.at
        /\ i \in ToSend(l.items, l.at)
        /\ \A j \in ToSend(l.items, l.at) : i <= j
    BY <1>1 DEF Earliest, ToSend
  <1>3. PICK new \in Loop :
           /\ new.mine = l.mine /\ new.items = l.items /\ new.at = i
           /\ new.stage = "sent" /\ loops' = (loops \ {l}) \cup {new}
    <2>1. \A m \in Loop : LET n == [m EXCEPT !.at = i, !.stage = "sent"] IN
             /\ n \in Loop /\ n.mine = m.mine /\ n.items = m.items /\ n.at = i
             /\ n.stage = "sent"
      BY <1>2 DEF Loop
    <2> QED
      BY <1>1, <2>1
  <1>4. ASSUME l.mine
        PROVE  /\ queue' \in Seq(Item) /\ DOMAIN queue' = DOMAIN queue
               /\ \A j \in DOMAIN queue : queue'[j].id = queue[j].id
               /\ SuccessIsStored'
               /\ Follows(new)'
    <2>1. PICK q : q = Updated(queue, Sent(l).id, st)
      OBVIOUS
    <2>2. Ended(q, l, st)
      BY <1>4, <2>1, ItemEnds
    <2>3. queue' = Updated(q, l.items[i].id, "uploading")
      BY <1>4, <2>1
    <2> QED
      BY <1>2, <1>3, <1>4, <2>2, <2>3, ItemSent
  <1>5. /\ queue' \in Seq(Item) /\ DOMAIN queue' = DOMAIN queue
        /\ \A j \in DOMAIN queue : queue'[j].id = queue[j].id
        /\ SuccessIsStored'
    <2>1. CASE l.mine
      BY <1>4, <2>1
    <2>2. CASE ~l.mine
      BY <2>2, QueueFacts DEF UploadInv, SuccessIsStored
    <2> QED
      BY <2>1, <2>2
  <1>6. UploadTypeOK'
    BY <1>2, <1>3, <1>5 DEF UploadInv, UploadTypeOK
  <1>7. OneLoop'
    BY <1>3 DEF UploadInv, OneLoop
  <1>8. StoredIsKnown'
    <2>1. \A m \in loops' : m.stage = "stored" =>
             <<m.items[m.at].category, m.items[m.at].id>> \in stored'
      BY <1>3 DEF UploadInv, StoredIsKnown, Sent
    <2> QED
      BY <2>1 DEF StoredIsKnown, Sent
  <1>9. QuietQueue'
    <2>1. CASE l.mine
      BY <2>1 DEF UploadInv, OneLoop, QuietQueue
    <2>2. CASE ~l.mine
      BY <2>2 DEF UploadInv, QuietQueue
    <2> QED
      BY <2>1, <2>2
  <1>10. IdsDiffer'
    BY <1>5 DEF UploadInv, IdsDiffer
  <1>11. \A m \in loops' : m.mine => Follows(m)'
    <2>1. CASE l.mine
      BY <1>3, <1>4, <2>1 DEF UploadInv, OneLoop
    <2>2. CASE ~l.mine
      BY <1>3, <2>2 DEF UploadInv, Follows
    <2> QED
      BY <2>1, <2>2
  <1> QED
    BY <1>5, <1>6, <1>7, <1>8, <1>9, <1>10, <1>11 DEF UploadInv

LEMMA NextItemInv ==
    ASSUME UploadInv, NEW l \in loops, NEW st \in {"success", "error"},
           st = "success" => l.stage = "stored", NextItem(l, st)
    PROVE  UploadInv'
  <1>1. stored' = stored
    BY DEF NextItem
  <1>2. CASE /\ queue' = (IF l.mine THEN Updated(queue, Sent(l).id, st) ELSE queue)
             /\ uploading' = (uploading /\ ~l.mine)
             /\ loops' = loops \ {l}
    BY <1>1, <1>2, LastItemInv
  <1>3. ASSUME NEW i \in Earliest(ToSend(l.items, l.at)),
               queue' = (IF l.mine
                         THEN Updated(Updated(queue, Sent(l).id, st), l.items[i].id,
                                      "uploading")
                         ELSE queue),
               uploading' = uploading,
               loops' = (loops \ {l}) \cup {[l EXCEPT !.at = i, !.stage = "sent"]}
        PROVE  UploadInv'
    BY <1>1, <1>3, FurtherItemInv
  <1>4. \/ /\ queue' = (IF l.mine THEN Updated(queue, Sent(l).id, st) ELSE queue)
           /\ uploading' = (uploading /\ ~l.mine)
           /\ loops' = loops \ {l}
        \/ \E i \in Earliest(ToSend(l.items, l.at)) :
              /\ queue' = (IF l.mine
                           THEN Updated(Updated(queue, Sent(l).id, st), l.items[i].id,
                                        "uploading")
                           ELSE queue)
              /\ uploading' = uploading
              /\ loops' = (loops \ {l}) \cup {[l EXCEPT !.at = i, !.stage = "sent"]}
    <2>1. CASE l.mine
      BY <2>1 DEF NextItem
    <2>2. CASE ~l.mine
      BY <2>2 DEF NextItem
    <2> QED
      BY <2>1, <2>2
  <1> QED
    BY <1>2, <1>3, <1>4

LEMMA UploadStepInv ==
    ASSUME UploadInv, NEW l \in loops, UploadStep(l)
    PROVE  UploadInv'
  <1>1. CASE StoreUpload(l)
    BY <1>1, StoreUploadInv
  <1>2. CASE UploadDone(l)
    BY <1>2, NextItemInv DEF UploadDone
  <1>3. CASE UploadRefused(l) \/ UploadLost(l)
    BY <1>3, NextItemInv DEF UploadRefused, UploadLost
  <1> QED
    BY <1>1, <1>2, <1>3 DEF UploadStep

LEMMA UploadActInv ==
    ASSUME UploadInv, UploadAct
    PROVE  UploadInv'
  <1>1. CASE UNCHANGED <<uploadVars, stored>>
    BY <1>1 DEF uploadVars, UploadInv, UploadTypeOK, IdsDiffer, OneLoop, StoredIsKnown,
                QuietQueue, Follows, SuccessIsStored
  <1>2. CASE ChangeItem
    BY <1>2, RemoveItemInv, EditItemInv DEF ChangeItem
  <1> QED
    BY <1>1, <1>2, LeaveUploadInv, SelectFileInv, ProcessQueueInv, UploadStepInv
       DEF UploadAct

LEMMA UploadInvariant == AdminSpec => []UploadInv
  <1>1. UploadInv /\ [AdminNext]_adminVars => UploadInv'
    BY UploadActs, UploadActInv
  <1> QED
    BY <1>1, UploadInit, PTL DEF AdminSpec

-----------------------------------------------------------------------------
(* What is shown as uploaded is in the bucket, in the category shown,      *)
(* unless the item was edited after its loop had started (Upload.jsx:65).  *)
THEOREM SuccessesAreStored == AdminSpec => []SuccessIsStored
  <1>1. UploadInv => SuccessIsStored
    BY DEF UploadInv
  <1> QED
    BY <1>1, UploadInvariant, PTL

(* The flag, the item that turns and the run of processQueue agree, however*)
(* many runs of pages that were left still go on (Upload.jsx:34-89).       *)
THEOREM UploadsHaveLoops == AdminSpec => []UploadingHasLoop
  <1>1. ASSUME UploadInv PROVE UploadingHasLoop
    <2> DEFINE own == {l \in loops : l.mine}
               shown == {queue[i].id : i \in {j \in DOMAIN queue :
                                                 queue[j].status = "uploading"}}
    <2>1. CASE uploading
      <3>1. PICK l \in loops : l.mine
        BY <1>1, <2>1 DEF UploadInv, OneLoop
      <3>2. own = {l}
        BY <1>1, <3>1 DEF UploadInv, OneLoop
      <3>3. Cardinality(own) = 1
        BY <3>2, FS_Singleton
      <3>4. /\ l.at \in DOMAIN queue /\ queue[l.at].id = Sent(l).id
            /\ \A j \in DOMAIN queue : queue[j].status = "uploading" <=> j = l.at
        BY <1>1, <3>1, LoopFacts DEF Follows, Sent
      <3>5. shown = {Sent(l).id}
        BY <3>4
      <3>6. {Sent(m).id : m \in own} = {Sent(l).id}
        BY <3>2
      <3> QED
        BY <2>1, <3>3, <3>5, <3>6 DEF UploadingHasLoop
    <2>2. CASE ~uploading
      <3>1. own = {}
        BY <1>1, <2>2 DEF UploadInv, OneLoop
      <3>2. Cardinality(own) = 0
        BY <3>1, FS_EmptySet
      <3>3. shown = {}
        BY <1>1, <2>2 DEF UploadInv, QuietQueue
      <3>4. {Sent(m).id : m \in own} = {}
        BY <3>1
      <3> QED
        BY <2>2, <3>2, <3>3, <3>4 DEF UploadingHasLoop
    <2> QED
      BY <2>1, <2>2
  <1> QED
    BY <1>1, UploadInvariant, PTL

(* An upload that succeeded is not made again ("Skip already done",        *)
(* Upload.jsx:40): no step changes an item that is done.                   *)
THEOREM DoneIsNotRedone == AdminSpec => DoneOnce
  <1> DEFINE Kept == \A i \in DOMAIN queue :
                        queue[i].status = "success" /\ i \in DOMAIN queue' =>
                            queue'[i] = queue[i] \/ queue'[i].id # queue[i].id
  <1>1. ASSUME UploadInv, [AdminNext]_adminVars PROVE Kept
    <2> SUFFICES ASSUME NEW i \in DOMAIN queue, queue[i].status = "success",
                        i \in DOMAIN queue'
                 PROVE  queue'[i] = queue[i] \/ queue'[i].id # queue[i].id
      OBVIOUS
    <2>1. CASE UNCHANGED <<uploadVars, stored>> \/ (\E l \in loops : StoreUpload(l))
      BY <2>1 DEF uploadVars, StoreUpload
    <2>2. CASE LeaveUpload
      BY <2>2 DEF LeaveUpload
    <2>3. CASE \E f \in File : SelectFile(f)
      <3>1. PICK new \in Item : queue' = Append(queue, new)
        <4>1. \A f \in File, c \in Category :
                 [id |-> f, category |-> c, late |-> FALSE, status |-> "pending"] \in Item
          BY DEF Item
        <4> QED
          BY <2>3, <4>1 DEF SelectFile
      <3> QED
        BY <1>1, <3>1, QueueFacts, AppendProperties
    <2>4. CASE ChangeItem
      <3>1. PICK j \in DOMAIN queue : RemoveItem(j) \/ EditItem(j)
        BY <2>4 DEF ChangeItem
      <3>2. j # i
        BY <3>1 DEF RemoveItem, EditItem
      <3>3. CASE EditItem(j)
        BY <3>2, <3>3 DEF EditItem
      <3>4. CASE RemoveItem(j)
        <4>1. queue' = RemoveAt(queue, j)
          BY <3>4 DEF RemoveItem
        <4>2. /\ queue' \in Seq(Item) /\ Len(queue') = Len(queue) - 1
              /\ \A k \in 1..Len(queue) - 1 :
                    queue'[k] = IF k < j THEN queue[k] ELSE queue[k + 1]
          BY <1>1, <4>1, QueueFacts, RemovedItem
        <4>3. DOMAIN queue' = 1..Len(queue) - 1
          BY <4>2, LenProperties
        <4>4. CASE i < j
          BY <4>2, <4>3, <4>4
        <4>5. CASE ~(i < j)
          <5>1. i + 1 \in DOMAIN queue /\ queue'[i] = queue[i + 1] /\ i + 1 # i
            BY <1>1, <4>2, <4>3, <4>5, QueueFacts
          <5>2. queue[i + 1].id # queue[i].id
            BY <1>1, <5>1 DEF UploadInv, IdsDiffer
          <5> QED
            BY <5>1, <5>2
        <4> QED
          BY <4>4, <4>5
      <3> QED
        BY <3>1, <3>3, <3>4
    <2>5. CASE ProcessQueue
      <3>1. PICK j \in Earliest(ToSend(queue, 0)) :
               queue' = Updated(queue, queue[j].id, "uploading")
        BY <2>5 DEF ProcessQueue
      <3>2. j \in DOMAIN queue /\ j # i
        BY <3>1 DEF Earliest, ToSend
      <3>3. queue[i].id # queue[j].id
        BY <1>1, <3>2 DEF UploadInv, IdsDiffer
      <3>4. queue'[i] = queue[i]
        BY <3>1, <3>3 DEF Updated
      <3> QED
        BY <3>4
    <2>6. ASSUME NEW l \in loops, NEW st \in {"success", "error"}, NextItem(l, st)
          PROVE  queue'[i] = queue[i]
      <3>1. CASE ~l.mine
        BY <2>6, <3>1 DEF NextItem
      <3>2. CASE l.mine
        <4>1. /\ l.at \in DOMAIN queue /\ queue[l.at].id = Sent(l).id
              /\ queue[l.at].status = "uploading" /\ Follows(l)
              /\ DOMAIN l.items \subseteq DOMAIN queue
          BY <1>1, <3>2, LoopFacts DEF Follows, Sent
        <4>2. queue[i].id # Sent(l).id
          BY <1>1, <4>1 DEF UploadInv, IdsDiffer
        <4>3. \A j \in ToSend(l.items, l.at) :
                 j \in DOMAIN queue /\ queue[j].id = l.items[j].id /\ j # i
          BY <4>1 DEF Follows, ToSend
        <4>4. \A j \in ToSend(l.items, l.at) : queue[i].id # l.items[j].id
          BY <1>1, <4>3 DEF UploadInv, IdsDiffer
        <4>5. PICK q : q = Updated(queue, Sent(l).id, st)
          OBVIOUS
        <4>6. i \in DOMAIN q /\ q[i] = queue[i]
          BY <4>2, <4>5 DEF Updated
        <4>7. \/ queue' = q
              \/ \E j \in ToSend(l.items, l.at) :
                    queue' = Updated(q, l.items[j].id, "uploading")
          BY <2>6, <3>2, <4>5 DEF NextItem, Earliest
        <4> QED
          BY <4>4, <4>6, <4>7 DEF Updated
      <3> QED
        BY <3>1, <3>2
    <2>7. ASSUME NEW l \in loops, UploadStep(l), ~StoreUpload(l)
          PROVE  queue'[i] = queue[i]
      BY <2>6, <2>7 DEF UploadStep, UploadDone, UploadRefused, UploadLost
    <2>8. UploadAct
      BY <1>1, UploadActs
    <2> QED
      BY <2>1, <2>2, <2>3, <2>4, <2>5, <2>7, <2>8 DEF UploadAct
  <1>2. UploadInv /\ [AdminNext]_adminVars => [Kept]_adminVars
    BY <1>1
  <1>3. DoneOnce <=> [][Kept]_adminVars
    BY DEF DoneOnce
  <1> HIDE DEF Kept
  <1> QED
    BY <1>2, <1>3, UploadInvariant, PTL DEF AdminSpec
=============================================================================
