----------------------------- MODULE AdminPages -----------------------------
(***************************************************************************)
(* The pages of the admin dashboard: uploads one file after the other,     *)
(* the dashboard and the transcoding page polling the services, and the    *)
(* content library.  One page is mounted at a time.                        *)
(*                                                                         *)
(* processQueue is an asynchronous function: it goes on when its page has  *)
(* been left through a link of the sidebar, for a component that is gone,  *)
(* and ends with the document when an address is loaded.  GET              *)
(* /queue/status answers {storage_type, queue}; the pages look for the     *)
(* counters one level higher, so that every answer reads as an idle queue. *)
(***************************************************************************)
EXTENDS Integers, Sequences, FiniteSets, SequencesExt

CONSTANTS
    None,
    File,        \* the files an administrator may choose
    Listable,    \* those the media library lists: by extension and name
    Category,    \* "Movies" among them: where uploads go
    ScanOrder,   \* the categories, in the order in which they are listed
    Slot,        \* bound on the polls in flight
    MaxInputs,   \* bound on what the administrator does
    MaxFaults    \* bound on requests that fail

ASSUME AdminAssumption ==
    /\ MaxInputs \in Nat /\ MaxFaults \in Nat /\ "Movies" \in Category
    /\ Listable \subseteq File
    /\ ScanOrder \in Seq(Category)
    /\ \A c \in Category : \E i \in DOMAIN ScanOrder : ScanOrder[i] = c

VARIABLES
    page,        \* the mounted page; "login": redirected; "blank": crashed
    valid,       \* the token is still accepted by the gateway
    view,        \* state of the mounted page, that of Upload excepted
    polls,       \* polls[s]: what the poll in slot s is about to do
    queue,       \* Upload: the items
    uploading,   \* Upload: the flag
    loops,       \* runs of processQueue; mine: of the mounted page
    stored,      \* category and file of the objects in the bucket
    inputs, faults

uploadVars == <<queue, uploading, loops>>
adminVars == <<page, valid, view, polls, uploadVars, stored, inputs, faults>>

Page == {"dashboard", "upload", "transcoding", "library"}
View == [loading : BOOLEAN, error : BOOLEAN, total : Nat, typed : BOOLEAN,
         busy : BOOLEAN, msg : {"none", "success", "error"}]
Item == [id : File, category : Category, late : BOOLEAN,
         status : {"pending", "uploading", "success", "error"}]
Loop == [mine : BOOLEAN, items : Seq(Item), at : Nat \ {0},
         stage : {"sent", "stored"}]
PollStage == {"idle", "status", "library", "content", "stray"}
Poll == [stage : PollStage, listed : 0..Len(ScanOrder), read : Nat]

(* Types; polls of a kind the mounted page does not make are strays.       *)
AdminTypeOK ==
    /\ page \in Page \cup {"login", "blank"} /\ valid \in BOOLEAN
    /\ view \in View
    /\ polls \in [Slot -> Poll]
    /\ \A s \in Slot :
          /\ polls[s].stage = "status" => page \in {"dashboard", "transcoding"}
          /\ polls[s].stage = "library" => page = "dashboard"
          /\ polls[s].stage = "content" => page = "library"
    /\ queue \in Seq(Item) /\ uploading \in BOOLEAN /\ loops \subseteq Loop
    /\ stored \subseteq Category \X File
    /\ inputs \in 0..MaxInputs /\ faults \in 0..MaxFaults

NewView == [loading |-> TRUE, error |-> FALSE, total |-> 0, typed |-> FALSE,
            busy |-> FALSE, msg |-> "none"]
Doing(st) == [stage |-> st, listed |-> 0, read |-> 0]
Idle == Doing("idle")

(* One more request in flight.                                             *)
Begun(q, st) ==
    LET s == CHOOSE s \in Slot : q[s] = Idle IN [q EXCEPT ![s] = Doing(st)]

(* The first request of a page.                                            *)
FirstPoll(p, quiet) ==
    IF p = "upload" THEN quiet
    ELSE Begun(quiet, IF p = "library" THEN "content" ELSE "status")

AdminInit ==
    /\ page = "dashboard" /\ valid = TRUE /\ view = NewView
    /\ polls = FirstPoll("dashboard", [s \in Slot |-> Idle])
    /\ queue = <<>> /\ uploading = FALSE /\ loops = {} /\ stored = {}
    /\ inputs = 0 /\ faults = 0

Input == inputs < MaxInputs /\ inputs' = inputs + 1
Fault == faults < MaxFaults /\ faults' = faults + 1

-----------------------------------------------------------------------------
(* A link of the sidebar: the page is replaced; its requests, a request to *)
(* re-transcode among them, become strays, and its upload goes on unseen.  *)
Stray ==
    LET left == [s \in Slot |-> IF polls[s] = Idle THEN Idle ELSE Doing("stray")]
    IN  IF view.busy THEN Begun(left, "stray") ELSE left

Navigate(p) ==
    /\ page \in Page /\ p \in Page \ {page}
    /\ Cardinality({s \in Slot : polls[s] = Idle})
          >= (IF p # "upload" THEN 1 ELSE 0) + (IF view.busy THEN 1 ELSE 0)
    /\ Input
    /\ page' = p /\ view' = NewView
    /\ polls' = FirstPoll(p, Stray)
    /\ queue' = <<>> /\ uploading' = FALSE
    /\ loops' = {[l EXCEPT !.mine = FALSE] : l \in loops}
    /\ UNCHANGED <<valid, stored, faults>>

(* A quick action of the dashboard, Retry, the address bar: a new document.*)
Document(p) ==
    /\ page' = p /\ view' = NewView
    /\ queue' = <<>> /\ uploading' = FALSE /\ loops' = {}

LoadPage(p) ==
    /\ page # "login"
    /\ Input
    /\ Document(p)
    /\ polls' = FirstPoll(p, [s \in Slot |-> Idle])
    /\ UNCHANGED <<valid, stored, faults>>

(* "Logout" or "Back to App" in the sidebar: the viewer front end is        *)
(* loaded instead, and whatever was under way here is dropped.             *)
SignOut ==
    /\ page \in Page
    /\ Input
    /\ Document("login")
    /\ polls' = [s \in Slot |-> Idle]
    /\ UNCHANGED <<valid, stored, faults>>

(* The token expires.  The answer 401 to any request of api(), one of a    *)
(* page long left included, leads to the login page of the viewer.         *)
TokenExpires == valid /\ Input /\ valid' = FALSE
                /\ UNCHANGED <<page, view, polls, uploadVars, stored, faults>>

Unauthorized ==
    /\ ~valid
    /\ (\E s \in Slot : polls[s] # Idle) \/ view.busy
    /\ Document("login")
    /\ polls' = [s \in Slot |-> Idle]
    /\ UNCHANGED <<valid, stored, inputs, faults>>

-----------------------------------------------------------------------------
(* Upload.  handleFileSelect appends pending items, at any time.           *)
SelectFile(f) ==
    /\ page = "upload" /\ \A i \in DOMAIN queue : queue[i].id # f
    /\ Input
    /\ \E c \in Category :
          queue' = Append(queue, [id |-> f, category |-> c, late |-> FALSE,
                                  status |-> "pending"])
    /\ UNCHANGED <<page, valid, view, polls, uploading, loops, stored, faults>>

(* A pending item can be removed while nothing is uploaded, and edited     *)
(* even then; late: the running loop does not know of the edit.            *)
RemoveItem(i) ==
    /\ queue[i].status = "pending" /\ ~uploading
    /\ queue' = RemoveAt(queue, i)

EditItem(i) ==
    /\ queue[i].status = "pending"
    /\ \E c \in Category \ {queue[i].category} :
          queue' = [queue EXCEPT ![i].category = c, ![i].late = @ \/ uploading]

ChangeItem ==
    /\ page = "upload" /\ \E i \in DOMAIN queue : RemoveItem(i) \/ EditItem(i)
    /\ Input
    /\ UNCHANGED <<page, valid, view, polls, uploading, loops, stored, faults>>

(* updateItem: items are found by id, if the page is still there.          *)
Updated(q, f, st) ==
    [i \in DOMAIN q |-> IF q[i].id = f THEN [q[i] EXCEPT !.status = st] ELSE q[i]]

(* Faulty: items that are done are sent again.                             *)
ToSendAll(items, i) == {j \in DOMAIN items : j > i}

(* What the loop has to send after its item i.  It goes through the items  *)
(* as they were when it started, and skips those that were done then.      *)
ToSend(items, i) == {j \in DOMAIN items : j > i /\ items[j].status # "success"}
Earliest(S) == {i \in S : \A j \in S : i <= j}
Sent(l) == l.items[l.at]

PendingCount == Cardinality({i \in DOMAIN queue : queue[i].status = "pending"})

(* Faulty: the button stays while an upload runs.                          *)
ProcessAgain ==
    /\ page = "upload" /\ PendingCount > 0
    /\ Input
    /\ uploading' = TRUE
    /\ \E i \in Earliest(ToSend(queue, 0)) :
          /\ loops' = loops \cup
                {[mine |-> TRUE, items |-> queue, at |-> i, stage |-> "sent"]}
          /\ queue' = Updated(queue, queue[i].id, "uploading")
    /\ UNCHANGED <<page, valid, view, polls, stored, faults>>

(* "Start Upload": the first request is sent at once.                      *)
ProcessQueue ==
    /\ page = "upload" /\ PendingCount > 0 /\ ~uploading
    /\ Input
    /\ uploading' = TRUE
    /\ \E i \in Earliest(ToSend(queue, 0)) :
          /\ loops' = loops \cup
                {[mine |-> TRUE, items |-> queue, at |-> i, stage |-> "sent"]}
          /\ queue' = Updated(queue, queue[i].id, "uploading")
    /\ UNCHANGED <<page, valid, view, polls, stored, faults>>

(* The object is stored under the category the loop has sent.              *)
StoreUpload(l) ==
    /\ l.stage = "sent" /\ valid
    /\ loops' = (loops \ {l}) \cup {[l EXCEPT !.stage = "stored"]}
    /\ stored' = stored \cup {<<Sent(l).category, Sent(l).id>>}
    /\ UNCHANGED <<page, valid, view, polls, queue, uploading, inputs, faults>>

(* The item of the loop ends with st and the next request is sent, or the  *)
(* loop ends.                                                              *)
NextItem(l, st) ==
    LET done == IF l.mine THEN Updated(queue, Sent(l).id, st) ELSE queue
        rest == ToSend(l.items, l.at) IN
    /\ \/ /\ rest = {}
          /\ queue' = done
          /\ uploading' = (uploading /\ ~l.mine)
          /\ loops' = loops \ {l}
       \/ \E i \in Earliest(rest) :
          /\ queue' = IF l.mine THEN Updated(done, l.items[i].id, "uploading") ELSE done
          /\ loops' = (loops \ {l}) \cup {[l EXCEPT !.at = i, !.stage = "sent"]}
          /\ UNCHANGED uploading
    /\ UNCHANGED <<page, valid, view, polls, stored, inputs>>

UploadDone(l) == l.stage = "stored" /\ NextItem(l, "success") /\ UNCHANGED faults

(* Faulty: the status of the answer is not looked at.                      *)
RefusedAsDone(l) ==
    /\ l.stage = "sent"
    /\ IF valid THEN Fault ELSE UNCHANGED faults
    /\ NextItem(l, "success")

(* The service refuses the file, or the gateway the token: this request    *)
(* does not go through api(), so that nobody is sent to the login page.    *)
UploadRefused(l) ==
    /\ l.stage = "sent"
    /\ IF valid THEN Fault ELSE UNCHANGED faults
    /\ NextItem(l, "error")

(* Faulty: a lost answer has the file sent again, without end.             *)
RetryLost(l) ==
    /\ l.stage = "stored"
    /\ loops' = (loops \ {l}) \cup {[l EXCEPT !.stage = "sent"]}
    /\ UNCHANGED <<page, valid, view, polls, queue, uploading, stored, inputs, faults>>

(* "Network Error", though the file may have been stored.                  *)
UploadLost(l) == Fault /\ NextItem(l, "error")

UploadStep(l) ==
    StoreUpload(l) \/ UploadDone(l) \/ UploadRefused(l) \/ UploadLost(l)

-----------------------------------------------------------------------------
Keep == UNCHANGED <<page, valid, uploadVars, stored, inputs>>

(* Faulty: polled once, when the page is mounted.                          *)
TickNever(s) == FALSE /\ UNCHANGED adminVars

(* The timers of Dashboard (10 s) and Transcoding (5 s), which do not wait *)
(* for the previous poll.                                                  *)
Tick(s) ==
    /\ page \in {"dashboard", "transcoding"} /\ polls[s] = Idle
    /\ polls' = [polls EXCEPT ![s] = Doing("status")]
    /\ UNCHANGED <<view, faults>> /\ Keep

(* /transcoding/status: Dashboard goes on to the library whatever comes,   *)
(* Transcoding shows or clears its error.                                  *)
StatusAnswers(s) ==
    /\ valid /\ polls[s].stage = "status"
    /\ \E failed \in BOOLEAN :
          /\ IF failed THEN Fault ELSE UNCHANGED faults
          /\ view' = IF page = "transcoding" THEN [view EXCEPT !.error = failed]
                     ELSE view
    /\ polls' = [polls EXCEPT ![s] = IF page = "dashboard" THEN Doing("library")
                                     ELSE Idle]
    /\ Keep

(* What the media library shows of a category: the service keeps the       *)
(* objects with a video extension and without a skip keyword in the name.  *)
Shown(c) == {f \in Listable : <<c, f>> \in stored}

(* GET /media/library and /cms/content, once let through by the gateway,   *)
(* list one category after the other.  ScanAll goes on when the listing of *)
(* one fails, and the total is then short of it.                           *)
ListCategory(s) ==
    /\ polls[s].stage \in {"library", "content"} /\ polls[s].listed < Len(ScanOrder)
    /\ polls[s].listed = 0 => valid
    /\ LET next == polls[s].listed + 1 IN
       \E failed \in BOOLEAN :
          /\ IF failed THEN Fault ELSE UNCHANGED faults
          /\ polls' = [polls EXCEPT ![s].listed = next,
                ![s].read = @ + IF failed THEN 0 ELSE Cardinality(Shown(ScanOrder[next]))]
    /\ UNCHANGED view /\ Keep

Answered(s, st) == polls[s].stage = st /\ polls[s].listed = Len(ScanOrder)

(* Dashboard: the number of items is shown when it arrives.                *)
TotalArrives(s) ==
    /\ Answered(s, "library")
    /\ view' = [view EXCEPT !.total = polls[s].read, !.loading = FALSE]
    /\ polls' = [polls EXCEPT ![s] = Idle]
    /\ UNCHANGED faults /\ Keep

TotalFails(s) ==
    /\ polls[s].stage = "library"
    /\ Fault
    /\ view' = [view EXCEPT !.loading = FALSE]
    /\ polls' = [polls EXCEPT ![s] = Idle]
    /\ Keep

(* Content library: the items that arrive have no "key", so that any item  *)
(* at all makes the page throw while it renders, and React unmounts all.   *)
ContentArrives(s) ==
    /\ Answered(s, "content")
    /\ page' = IF polls[s].read = 0 THEN page ELSE "blank"
    /\ view' = [view EXCEPT !.loading = FALSE]
    /\ polls' = [polls EXCEPT ![s] = Idle]
    /\ UNCHANGED <<valid, uploadVars, stored, inputs, faults>>

ContentFails(s) ==
    /\ polls[s].stage = "content"
    /\ Fault
    /\ view' = [view EXCEPT !.loading = FALSE, !.error = TRUE]
    /\ polls' = [polls EXCEPT ![s] = Idle]
    /\ Keep

StrayEnds(s) ==
    /\ polls[s].stage = "stray"
    /\ polls' = [polls EXCEPT ![s] = Idle]
    /\ UNCHANGED <<view, faults>> /\ Keep

PollStep(s) ==
    \/ StatusAnswers(s) \/ ListCategory(s) \/ TotalArrives(s) \/ TotalFails(s)
    \/ ContentArrives(s) \/ ContentFails(s) \/ StrayEnds(s)

-----------------------------------------------------------------------------
(* Re-transcode.  The field can be typed in while the request is under     *)
(* way, and an accepted request empties it.                                *)
TypePath ==
    /\ page = "transcoding" /\ ~view.typed
    /\ Input
    /\ view' = [view EXCEPT !.typed = TRUE]
    /\ UNCHANGED <<page, valid, polls, uploadVars, stored, faults>>

Retranscode ==
    /\ page = "transcoding" /\ view.typed /\ ~view.busy
    /\ Input
    /\ view' = [view EXCEPT !.busy = TRUE, !.msg = "none"]
    /\ UNCHANGED <<page, valid, polls, uploadVars, stored, faults>>

RetranscodeQueued(s) ==
    /\ view.busy /\ valid /\ polls[s] = Idle
    /\ view' = [view EXCEPT !.busy = FALSE, !.msg = "success", !.typed = FALSE]
    /\ polls' = [polls EXCEPT ![s] = Doing("status")]
    /\ UNCHANGED faults /\ Keep

RetranscodeFails ==
    /\ view.busy
    /\ Fault
    /\ view' = [view EXCEPT !.busy = FALSE, !.msg = "error"]
    /\ UNCHANGED polls /\ Keep

-----------------------------------------------------------------------------
Administrator ==
    \/ \E p \in Page : Navigate(p) \/ LoadPage(p)
    \/ \E f \in File : SelectFile(f)
    \/ ChangeItem \/ ProcessQueue \/ TypePath \/ Retranscode \/ TokenExpires \/ SignOut

AdminNext ==
    \/ Administrator
    \/ \E l \in loops : UploadStep(l)
    \/ \E s \in Slot : Tick(s) \/ PollStep(s) \/ RetranscodeQueued(s)
    \/ RetranscodeFails \/ Unauthorized

(* Timers fire; requests are answered or fail.                             *)
AdminSpec ==
    /\ AdminInit /\ [][AdminNext]_adminVars
    /\ WF_adminVars(\E l \in loops : UploadStep(l))
    /\ \A s \in Slot : WF_adminVars(Tick(s)) /\ WF_adminVars(PollStep(s))

-----------------------------------------------------------------------------
(* The flag, the item shown as uploading and the running loop agree: a     *)
(* page has at most one loop, and no item turns for ever because its loop  *)
(* is another one's (Upload.jsx:34-89).                                    *)
UploadingHasLoop ==
    LET own == {l \in loops : l.mine}
        shown == {queue[i].id : i \in {j \in DOMAIN queue :
                                          queue[j].status = "uploading"}} IN
    /\ Cardinality(own) = IF uploading THEN 1 ELSE 0
    /\ shown = {Sent(l).id : l \in own}

(* What is shown as uploaded is in the bucket, in the category shown,      *)
(* whatever failed before and was tried again, unless the item was edited  *)
(* after the loop had started (Upload.jsx:65-79).                          *)
SuccessIsStored ==
    \A i \in DOMAIN queue :
        queue[i].status = "success" /\ ~queue[i].late =>
            <<queue[i].category, queue[i].id>> \in stored

(* An upload that succeeded is not made again ("Skip already done",        *)
(* Upload.jsx:40) while its item is shown.                                 *)
DoneOnce ==
    [][\A i \in DOMAIN queue : queue[i].status = "success" /\ i \in DOMAIN queue' =>
          queue'[i] = queue[i] \/ queue'[i].id # queue[i].id]_adminVars

(* An upload ends, through whatever fails, or is left.                     *)
UploadEnds == uploading ~> ~uploading

(* On a dashboard that stays open and signed in, the total becomes that of *)
(* the listable objects of the bucket and stays it, although polls overlap,*)
(* an older answer may come last, uploads fall between the listings of the *)
(* categories, and a listing that fails makes an answer 200 with a smaller *)
(* total (Dashboard.jsx:19-72, scanner.go:68-98).                          *)
DashboardCatchesUp ==
    <>[](page = "dashboard" /\ valid) =>
        <>[](view.total = Cardinality({o \in stored : o[2] \in Listable}))
=============================================================================
