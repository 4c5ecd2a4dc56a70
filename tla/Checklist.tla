----------------------------- MODULE Checklist -----------------------------
(***************************************************************************)
(* The checklist of the deployment dashboard.  A page polls /api/checklist *)
(* every 15 s, without waiting for the previous poll; the service runs the *)
(* checks, stamps each outcome into one rolling history shared by all      *)
(* pages, and answers.  The page marks the rows that flipped.              *)
(***************************************************************************)
EXTENDS DashboardData, Integers, Sequences, FiniteSets, SequencesExt

CONSTANTS
    Check,       \* the rows, by category and name
    Listed,      \* rows that are missing when their list cannot be read
    Known,       \* rows that are expected to fail
    Logged,      \* rows of a service that has pods
    HistoryMax,  \* outcomes kept for a row (40)
    Poll,        \* bound on the polls in flight
    MaxTabs,     \* bound on changes of the tab
    MaxFlips,    \* bound on checks that flip
    MaxFaults    \* bound on requests that fail or run out of time

ASSUME ChecklistAssumption ==
    /\ Listed \subseteq Check /\ Known \subseteq Check /\ Logged \subseteq Check
    /\ HistoryMax \in Nat \ {0}
    /\ MaxTabs \in Nat /\ MaxFlips \in Nat /\ MaxFaults \in Nat

VARIABLES
    health,      \* what a check that runs now finds
    history,     \* historyStore of the service
    polls,       \* requests to /api/checklist
    checklist,   \* the mounted ChecklistView, or None
    seen,        \* statuses that polls of the mounted view have read
    spent        \* what the bounds have used up

checklistVars == <<health, history, polls, checklist, seen, spent>>

Status == {"pass", "fail"}
Outcomes == UNION {[1..n -> {0, 1}] : n \in 0..HistoryMax}
Row == [status : Status, history : Outcomes]
View == [data : {None} \cup [Check -> Row \cup {None}],
         error : BOOLEAN, loading : BOOLEAN, auto : BOOLEAN,
         failuresOnly : BOOLEAN, prev : [Check -> Status \cup {None}],
         justChanged : SUBSET Check, timers : Nat,
         logViewer : Logged \cup {None},
         logs : {"loading", "shown"}]
PollState == [stage : {"idle", "sent", "stamped"}, mine : BOOLEAN,
              read : [Check -> Status \cup {"unread", "absent"}],
              stamped : [Check -> Outcomes]]

(* null is not an object, and not a status.                                *)
ASSUME ChecklistNullAssumption == None \notin View \cup Row \cup Status

(* Types; a history, that of the service or a copy shown, never has more   *)
(* than HistoryMax outcomes, whatever pages poll at the same time.         *)
ChecklistTypeOK ==
    /\ health \in [Check -> Status] /\ history \in [Check -> Outcomes]
    /\ polls \in [Poll -> PollState]
    /\ checklist \in View \cup {None}
    /\ seen \in [Check -> SUBSET Status]
    /\ \A p \in Poll : polls[p].mine => checklist # None
    /\ spent \in [tabs : 0..MaxTabs, flips : 0..MaxFlips, faults : 0..MaxFaults]

NoPoll == [stage |-> "idle", mine |-> FALSE,
           read |-> [c \in Check |-> "unread"], stamped |-> [c \in Check |-> <<>>]]
NewPoll == [NoPoll EXCEPT !.stage = "sent", !.mine = TRUE]
NewView == [data |-> None, error |-> FALSE, loading |-> TRUE, auto |-> TRUE,
            failuresOnly |-> FALSE, prev |-> [c \in Check |-> None],
            justChanged |-> {}, timers |-> 0, logViewer |-> None,
            logs |-> "loading"]

ChecklistInit ==
    /\ health \in [Check -> Status]
    /\ history = [c \in Check |-> <<>>]
    /\ \E p \in Poll : polls = [q \in Poll |-> IF q = p THEN NewPoll ELSE NoPoll]
    /\ checklist = NewView
    /\ seen = [c \in Check |-> {}]
    /\ spent = [tabs |-> 0, flips |-> 0, faults |-> 0]

Fault == spent.faults < MaxFaults /\ spent' = [spent EXCEPT !.faults = @ + 1]

-----------------------------------------------------------------------------
(* The tab is opened: load() at once.  It is left: nothing is aborted, the *)
(* service answers nobody.                                                 *)
MountChecklist ==
    /\ checklist = None /\ spent.tabs < MaxTabs
    /\ spent' = [spent EXCEPT !.tabs = @ + 1]
    /\ \E p \in Poll : polls[p] = NoPoll /\ polls' = [polls EXCEPT ![p] = NewPoll]
    /\ checklist' = NewView
    /\ seen' = [c \in Check |-> {}]
    /\ UNCHANGED <<health, history>>

UnmountChecklist ==
    /\ checklist # None /\ spent.tabs < MaxTabs
    /\ spent' = [spent EXCEPT !.tabs = @ + 1]
    /\ checklist' = None
    /\ polls' = [p \in Poll |-> [polls[p] EXCEPT !.mine = FALSE]]
    /\ UNCHANGED <<health, history, seen>>

(* What the view shows: rows, unless there are none yet or an error has    *)
(* taken the place of the whole view, its buttons and its log viewer.      *)
Shown == checklist # None /\ checklist.data # None /\ ~checklist.error
Passing(c) == checklist.data[c].status = "pass" \/ c \in Known
Rows == {c \in Check : /\ checklist.data[c] # None
                       /\ ~(checklist.failuresOnly /\ Passing(c))}

(* load: a log viewer that comes back with the view asks again.            *)
Load(p, silent) ==
    /\ polls[p] = NoPoll
    /\ polls' = [polls EXCEPT ![p] = NewPoll]
    /\ checklist' = [checklist EXCEPT
          !.error = FALSE, !.loading = @ \/ ~silent,
          !.logs = IF checklist.error THEN "loading" ELSE @]
    /\ UNCHANGED <<health, history, seen, spent>>

(* Faulty: only the first poll is made.                                    *)
TickNever(p) == FALSE /\ UNCHANGED checklistVars

(* The interval timer, which runs whatever the view shows.                 *)
Tick(p) == checklist # None /\ checklist.auto /\ Load(p, TRUE)

(* "Refresh now", the check boxes, the log viewer, which covers them.      *)
RefreshNow == Shown /\ checklist.logViewer = None /\ \E p \in Poll : Load(p, FALSE)

ChangeView(new) ==
    checklist' = new /\ UNCHANGED <<health, history, polls, seen, spent>>

ToggleAuto ==
    /\ Shown /\ checklist.logViewer = None
    /\ ChangeView([checklist EXCEPT !.auto = ~@])

ToggleFailuresOnly ==
    /\ Shown /\ checklist.logViewer = None
    /\ ChangeView([checklist EXCEPT !.failuresOnly = ~@])

OpenLogs(c) ==
    /\ Shown /\ checklist.logViewer = None /\ c \in Rows \cap Logged
    /\ ChangeView([checklist EXCEPT !.logViewer = c, !.logs = "loading"])

CloseLogs ==
    /\ Shown /\ checklist.logViewer # None
    /\ ChangeView([checklist EXCEPT !.logViewer = None])

(* A log or an error is shown.  An empty log changes nothing: '' counts as *)
(* no log, so that "Loading..." stays.                                     *)
LogsArrive ==
    /\ Shown /\ checklist.logViewer # None /\ checklist.logs = "loading"
    /\ ChangeView([checklist EXCEPT !.logs = "shown"])

ChecklistUser ==
    \/ RefreshNow \/ ToggleAuto \/ ToggleFailuresOnly
    \/ CloseLogs \/ \E c \in Check : OpenLogs(c)

-----------------------------------------------------------------------------
(* The service.  A check runs at some moment of the request.               *)
Flip(c) ==
    /\ spent.flips < MaxFlips /\ spent' = [spent EXCEPT !.flips = @ + 1]
    /\ health' = [health EXCEPT ![c] = IF @ = "pass" THEN "fail" ELSE "pass"]
    /\ UNCHANGED <<history, polls, checklist, seen>>

RunCheck(p, c) ==
    /\ polls[p].stage = "sent" /\ polls[p].read[c] = "unread"
    /\ polls' = [polls EXCEPT ![p].read[c] = health[c]]
    /\ seen' = IF polls[p].mine THEN [seen EXCEPT ![c] = @ \cup {health[c]}]
               ELSE seen
    /\ UNCHANGED <<health, history, checklist, spent>>

(* 20 s are over, or the browser is gone: the checks that have not run     *)
(* fail, and the request goes on.                                          *)
Expire(p) ==
    LET late == {c \in Check : polls[p].read[c] = "unread"} IN
    /\ polls[p].stage = "sent" /\ late # {}
    /\ Fault
    /\ polls' = [polls EXCEPT ![p].read = [c \in Check |->
                    IF c \notin late THEN @[c]
                    ELSE IF c \in Listed THEN "absent" ELSE "fail"]]
    /\ seen' = IF polls[p].mine
               THEN [c \in Check |-> IF c \in late \ Listed THEN seen[c] \cup {"fail"}
                                     ELSE seen[c]]
               ELSE seen
    /\ UNCHANGED <<health, history, checklist>>

(* Faulty: nothing is cut off.                                             *)
StampedAll(h, status) == Append(h, IF status = "pass" THEN 1 ELSE 0)

Stamped(h, status) ==
    LET hist == Append(h, IF status = "pass" THEN 1 ELSE 0) IN
    IF Len(hist) > HistoryMax
    THEN SubSeq(hist, Len(hist) - HistoryMax + 1, Len(hist)) ELSE hist

(* Faulty: the copy is taken before the outcome is recorded.               *)
StampAfterCopy(p) ==
    /\ polls[p].stage = "sent" /\ \A c \in Check : polls[p].read[c] # "unread"
    /\ history' = [c \in Check |->
          IF polls[p].read[c] = "absent" THEN history[c]
          ELSE Stamped(history[c], polls[p].read[c])]
    /\ polls' = [polls EXCEPT ![p].stage = "stamped", ![p].stamped = history]
    /\ UNCHANGED <<health, checklist, seen, spent>>

(* StampHistory: under its lock, every outcome is recorded and the history *)
(* that ends with it is copied into the answer.                            *)
StampHistory(p) ==
    /\ polls[p].stage = "sent" /\ \A c \in Check : polls[p].read[c] # "unread"
    /\ history' = [c \in Check |->
          IF polls[p].read[c] = "absent" THEN history[c]
          ELSE Stamped(history[c], polls[p].read[c])]
    /\ polls' = [polls EXCEPT ![p].stage = "stamped", ![p].stamped = history']
    /\ UNCHANGED <<health, checklist, seen, spent>>

-----------------------------------------------------------------------------
Present(p) == {c \in Check : polls[p].read[c] # "absent"}

(* Faulty: a row that was never shown before counts as changed.            *)
ChangedOrNew(p) ==
    {c \in Present(p) : checklist.prev[c] # polls[p].read[c]}

Changed(p) ==
    {c \in Present(p) : /\ checklist.prev[c] # None
                        /\ checklist.prev[c] # polls[p].read[c]}

(* The answer replaces what is shown, whether or not a later poll has been *)
(* answered before; 6 s later the marks are to be taken off.               *)
ShowAnswer(p) ==
    [checklist EXCEPT
        !.prev = [c \in Check |-> IF c \in Present(p) THEN polls[p].read[c] ELSE @[c]],
        !.justChanged = Changed(p),
        !.timers = IF Changed(p) = {} THEN @ ELSE @ + 1,
        !.data = [c \in Check |->
            IF c \notin Present(p) THEN None
            ELSE [status |-> polls[p].read[c], history |-> polls[p].stamped[c]]],
        !.loading = FALSE]

Arrive(p) ==
    /\ polls[p].stage = "stamped"
    /\ checklist' = IF polls[p].mine THEN ShowAnswer(p) ELSE checklist
    /\ polls' = [polls EXCEPT ![p] = NoPoll]
    /\ UNCHANGED <<health, history, seen, spent>>

(* The request or its answer is lost.                                      *)
PollFails(p) ==
    /\ polls[p] # NoPoll
    /\ Fault
    /\ checklist' = IF polls[p].mine
                    THEN [checklist EXCEPT !.error = TRUE, !.loading = FALSE]
                    ELSE checklist
    /\ polls' = [polls EXCEPT ![p] = NoPoll]
    /\ UNCHANGED <<health, history, seen>>

(* A timer takes the marks off, also those of a later answer.              *)
ClearMarks ==
    /\ checklist # None /\ checklist.timers > 0
    /\ ChangeView([checklist EXCEPT !.timers = @ - 1, !.justChanged = {}])

PollStep(p) == (\E c \in Check : RunCheck(p, c)) \/ StampHistory(p) \/ Arrive(p)

ChecklistNext ==
    \/ MountChecklist \/ UnmountChecklist \/ ChecklistUser
    \/ \E c \in Check : Flip(c)
    \/ \E p \in Poll : Tick(p) \/ PollStep(p) \/ Expire(p) \/ PollFails(p)
    \/ LogsArrive \/ ClearMarks

(* Timers fire, and a request that was sent is worked on.                  *)
ChecklistSpec ==
    /\ ChecklistInit /\ [][ChecklistNext]_checklistVars
    /\ \A p \in Poll : WF_checklistVars(Tick(p)) /\ WF_checklistVars(PollStep(p))

-----------------------------------------------------------------------------
(* A row is marked as flipped only if polls of this very view have found   *)
(* it in two states: not because the tab was opened again, a row was       *)
(* missing for a while or a poll of a view that is gone came back          *)
(* (App.jsx:166-179).                                                      *)
NoFalseAlarm ==
    checklist # None =>
        \A c \in checklist.justChanged : seen[c] = Status

(* The sparkline of a row ends with the status shown next to it, although  *)
(* all pages stamp one history and answers overtake each other             *)
(* (kubernetes.go:49-74, App.jsx:303).                                     *)
SparklineAgrees ==
    checklist # None /\ checklist.data # None =>
        \A c \in Check :
            checklist.data[c] # None =>
                /\ checklist.data[c].history # <<>>
                /\ Last(checklist.data[c].history) =
                       IF checklist.data[c].status = "pass" THEN 1 ELSE 0

(* A view that stays open with auto-refresh on recovers from errors and    *)
(* comes to show what is the case, although polls overlap.                 *)
ChecklistCatchesUp ==
    <>[](checklist # None /\ checklist.auto) =>
        <>[](/\ Shown
             /\ \A c \in Check : /\ checklist.data[c] # None
                                 /\ checklist.data[c].status = health[c])
=============================================================================
