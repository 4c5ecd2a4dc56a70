-------------------------- MODULE DashboardProofs --------------------------
(* Safety of the two views of the deployment dashboard that keep state: of *)
(* deployments, for any number of services, tags, overlapping deployments  *)
(* and commits of others; and of the checklist, for any number of rows,    *)
(* polls and outcomes kept.                                                *)
EXTENDS ManifestDeploy, Checklist, SequenceTheorems, TLAPS

(* A deployment that is about to answer "committed" has committed.         *)
CommittedIsRecorded ==
    \A r \in Request :
        requests[r] # None /\ requests[r].stage = "committed" =>
            <<requests[r].svc, requests[r].tag>> \in commits

(* Inductive: OkMeansCommitted alone says nothing of what is on its way.   *)
DeployInv == DeployTypeOK /\ CommittedIsRecorded /\ OkMeansCommitted

-----------------------------------------------------------------------------
(* Putting a request into another stage keeps the requests well-typed.     *)
LEMMA PutType ==
    ASSUME DeployTypeOK, NEW r \in Request, requests[r] # None,
           NEW st \in {"sent", "committed", "refused"}, Put(r, st)
    PROVE  /\ requests' \in [Request -> Deployment \cup {None}]
           /\ \A q \in Request : requests'[q] # None =>
                 /\ requests[q] # None
                 /\ requests'[q].svc = requests[q].svc
                 /\ requests'[q].tag = requests[q].tag
                 /\ requests'[q].content = requests[q].content
                 /\ requests'[q].waits = requests[q].waits
                 /\ requests'[q].stage = IF q = r THEN st ELSE requests[q].stage
  <1>1. requests[r] \in Deployment
    BY DEF DeployTypeOK
  <1>2. [requests[r] EXCEPT !.stage = st] \in Deployment
    BY <1>1 DEF Deployment
  <1>3. requests' = [requests EXCEPT ![r] =
                        IF requests[r].waits = "late" THEN None
                        ELSE [requests[r] EXCEPT !.stage = st]]
    BY DEF Put
  <1>4. requests \in [Request -> Deployment \cup {None}]
    BY DEF DeployTypeOK
  <1>5. \A q \in Request : q # r => requests'[q] = requests[q]
    BY <1>3, <1>4
  <1>6. requests'[r] # None => requests'[r] = [requests[r] EXCEPT !.stage = st]
    BY <1>3, <1>4
  <1>7. requests' \in [Request -> Deployment \cup {None}]
    BY <1>2, <1>3, <1>4
  <1> QED
    BY <1>1, <1>5, <1>6, <1>7 DEF Deployment

(* What an answer says is a message of a service of the view.              *)
LEMMA SaidType ==
    ASSUME DeployTypeOK, NEW r \in Request, requests[r] # None,
           NEW type \in {"ok", "error"}
    PROVE  /\ Said(r, type) \in DeployView \cup {None}
           /\ (Said(r, type) = None) <=> (deployView = None)
           /\ Said(r, type) # None =>
                 \A s \in Service :
                    \/ Said(r, type).msg[s] = deployView.msg[s]
                    \/ /\ s = requests[r].svc
                       /\ Said(r, type).msg[s] = [type |-> type, tag |-> requests[r].tag]
  <1>1. requests[r] \in Deployment
    BY DEF DeployTypeOK
  <1>2. CASE requests[r].waits # "view"
    BY <1>2 DEF Said, DeployTypeOK
  <1>3. CASE requests[r].waits = "view"
    <2>1. deployView \in DeployView
      BY <1>3 DEF DeployTypeOK
    <2> DEFINE m == [type |-> type, tag |-> requests[r].tag]
    <2>2. m \in Msg /\ requests[r].svc \in Service
      BY <1>1 DEF Msg, Deployment
    <2>3. Said(r, type) = [deployView EXCEPT !.msg[requests[r].svc] = m]
      BY <1>3 DEF Said
    <2>4. Said(r, type) \in DeployView
      BY <2>1, <2>2, <2>3 DEF DeployView
    <2>5. Said(r, type) # None /\ deployView # None
      BY <2>1, <2>4, NullAssumption
    <2>6. Said(r, type).msg = [deployView.msg EXCEPT ![requests[r].svc] = m]
      BY <2>1, <2>3 DEF DeployView
    <2>7. deployView.msg \in [Service -> Msg]
      BY <2>1 DEF DeployView
    <2> QED
      BY <2>2, <2>4, <2>5, <2>6, <2>7
  <1> QED
    BY <1>2, <1>3

-----------------------------------------------------------------------------
(* Type correctness: whatever is typed, asked for, answered late or not at *)
(* all, only a mounted view waits, and a write has what it writes.         *)
LEMMA TypesInit == DeployInit => DeployTypeOK
  <1> SUFFICES ASSUME DeployInit PROVE DeployTypeOK
    OBVIOUS
  <1>1. manifest \in [Service -> Content]
    BY DEF DeployInit, Content
  <1> QED
    BY <1>1 DEF DeployInit, DeployTypeOK

(* A step that changes the view alone keeps the types if the view that it  *)
(* leaves is one.                                                          *)
LEMMA ViewTypes ==
    ASSUME DeployTypeOK, NEW new \in DeployView, ChangeDeployView(new)
    PROVE  DeployTypeOK'
  <1>1. new # None
    BY NullAssumption
  <1> QED
    BY <1>1 DEF ChangeDeployView, DeployTypeOK

LEMMA TypesNext == DeployTypeOK /\ [DeployNext]_deployVars => DeployTypeOK'
  <1> SUFFICES ASSUME DeployTypeOK, [DeployNext]_deployVars PROVE DeployTypeOK'
    OBVIOUS
  <1> USE DeployAssumption, NullAssumption
  <1>0. deployView # None => deployView \in DeployView
    BY DEF DeployTypeOK
  <1>1. CASE MountDeploy
    <2>1. NewDeployView \in DeployView
      BY DEF NewDeployView, NoMsg, DeployView, Msg
    <2> QED
      BY <1>1, <2>1, ViewTypes DEF MountDeploy
  <1>2. CASE UnmountDeploy
    <2>1. ASSUME NEW r \in Request
          PROVE  /\ requests'[r] \in Deployment \cup {None}
                 /\ requests'[r] # None =>
                       /\ requests'[r].waits # "view"
                       /\ requests'[r].stage = "got" => requests'[r].content \in Content
      <3>1. requests[r] # None => requests[r] \in Deployment
        BY DEF DeployTypeOK
      <3>2. requests[r] # None =>
               [requests[r] EXCEPT !.waits = "gone"] \in Deployment
        BY <3>1 DEF Deployment
      <3> QED
        BY <1>2, <3>1, <3>2 DEF UnmountDeploy, DeployTypeOK, Deployment
    <2>2. requests' \in [Request -> Deployment \cup {None}]
      BY <1>2, <2>1 DEF UnmountDeploy
    <2> QED
      BY <1>2, <2>1, <2>2 DEF UnmountDeploy, DeployTypeOK
  <1>3. CASE DeployUser
    <2>1. CASE Refresh
      <3>1. [deployView EXCEPT !.loading = TRUE, !.error = FALSE,
                               !.loads = @ + 1] \in DeployView
        <4>1. deployView \in DeployView /\ deployView.loads < MaxLoads
          BY <1>0, <2>1 DEF Refresh, Usable
        <4>2. deployView.loads + 1 \in 0..MaxLoads
          BY <4>1 DEF DeployView
        <4> QED
          BY <4>1, <4>2 DEF DeployView
      <3> QED
        BY <2>1, <3>1, ViewTypes DEF Refresh
    <2>2. CASE CancelDeploy
      <3>1. [deployView EXCEPT !.confirming = None] \in DeployView
        BY <1>0, <2>2 DEF CancelDeploy, Asked, DeployView
      <3> QED
        BY <2>2, <3>1, ViewTypes DEF CancelDeploy
    <2>3. ASSUME NEW s \in Service, RequestDeploy(s) PROVE DeployTypeOK'
      <3>1. deployView \in DeployView
        BY <1>0, <2>3 DEF RequestDeploy, Usable
      <3>2. [type |-> "error", tag |-> None] \in Msg
        BY DEF Msg
      <3>3. deployView.tags[s] = None =>
               [deployView EXCEPT !.msg[s] = [type |-> "error", tag |-> None]] \in DeployView
        BY <3>1, <3>2 DEF DeployView
      <3>4. deployView.tags[s] # None =>
               [deployView EXCEPT !.confirming =
                   [svc |-> s, tag |-> deployView.tags[s]]] \in DeployView
        BY <3>1 DEF DeployView, Dialog
      <3> QED
        BY <2>3, <3>3, <3>4, ViewTypes DEF RequestDeploy
    <2>4. ASSUME NEW s \in Service, NEW t \in Tag, TypeTag(s, t) PROVE DeployTypeOK'
      <3>1. [deployView EXCEPT !.tags[s] = t] \in DeployView
        BY <1>0, <2>4 DEF TypeTag, Usable, DeployView
      <3> QED
        BY <2>4, <3>1, ViewTypes DEF TypeTag
    <2>5. ASSUME NEW r \in Request, RunDeploy(r) PROVE DeployTypeOK'
      <3> DEFINE d == deployView.confirming
      <3> DEFINE job == [svc |-> d.svc, tag |-> d.tag, content |-> None,
                         stage |-> "sent", waits |-> "view"]
      <3> DEFINE m == [type |-> "pending", tag |-> d.tag]
      <3>1. deployView \in DeployView /\ d \in Dialog
        BY <1>0, <2>5 DEF RunDeploy, Asked, DeployView
      <3>2. m \in Msg /\ job \in Deployment
        BY <3>1 DEF Dialog, Msg, Deployment
      <3>3. deployView' = [deployView EXCEPT !.confirming = None, !.msg[d.svc] = m]
        BY <2>5 DEF RunDeploy
      <3>4. deployView' \in DeployView
        BY <3>1, <3>2, <3>3 DEF DeployView
      <3>5. requests' = [requests EXCEPT ![r] = job]
        BY <2>5 DEF RunDeploy
      <3>6. job # None /\ job.stage # "got" /\ deployView' # None
        BY <3>2, <3>4
      <3>7. UNCHANGED <<manifest, commits>>
        BY <2>5 DEF RunDeploy
      <3> HIDE DEF job, m
      <3> QED
        BY <3>2, <3>4, <3>5, <3>6, <3>7 DEF DeployTypeOK
    <2> QED
      BY <1>3, <2>1, <2>2, <2>3, <2>4, <2>5 DEF DeployUser
  <1>4. CASE ServicesArrive
    <2>1. [deployView EXCEPT !.listed = TRUE, !.loading = FALSE,
                             !.loads = @ - 1] \in DeployView
      <3>1. deployView \in DeployView /\ deployView.loads > 0
        BY <1>0, <1>4 DEF ServicesArrive
      <3>2. deployView.loads - 1 \in 0..MaxLoads
        BY <3>1 DEF DeployView
      <3> QED
        BY <3>1, <3>2 DEF DeployView
    <2> QED
      BY <1>4, <2>1, ViewTypes DEF ServicesArrive
  <1>5. CASE ServicesFail
    <2>1. [deployView EXCEPT !.error = TRUE, !.loading = FALSE,
                             !.loads = @ - 1] \in DeployView
      <3>1. deployView \in DeployView /\ deployView.loads > 0
        BY <1>0, <1>5 DEF ServicesFail
      <3>2. deployView.loads - 1 \in 0..MaxLoads
        BY <3>1 DEF DeployView
      <3> QED
        BY <3>1, <3>2 DEF DeployView
    <2> QED
      BY <1>5, <2>1, ViewTypes DEF ServicesFail
  <1>6. ASSUME NEW s \in Service, HandEdit(s) PROVE DeployTypeOK'
    <2>1. PICK t \in Tag :
             manifest' = [manifest EXCEPT ![s] = [tag |-> t, edits |-> @.edits + 1]]
      BY <1>6 DEF HandEdit
    <2>2. manifest[s] \in Content
      BY DEF DeployTypeOK
    <2>3. [tag |-> t, edits |-> manifest[s].edits + 1] \in Content
      BY <2>2 DEF Content
    <2>4. manifest' \in [Service -> Content]
      BY <2>1, <2>3 DEF DeployTypeOK
    <2> QED
      BY <1>6, <2>4 DEF HandEdit, DeployTypeOK
  <1>7. ASSUME NEW r \in Request, GetFile(r) PROVE DeployTypeOK'
    <2> DEFINE c == manifest[requests[r].svc]
    <2>1. requests[r] \in Deployment
      BY <1>7 DEF GetFile, DeployTypeOK
    <2>2. c \in Content
      BY <2>1 DEF DeployTypeOK, Deployment
    <2> DEFINE job == [requests[r] EXCEPT !.content = c, !.stage = "got"]
    <2>3. job \in Deployment /\ job.content = c /\ job.waits = requests[r].waits
      BY <2>1, <2>2 DEF Deployment
    <2>4. requests' = [requests EXCEPT ![r] = job]
      BY <1>7, <2>1 DEF GetFile, DeployTypeOK, Deployment
    <2>5. UNCHANGED <<manifest, deployView, commits>> /\ requests[r] # None
      BY <1>7 DEF GetFile
    <2> HIDE DEF job, c
    <2> QED
      BY <2>2, <2>3, <2>4, <2>5 DEF DeployTypeOK
  <1>8. ASSUME NEW r \in Request, UpdateFile(r) PROVE DeployTypeOK'
    <2>1. requests[r] \in Deployment /\ requests[r].content \in Content
      BY <1>8 DEF UpdateFile, DeployTypeOK
    <2>2. [requests[r].content EXCEPT !.tag = requests[r].tag] \in Content
      BY <2>1 DEF Deployment, Content
    <2>3. manifest' \in [Service -> Content] /\ commits' \subseteq Service \X Tag
      BY <1>8, <2>1, <2>2 DEF UpdateFile, DeployTypeOK, Deployment
    <2> QED
      BY <1>8, <2>3, PutType DEF UpdateFile, DeployTypeOK
  <1>9. ASSUME NEW r \in Request, Conflict(r) \/ Refuse(r) PROVE DeployTypeOK'
    BY <1>9, PutType DEF Conflict, Refuse, DeployTypeOK
  <1>10. ASSUME NEW r \in Request, Answer(r) PROVE DeployTypeOK'
    BY <1>10, SaidType DEF Answer, DeployTypeOK
  <1>11. ASSUME NEW r \in Request, GiveUp(r) PROVE DeployTypeOK'
    <2>1. requests[r] \in Deployment
      BY <1>11 DEF GiveUp, DeployTypeOK
    <2> DEFINE job == [requests[r] EXCEPT !.waits = "late"]
    <2>2. job \in Deployment /\ job.waits # "view" /\ job.stage = requests[r].stage
          /\ job.content = requests[r].content
      BY <2>1 DEF Deployment
    <2>3. \/ requests' = [requests EXCEPT ![r] = job]
          \/ requests' = [requests EXCEPT ![r] = None]
      BY <1>11 DEF GiveUp
    <2>4. Said(r, "error") \in DeployView \cup {None}
          /\ ((Said(r, "error") = None) <=> (deployView = None))
      BY <1>11, SaidType DEF GiveUp
    <2>5. deployView' = Said(r, "error") /\ UNCHANGED <<manifest, commits>>
          /\ requests[r] # None
      BY <1>11 DEF GiveUp
    <2> HIDE DEF job
    <2> QED
      BY <2>2, <2>3, <2>4, <2>5 DEF DeployTypeOK
  <1>12. ASSUME NEW r \in Request, LateWriteLost(r) PROVE DeployTypeOK'
    BY <1>12 DEF LateWriteLost, DeployTypeOK
  <1>13. CASE UNCHANGED deployVars
    BY <1>13 DEF deployVars, DeployTypeOK
  <1> QED
    BY <1>1, <1>2, <1>3, <1>4, <1>5, <1>6, <1>7, <1>8, <1>9, <1>10, <1>11, <1>12,
       <1>13 DEF DeployNext, GitHubStep

(* DeploySpec: the values of every variable are of its type, for any       *)
(* number of services, deployments, requests and edits.                    *)
THEOREM DeployTypes == DeploySpec => []DeployTypeOK
  BY TypesInit, TypesNext, PTL DEF DeploySpec

-----------------------------------------------------------------------------
(* A message that says "ok" after a step was there before it, or is the    *)
(* answer of a deployment that has committed; commits are never undone.    *)
LEMMA OkKept ==
    ASSUME DeployTypeOK, OkMeansCommitted, commits \subseteq commits',
           deployView' # None =>
              \/ deployView' = NewDeployView
              \/ /\ deployView # None
                 /\ \A s \in Service :
                       \/ deployView'.msg[s].type # "ok"
                       \/ deployView'.msg[s] = deployView.msg[s]
                       \/ <<s, deployView'.msg[s].tag>> \in commits
    PROVE  OkMeansCommitted'
  <1>1. \A s \in Service : NewDeployView.msg[s].type # "ok"
    BY DEF NewDeployView, NoMsg
  <1> QED
    BY <1>1 DEF OkMeansCommitted

LEMMA SafeInit == DeployInit => CommittedIsRecorded /\ OkMeansCommitted
  BY DEF DeployInit, CommittedIsRecorded, OkMeansCommitted

LEMMA SafeNext ==
    DeployInv /\ [DeployNext]_deployVars => CommittedIsRecorded' /\ OkMeansCommitted'
  <1> SUFFICES ASSUME DeployInv, [DeployNext]_deployVars
               PROVE  CommittedIsRecorded' /\ OkMeansCommitted'
    OBVIOUS
  <1> USE DeployAssumption, NullAssumption
  <1>0. DeployTypeOK /\ CommittedIsRecorded /\ OkMeansCommitted
    BY DEF DeployInv
  <1>a. deployView # None => deployView \in DeployView
    BY <1>0 DEF DeployTypeOK
  <1>1. CASE MountDeploy
    BY <1>0, <1>1, OkKept DEF MountDeploy, ChangeDeployView, CommittedIsRecorded
  <1>2. CASE UnmountDeploy
    <2>1. \A r \in Request : requests'[r] # None =>
             /\ requests[r] # None
             /\ requests'[r].stage = requests[r].stage
             /\ requests'[r].svc = requests[r].svc
             /\ requests'[r].tag = requests[r].tag
      <3> SUFFICES ASSUME NEW r \in Request, requests'[r] # None
                   PROVE  /\ requests[r] # None
                          /\ requests'[r].stage = requests[r].stage
                          /\ requests'[r].svc = requests[r].svc
                          /\ requests'[r].tag = requests[r].tag
        OBVIOUS
      <3>1. requests[r] # None /\ requests[r] \in Deployment
        BY <1>0, <1>2 DEF UnmountDeploy, DeployTypeOK
      <3> QED
        BY <1>2, <3>1 DEF UnmountDeploy, Deployment
    <2> QED
      BY <1>0, <1>2, <2>1 DEF UnmountDeploy, CommittedIsRecorded, OkMeansCommitted
  <1>3. CASE DeployUser
    <2>1. CASE Refresh
      <3>1. deployView # None /\ deployView'.msg = deployView.msg
            /\ UNCHANGED <<requests, commits>>
        BY <1>a, <2>1 DEF Refresh, Usable, ChangeDeployView, DeployView
      <3> QED
        BY <1>0, <3>1, OkKept DEF CommittedIsRecorded
    <2>2. CASE CancelDeploy
      <3>1. deployView # None /\ deployView'.msg = deployView.msg
            /\ UNCHANGED <<requests, commits>>
        BY <1>a, <2>2 DEF CancelDeploy, Asked, ChangeDeployView, DeployView
      <3> QED
        BY <1>0, <3>1, OkKept DEF CommittedIsRecorded
    <2>3. ASSUME NEW s \in Service, RequestDeploy(s)
          PROVE  CommittedIsRecorded' /\ OkMeansCommitted'
      <3> DEFINE m == [type |-> "error", tag |-> None]
      <3>1. deployView \in DeployView /\ UNCHANGED <<requests, commits>>
        BY <1>a, <2>3 DEF RequestDeploy, Usable, ChangeDeployView
      <3>2. \/ deployView'.msg = deployView.msg
            \/ deployView'.msg = [deployView.msg EXCEPT ![s] = m]
        BY <2>3, <3>1 DEF RequestDeploy, ChangeDeployView, DeployView
      <3>3. deployView.msg \in [Service -> Msg] /\ m.type # "ok"
        BY <3>1 DEF DeployView
      <3>4. \A t \in Service : \/ deployView'.msg[t] = deployView.msg[t]
                               \/ deployView'.msg[t].type # "ok"
        BY <3>2, <3>3
      <3>5. deployView # None
        BY <3>1
      <3> QED
        BY <1>0, <3>1, <3>4, <3>5, OkKept DEF CommittedIsRecorded
    <2>4. ASSUME NEW s \in Service, NEW t \in Tag, TypeTag(s, t)
          PROVE  CommittedIsRecorded' /\ OkMeansCommitted'
      <3>1. deployView # None /\ deployView'.msg = deployView.msg
            /\ UNCHANGED <<requests, commits>>
        BY <1>a, <2>4 DEF TypeTag, Usable, ChangeDeployView, DeployView
      <3> QED
        BY <1>0, <3>1, OkKept DEF CommittedIsRecorded
    <2>5. ASSUME NEW r \in Request, RunDeploy(r)
          PROVE  CommittedIsRecorded' /\ OkMeansCommitted'
      <3> DEFINE d == deployView.confirming
      <3> DEFINE m == [type |-> "pending", tag |-> d.tag]
      <3>1. deployView # None /\ deployView \in DeployView /\ d \in Dialog
        BY <1>a, <2>5 DEF RunDeploy, Asked, DeployView
      <3>2. deployView'.msg = [deployView.msg EXCEPT ![d.svc] = m]
        BY <2>5, <3>1 DEF RunDeploy, DeployView
      <3>3. deployView.msg \in [Service -> Msg] /\ m.type # "ok"
        BY <3>1 DEF DeployView
      <3>4. \A t \in Service : \/ deployView'.msg[t] = deployView.msg[t]
                               \/ deployView'.msg[t].type # "ok"
        BY <3>2, <3>3
      <3>5. /\ \A q \in Request : q # r => requests'[q] = requests[q]
            /\ requests'[r].stage # "committed"
        BY <1>0, <2>5 DEF RunDeploy, DeployTypeOK
      <3>6. UNCHANGED commits
        BY <2>5 DEF RunDeploy
      <3>7. CommittedIsRecorded'
        BY <1>0, <3>5, <3>6 DEF CommittedIsRecorded
      <3> QED
        BY <1>0, <3>1, <3>4, <3>6, <3>7, OkKept
    <2> QED
      BY <1>3, <2>1, <2>2, <2>3, <2>4, <2>5 DEF DeployUser
  <1>4. CASE ServicesArrive
    <2>1. deployView # None /\ deployView'.msg = deployView.msg
          /\ UNCHANGED <<requests, commits>>
      BY <1>a, <1>4 DEF ServicesArrive, ChangeDeployView, DeployView
    <2> QED
      BY <1>0, <2>1, OkKept DEF CommittedIsRecorded
  <1>5. CASE ServicesFail
    <2>1. deployView # None /\ deployView'.msg = deployView.msg
          /\ UNCHANGED <<requests, commits>>
      BY <1>a, <1>5 DEF ServicesFail, ChangeDeployView, DeployView
    <2> QED
      BY <1>0, <2>1, OkKept DEF CommittedIsRecorded
  <1>6. ASSUME NEW s \in Service, HandEdit(s)
        PROVE  CommittedIsRecorded' /\ OkMeansCommitted'
    BY <1>0, <1>6 DEF HandEdit, CommittedIsRecorded, OkMeansCommitted
  <1>7. ASSUME NEW r \in Request, GetFile(r)
        PROVE  CommittedIsRecorded' /\ OkMeansCommitted'
    <2>1. /\ \A q \in Request : q # r => requests'[q] = requests[q]
          /\ requests'[r].stage # "committed"
      <3> DEFINE job == [requests[r] EXCEPT !.content = manifest[requests[r].svc],
                                            !.stage = "got"]
      <3>1. requests[r] \in Deployment
        BY <1>0, <1>7 DEF GetFile, DeployTypeOK
      <3>2. job.stage = "got"
        BY <3>1 DEF Deployment
      <3>3. requests' = [requests EXCEPT ![r] = job]
        BY <1>0, <1>7, <3>1 DEF GetFile, DeployTypeOK, Deployment
      <3> HIDE DEF job
      <3> QED
        BY <1>0, <3>2, <3>3 DEF DeployTypeOK
    <2>2. UNCHANGED <<deployView, commits>>
      BY <1>7 DEF GetFile
    <2>3. CommittedIsRecorded'
      BY <1>0, <2>1, <2>2 DEF CommittedIsRecorded
    <2> QED
      BY <1>0, <2>2, <2>3 DEF OkMeansCommitted
  <1>8. ASSUME NEW r \in Request, UpdateFile(r)
        PROVE  CommittedIsRecorded' /\ OkMeansCommitted'
    <2>1. /\ requests[r] # None /\ Put(r, "committed") /\ UNCHANGED deployView
          /\ commits' = commits \cup {<<requests[r].svc, requests[r].tag>>}
      BY <1>8 DEF UpdateFile
    <2>2. CommittedIsRecorded'
      BY <1>0, <2>1, PutType DEF CommittedIsRecorded
    <2> QED
      BY <1>0, <2>1, <2>2 DEF OkMeansCommitted
  <1>9. ASSUME NEW r \in Request, Conflict(r) \/ Refuse(r)
        PROVE  CommittedIsRecorded' /\ OkMeansCommitted'
    <2>1. /\ requests[r] # None /\ Put(r, "refused")
          /\ UNCHANGED <<deployView, commits>>
      BY <1>9 DEF Conflict, Refuse
    <2>2. CommittedIsRecorded'
      BY <1>0, <2>1, PutType DEF CommittedIsRecorded
    <2> QED
      BY <1>0, <2>1, <2>2 DEF OkMeansCommitted
  <1>10. ASSUME NEW r \in Request, Answer(r)
         PROVE  CommittedIsRecorded' /\ OkMeansCommitted'
    <2> DEFINE type == IF requests[r].stage = "committed" THEN "ok" ELSE "error"
    <2>1. /\ requests[r] # None /\ deployView' = Said(r, type)
          /\ requests' = [requests EXCEPT ![r] = None] /\ UNCHANGED commits
      BY <1>10 DEF Answer
    <2>2. type \in {"ok", "error"}
      OBVIOUS
    <2>3. type = "ok" => <<requests[r].svc, requests[r].tag>> \in commits
      BY <1>0, <2>1 DEF CommittedIsRecorded
    <2>4. CommittedIsRecorded'
      BY <1>0, <2>1 DEF CommittedIsRecorded, DeployTypeOK
    <2> HIDE DEF type
    <2>5. deployView' # None =>
             /\ deployView # None
             /\ \A s \in Service :
                   \/ deployView'.msg[s] = deployView.msg[s]
                   \/ s = requests[r].svc
                      /\ deployView'.msg[s] = [type |-> type, tag |-> requests[r].tag]
      BY <1>0, <2>1, <2>2, SaidType
    <2>6. deployView' # None =>
             /\ deployView # None
             /\ \A s \in Service :
                   \/ deployView'.msg[s].type # "ok"
                   \/ deployView'.msg[s] = deployView.msg[s]
                   \/ <<s, deployView'.msg[s].tag>> \in commits
      BY <2>3, <2>5
    <2> QED
      BY <1>0, <2>1, <2>4, <2>6, OkKept
  <1>11. ASSUME NEW r \in Request, GiveUp(r)
         PROVE  CommittedIsRecorded' /\ OkMeansCommitted'
    <2>1. /\ requests[r] # None /\ deployView' = Said(r, "error") /\ UNCHANGED commits
      BY <1>11 DEF GiveUp
    <2>2. requests[r] \in Deployment
      BY <1>0, <2>1 DEF DeployTypeOK
    <2>3. /\ \A q \in Request : q # r => requests'[q] = requests[q]
          /\ requests'[r] # None => requests'[r].stage = "got"
      BY <1>0, <1>11, <2>2 DEF GiveUp, DeployTypeOK, Deployment
    <2>4. CommittedIsRecorded'
      BY <1>0, <2>1, <2>3 DEF CommittedIsRecorded
    <2>5. deployView' # None =>
             /\ deployView # None
             /\ \A s \in Service :
                   \/ deployView'.msg[s] = deployView.msg[s]
                   \/ deployView'.msg[s] = [type |-> "error", tag |-> requests[r].tag]
      BY <1>0, <2>1, SaidType
    <2>6. deployView' # None =>
             /\ deployView # None
             /\ \A s \in Service : \/ deployView'.msg[s].type # "ok"
                                   \/ deployView'.msg[s] = deployView.msg[s]
      BY <2>5
    <2> QED
      BY <1>0, <2>1, <2>4, <2>6, OkKept
  <1>12. ASSUME NEW r \in Request, LateWriteLost(r)
         PROVE  CommittedIsRecorded' /\ OkMeansCommitted'
    BY <1>0, <1>12 DEF LateWriteLost, CommittedIsRecorded, OkMeansCommitted, DeployTypeOK
  <1>13. CASE UNCHANGED deployVars
    BY <1>0, <1>13 DEF deployVars, CommittedIsRecorded, OkMeansCommitted
  <1> QED
    BY <1>1, <1>2, <1>3, <1>4, <1>5, <1>6, <1>7, <1>8, <1>9, <1>10, <1>11, <1>12,
       <1>13 DEF DeployNext, GitHubStep

(* DeployInv is inductive, so every row that reports a commit is true,     *)
(* also when answers of overlapping deployments arrive out of order.       *)
THEOREM OkIsCommitted == DeploySpec => []OkMeansCommitted
  <1>1. DeployInit => DeployInv
    BY TypesInit, SafeInit DEF DeployInv
  <1>2. DeployInv /\ [DeployNext]_deployVars => DeployInv'
    BY TypesNext, SafeNext DEF DeployInv
  <1>3. DeployInv => OkMeansCommitted
    BY DEF DeployInv
  <1> QED
    BY <1>1, <1>2, <1>3, PTL DEF DeploySpec

-----------------------------------------------------------------------------
(* A write puts back the edits it has read, and the SHA says that these    *)
(* are all there are; only others add to them.                             *)
LEMMA EditsKept ==
    DeployTypeOK /\ [DeployNext]_deployVars =>
        \A s \in Service : manifest'[s].edits >= manifest[s].edits
  <1> SUFFICES ASSUME DeployTypeOK, [DeployNext]_deployVars, NEW s \in Service
               PROVE  manifest'[s].edits >= manifest[s].edits
    OBVIOUS
  <1>1. manifest[s] \in Content /\ manifest[s].edits \in Nat
    BY DEF DeployTypeOK, Content
  <1>2. CASE UNCHANGED manifest
    BY <1>1, <1>2
  <1>3. ASSUME NEW t \in Service, HandEdit(t)
        PROVE  manifest'[s].edits >= manifest[s].edits
    BY <1>1, <1>3 DEF HandEdit, DeployTypeOK
  <1>4. ASSUME NEW r \in Request, UpdateFile(r)
        PROVE  manifest'[s].edits >= manifest[s].edits
    <2>1. requests[r] \in Deployment /\ requests[r].content \in Content
      BY <1>4 DEF UpdateFile, DeployTypeOK
    <2>2. [requests[r].content EXCEPT !.tag = requests[r].tag].edits
             = requests[r].content.edits
      BY <2>1 DEF Content
    <2>3. manifest' = [manifest EXCEPT
             ![requests[r].svc] = [requests[r].content EXCEPT !.tag = requests[r].tag]]
      BY <1>4 DEF UpdateFile
    <2>4. requests[r].content = manifest[requests[r].svc]
      BY <1>4 DEF UpdateFile
    <2>5. manifest'[s].edits = manifest[s].edits
      BY <2>2, <2>3, <2>4 DEF DeployTypeOK
    <2> QED
      BY <1>1, <2>5
  <1>5. CASE DeployUser
    BY <1>2, <1>5 DEF DeployUser, Refresh, CancelDeploy, RequestDeploy, TypeTag,
       RunDeploy, ChangeDeployView
  <1> QED
    BY <1>2, <1>3, <1>4, <1>5 DEF DeployNext, GitHubStep, MountDeploy, UnmountDeploy,
       ServicesArrive, ServicesFail, ChangeDeployView, GetFile, Conflict, Refuse,
       Answer, GiveUp, LateWriteLost, deployVars

(* No deployment undoes the commit of someone else, for any number of      *)
(* overlapping deployments, of which some outlive their answer.            *)
THEOREM EditsSurvive == DeploySpec => NoLostEdit
  <1>1. DeployTypeOK /\ [DeployNext]_deployVars =>
           [\A s \in Service : manifest'[s].edits >= manifest[s].edits]_deployVars
    BY EditsKept
  <1> QED
    BY <1>1, DeployTypes, PTL DEF DeploySpec, NoLostEdit
-----------------------------------------------------------------------------
(* The checklist.  Outcomes are sequences of at most HistoryMax bits.      *)
LEMMA OutcomesAreSequences ==
    \A h : h \in Outcomes <=> h \in Seq({0, 1}) /\ Len(h) <= HistoryMax
  <1>1. HistoryMax \in Nat
    BY ChecklistAssumption
  <1>2. ASSUME NEW h \in Outcomes PROVE h \in Seq({0, 1}) /\ Len(h) <= HistoryMax
    <2>1. PICK n \in 0..HistoryMax : h \in [1..n -> {0, 1}]
      BY DEF Outcomes
    <2>2. n \in Nat /\ h \in Seq({0, 1})
      BY <1>1, <2>1, SeqDef
    <2>3. DOMAIN h = 1..n /\ DOMAIN h = 1..Len(h) /\ Len(h) \in Nat
      BY <2>1, <2>2, LenProperties
    <2>4. Len(h) = n
      BY <2>2, <2>3
    <2> QED
      BY <1>1, <2>1, <2>2, <2>4
  <1>3. ASSUME NEW h \in Seq({0, 1}), Len(h) <= HistoryMax PROVE h \in Outcomes
    <2>1. Len(h) \in Nat /\ h \in [1..Len(h) -> {0, 1}]
      BY <1>3, LenProperties
    <2>2. Len(h) \in 0..HistoryMax
      BY <1>1, <1>3, <2>1
    <2> QED
      BY <2>1, <2>2 DEF Outcomes
  <1> QED
    BY <1>2, <1>3

(* The outcome a status is recorded as.                                    *)
Bit(status) == IF status = "pass" THEN 1 ELSE 0

(* Recording an outcome keeps the bound and puts the outcome at the end.   *)
LEMMA StampedEndsWith ==
    ASSUME NEW h \in Outcomes, NEW status \in Status
    PROVE  /\ Stamped(h, status) \in Outcomes
           /\ Stamped(h, status) # <<>>
           /\ Last(Stamped(h, status)) = Bit(status)
  <1> DEFINE hist == Append(h, Bit(status))
  <1>1. HistoryMax \in Nat \ {0} /\ h \in Seq({0, 1}) /\ Len(h) <= HistoryMax
        /\ Len(h) \in Nat /\ Bit(status) \in {0, 1}
    BY ChecklistAssumption, OutcomesAreSequences, LenProperties DEF Bit
  <1>2. /\ hist \in Seq({0, 1}) /\ Len(hist) = Len(h) + 1 /\ Len(hist) \in Nat
        /\ hist[Len(hist)] = Bit(status)
    BY <1>1
  <1> HIDE DEF hist
  <1>3. CASE Len(hist) > HistoryMax
    <2> DEFINE m == Len(hist) - HistoryMax + 1
               cut == SubSeq(hist, m, Len(hist))
    <2>1. Stamped(h, status) = cut
      BY <1>3 DEF Stamped, Bit, hist
    <2>2. m \in 1..Len(hist) /\ m \in Int /\ Len(hist) \in Int
          /\ Len(hist) - m + 1 = HistoryMax
      BY <1>1, <1>2, <1>3
    <2>3. \A i \in m..Len(hist) : hist[i] \in {0, 1}
      BY <1>2, <2>2, ElementOfSeq
    <2> HIDE DEF m
    <2>4. /\ cut \in Seq({0, 1}) /\ Len(cut) = HistoryMax
          /\ \A i \in 1..Len(hist) - m + 1 : cut[i] = hist[m + i - 1]
      BY <1>1, <2>2, <2>3, SubSeqProperties
    <2>5. cut[HistoryMax] = hist[Len(hist)]
      BY <1>1, <1>2, <2>2, <2>4
    <2>6. cut # <<>>
      BY <1>1, <2>4, EmptySeq
    <2> HIDE DEF cut
    <2>7. cut \in Outcomes
      BY <1>1, <2>4, OutcomesAreSequences
    <2>8. Last(cut) = Bit(status)
      BY <1>2, <2>4, <2>5 DEF Last
    <2> QED
      BY <2>1, <2>6, <2>7, <2>8
  <1>4. CASE ~(Len(hist) > HistoryMax)
    <2>1. Stamped(h, status) = hist
      BY <1>4 DEF Stamped, Bit, hist
    <2>2. hist # <<>>
      BY <1>1, <1>2, EmptySeq
    <2> QED
      BY <1>1, <1>2, <1>4, <2>1, <2>2, OutcomesAreSequences DEF Last
  <1> QED
    BY <1>3, <1>4

LEMMA NoOutcomes == <<>> \in Outcomes
  <1>1. <<>> \in Seq({0, 1}) /\ Len(<<>>) = 0
    BY EmptySeq
  <1>2. ASSUME NEW h \in Seq({0, 1}), Len(h) = 0 PROVE h \in Outcomes
    <2>1. HistoryMax \in Nat /\ 0 <= HistoryMax
      BY ChecklistAssumption
    <2>2. Len(h) <= HistoryMax
      BY <1>2, <2>1
    <2> QED
      BY <2>2, OutcomesAreSequences
  <1> QED
    BY <1>1, <1>2, Zenon

LEMMA NewTypes ==
    /\ NewView \in View
    /\ NoPoll \in PollState /\ NewPoll \in PollState
    /\ NewPoll.stage = "sent" /\ \A c \in Check : NewPoll.read[c] = "unread"
    /\ NoPoll.stage = "idle" /\ ~NoPoll.mine
  BY NoOutcomes DEF NewView, View, NoPoll, NewPoll, PollState

LEMMA ChecklistInitTypes == ChecklistInit => ChecklistTypeOK
  <1> SUFFICES ASSUME ChecklistInit PROVE ChecklistTypeOK
    OBVIOUS
  <1>1. health \in [Check -> Status] /\ history \in [Check -> Outcomes]
        /\ seen \in [Check -> SUBSET Status]
    BY NoOutcomes DEF ChecklistInit
  <1>2. spent \in [tabs : 0..MaxTabs, flips : 0..MaxFlips, faults : 0..MaxFaults]
    BY ChecklistAssumption DEF ChecklistInit
  <1>3. polls \in [Poll -> PollState] /\ checklist \in View /\ checklist # None
    BY NewTypes, ChecklistNullAssumption DEF ChecklistInit
  <1> QED
    BY <1>1, <1>2, <1>3 DEF ChecklistTypeOK

(* What the answer to a poll makes of the view.                            *)
LEMMA AnswerShown ==
    ASSUME checklist \in View, NEW p \in Poll, polls[p] \in PollState,
           \A c \in Check : polls[p].read[c] # "unread"
    PROVE  LET new == ShowAnswer(p) IN
           /\ new \in View
           /\ new.justChanged = Changed(p)
           /\ \A c \in Check :
                 /\ new.prev[c] = IF c \in Present(p) THEN polls[p].read[c]
                                  ELSE checklist.prev[c]
                 /\ new.data[c] = IF c \notin Present(p) THEN None
                                  ELSE [status |-> polls[p].read[c],
                                        history |-> polls[p].stamped[c]]
           /\ new.data \in [Check -> Row \cup {None}]
  <1>1. /\ \A c \in Present(p) : polls[p].read[c] \in Status
        /\ \A c \in Check : polls[p].stamped[c] \in Outcomes
        /\ Present(p) \subseteq Check
    BY DEF Present, PollState, Status
  <1> DEFINE prev == [c \in Check |-> IF c \in Present(p) THEN polls[p].read[c]
                                      ELSE checklist.prev[c]]
             data == [c \in Check |-> IF c \notin Present(p) THEN None
                                      ELSE [status |-> polls[p].read[c],
                                            history |-> polls[p].stamped[c]]]
             timers == IF Changed(p) = {} THEN checklist.timers ELSE checklist.timers + 1
  <1>2. prev \in [Check -> Status \cup {None}]
    BY <1>1 DEF View
  <1>3. data \in [Check -> Row \cup {None}]
    BY <1>1 DEF Row
  <1>4. timers \in Nat /\ Changed(p) \in SUBSET Check
    BY <1>1 DEF View, Changed
  <1>5. ShowAnswer(p) = [checklist EXCEPT !.prev = prev, !.justChanged = Changed(p),
                            !.timers = timers, !.data = data, !.loading = FALSE]
    BY DEF ShowAnswer
  <1>6. \A c \in Check :
           /\ prev[c] = IF c \in Present(p) THEN polls[p].read[c] ELSE checklist.prev[c]
           /\ data[c] = IF c \notin Present(p) THEN None
                        ELSE [status |-> polls[p].read[c], history |-> polls[p].stamped[c]]
    OBVIOUS
  <1> HIDE DEF prev, data, timers
  <1>7. /\ ShowAnswer(p) \in View /\ ShowAnswer(p).prev = prev
        /\ ShowAnswer(p).data = data /\ ShowAnswer(p).justChanged = Changed(p)
    BY <1>2, <1>3, <1>4, <1>5 DEF View
  <1> QED
    BY <1>3, <1>6, <1>7

-----------------------------------------------------------------------------
(* What a poll of the mounted view has read, the view has seen; what is    *)
(* sent back has been read, and recorded at the end of its history.        *)
Agrees(h, status) == h # <<>> /\ Last(h) = Bit(status)

PollSound(p) ==
    /\ polls[p].mine =>
          \A c \in Check : polls[p].read[c] \in Status => polls[p].read[c] \in seen[c]
    /\ polls[p].stage = "stamped" =>
          \A c \in Check :
             /\ polls[p].read[c] # "unread"
             /\ polls[p].read[c] \in Status => Agrees(polls[p].stamped[c], polls[p].read[c])

(* What the view compares an answer with, it has seen.                     *)
ViewSound ==
    checklist # None =>
        /\ \A c \in Check : checklist.prev[c] # None => checklist.prev[c] \in seen[c]
        /\ \A c \in checklist.justChanged : seen[c] = Status
        /\ checklist.data # None =>
              \A c \in Check :
                 checklist.data[c] # None =>
                    Agrees(checklist.data[c].history, checklist.data[c].status)

ChecklistInv == ChecklistTypeOK /\ ViewSound /\ \A p \in Poll : PollSound(p)

LEMMA ChecklistInvInit == ChecklistInit => ChecklistInv
  <1> SUFFICES ASSUME ChecklistInit PROVE ChecklistInv
    OBVIOUS
  <1>1. ViewSound
    BY DEF ChecklistInit, ViewSound, NewView
  <1>2. \A p \in Poll : PollSound(p)
    BY NewTypes, ChecklistNullAssumption DEF ChecklistInit, PollSound, Status
  <1> QED
    BY <1>1, <1>2, ChecklistInitTypes DEF ChecklistInv

(* A step that leaves data and comparison of the view alone.               *)
LEMMA SameView ==
    ASSUME ViewSound, checklist \in View, checklist' \in View, checklist # None,
           checklist'.data = checklist.data, checklist'.prev = checklist.prev,
           checklist'.justChanged \subseteq checklist.justChanged,
           seen' \in [Check -> SUBSET Status], \A c \in Check : seen[c] \subseteq seen'[c]
    PROVE  ViewSound'
  <1>1. \A c \in checklist.justChanged : c \in Check
    BY DEF View
  <1> QED
    BY <1>1 DEF ViewSound

(* A step of the page alone.                                               *)
LEMMA PageStep ==
    ASSUME ChecklistInv, checklist # None, checklist' \in View,
           checklist'.data = checklist.data, checklist'.prev = checklist.prev,
           checklist'.justChanged \subseteq checklist.justChanged,
           UNCHANGED <<health, history, polls, seen, spent>>
    PROVE  ChecklistInv'
  <1>1. checklist' # None
    BY ChecklistNullAssumption
  <1>2. ChecklistTypeOK'
    BY <1>1 DEF ChecklistInv, ChecklistTypeOK
  <1>3. ViewSound'
    BY SameView DEF ChecklistInv, ChecklistTypeOK
  <1>4. \A p \in Poll : PollSound(p)'
    BY DEF ChecklistInv, PollSound
  <1> QED
    BY <1>2, <1>3, <1>4 DEF ChecklistInv

(* A step that puts poll p into state new.                                 *)
LEMMA PollStepTypes ==
    ASSUME ChecklistInv, NEW p \in Poll, NEW new \in PollState,
           polls' = [polls EXCEPT ![p] = new], new.mine => checklist' # None,
           checklist = None => checklist' = None,
           checklist' \in View \/ checklist' = checklist,
           seen' \in [Check -> SUBSET Status], \A c \in Check : seen[c] \subseteq seen'[c],
           history' \in [Check -> Outcomes], health' = health,
           spent' \in [tabs : 0..MaxTabs, flips : 0..MaxFlips, faults : 0..MaxFaults]
    PROVE  /\ ChecklistTypeOK'
           /\ polls'[p] = new
           /\ \A q \in Poll : q # p => polls'[q] = polls[q] /\ PollSound(q)'
  <1>1. /\ polls' \in [Poll -> PollState] /\ polls'[p] = new
        /\ \A q \in Poll : q # p => polls'[q] = polls[q]
    BY DEF ChecklistInv, ChecklistTypeOK
  <1>2. checklist # None => checklist' # None
    BY ChecklistNullAssumption
  <1>3. ChecklistTypeOK'
    BY <1>1, <1>2 DEF ChecklistInv, ChecklistTypeOK
  <1>4. ASSUME NEW q \in Poll, q # p PROVE PollSound(q)'
    BY <1>1, <1>4 DEF ChecklistInv, PollSound
  <1> QED
    BY <1>1, <1>3, <1>4

LEMMA LoadInv ==
    ASSUME ChecklistInv, checklist # None, NEW p \in Poll, NEW silent \in BOOLEAN,
           Load(p, silent)
    PROVE  ChecklistInv'
  <1>1. checklist \in View /\ seen \in [Check -> SUBSET Status]
    BY DEF ChecklistInv, ChecklistTypeOK
  <1> DEFINE logs == IF checklist.error THEN "loading" ELSE checklist.logs
             loading == checklist.loading \/ ~silent
  <1>2. logs \in {"loading", "shown"} /\ loading \in BOOLEAN
    BY <1>1 DEF View
  <1>3. checklist' = [checklist EXCEPT !.error = FALSE, !.loading = loading, !.logs = logs]
    BY DEF Load
  <1> HIDE DEF logs, loading
  <1>4. /\ checklist' \in View /\ checklist'.data = checklist.data
        /\ checklist'.prev = checklist.prev
        /\ checklist'.justChanged = checklist.justChanged
    BY <1>1, <1>2, <1>3 DEF View
  <1>5. ViewSound'
    BY <1>1, <1>4, SameView DEF Load, ChecklistInv
  <1>6. /\ polls' = [polls EXCEPT ![p] = NewPoll] /\ checklist' # None
        /\ UNCHANGED <<health, history, seen, spent>>
    BY <1>4, ChecklistNullAssumption DEF Load
  <1>7. /\ ChecklistTypeOK' /\ polls'[p] = NewPoll
        /\ \A q \in Poll : q # p => PollSound(q)'
    BY <1>4, <1>6, NewTypes, PollStepTypes DEF ChecklistInv, ChecklistTypeOK
  <1>8. PollSound(p)'
    BY <1>7, NewTypes DEF PollSound, Status
  <1> QED
    BY <1>5, <1>7, <1>8 DEF ChecklistInv

LEMMA RunCheckInv ==
    ASSUME ChecklistInv, NEW p \in Poll, NEW c \in Check, RunCheck(p, c)
    PROVE  ChecklistInv'
  <1>1. /\ polls[p] \in PollState /\ health[c] \in Status
        /\ seen \in [Check -> SUBSET Status] /\ checklist \in View \cup {None}
        /\ polls[p].mine => checklist # None
    BY DEF ChecklistInv, ChecklistTypeOK
  <1> DEFINE read == [polls[p].read EXCEPT ![c] = health[c]]
             new == [polls[p] EXCEPT !.read = read]
  <1>2. /\ read \in [Check -> Status \cup {"unread", "absent"}]
        /\ read[c] = health[c] /\ \A d \in Check : d # c => read[d] = polls[p].read[d]
    BY <1>1 DEF PollState
  <1>3. polls' = [polls EXCEPT ![p] = new]
    BY DEF RunCheck
  <1> HIDE DEF read
  <1>4. /\ new \in PollState /\ new.read = read /\ new.mine = polls[p].mine
        /\ new.stage = polls[p].stage
    BY <1>1, <1>2 DEF PollState
  <1> HIDE DEF new
  <1>5. /\ seen' \in [Check -> SUBSET Status]
        /\ \A d \in Check : seen[d] \subseteq seen'[d]
        /\ polls[p].mine => health[c] \in seen'[c]
    BY <1>1 DEF RunCheck
  <1>6. /\ UNCHANGED <<health, history, checklist, spent>> /\ polls[p].stage = "sent"
    BY DEF RunCheck
  <1>7. /\ ChecklistTypeOK' /\ polls'[p] = new
        /\ \A q \in Poll : q # p => PollSound(q)'
    BY <1>1, <1>3, <1>4, <1>5, <1>6, PollStepTypes DEF ChecklistInv, ChecklistTypeOK
  <1>8. PollSound(p)'
    BY <1>2, <1>4, <1>5, <1>6, <1>7 DEF ChecklistInv, PollSound
  <1>9. ViewSound'
    <2>1. CASE checklist = None
      BY <1>6, <2>1 DEF ViewSound
    <2>2. CASE checklist # None
      BY <1>1, <1>5, <1>6, <2>2, SameView DEF ChecklistInv
    <2> QED
      BY <2>1, <2>2
  <1> QED
    BY <1>7, <1>8, <1>9 DEF ChecklistInv

LEMMA ExpireInv ==
    ASSUME ChecklistInv, NEW p \in Poll, Expire(p)
    PROVE  ChecklistInv'
  <1>1. /\ polls[p] \in PollState
        /\ seen \in [Check -> SUBSET Status] /\ checklist \in View \cup {None}
        /\ polls[p].mine => checklist # None
        /\ spent \in [tabs : 0..MaxTabs, flips : 0..MaxFlips, faults : 0..MaxFaults]
    BY DEF ChecklistInv, ChecklistTypeOK
  <1> DEFINE late == {c \in Check : polls[p].read[c] = "unread"}
             read == [c \in Check |-> IF c \notin late THEN polls[p].read[c]
                                      ELSE IF c \in Listed THEN "absent" ELSE "fail"]
             new == [polls[p] EXCEPT !.read = read]
  <1>2. /\ read \in [Check -> Status \cup {"unread", "absent"}]
        /\ \A c \in Check : read[c] \in Status =>
              \/ read[c] = polls[p].read[c]
              \/ read[c] = "fail" /\ c \in late \ Listed
    BY <1>1 DEF PollState, Status
  <1>3. polls' = [polls EXCEPT ![p] = new]
    BY DEF Expire
  <1>4. /\ seen' \in [Check -> SUBSET Status]
        /\ \A c \in Check : seen[c] \subseteq seen'[c]
        /\ polls[p].mine => \A c \in late \ Listed : "fail" \in seen'[c]
    BY <1>1 DEF Expire, Status
  <1>5. /\ UNCHANGED <<health, history, checklist>> /\ polls[p].stage = "sent"
    BY DEF Expire
  <1>6. spent' \in [tabs : 0..MaxTabs, flips : 0..MaxFlips, faults : 0..MaxFaults]
    BY <1>1, ChecklistAssumption DEF Expire, Fault
  <1> HIDE DEF read, late
  <1>7. /\ new \in PollState /\ new.read = read /\ new.mine = polls[p].mine
        /\ new.stage = polls[p].stage
    BY <1>1, <1>2 DEF PollState
  <1> HIDE DEF new
  <1>8. /\ ChecklistTypeOK' /\ polls'[p] = new
        /\ \A q \in Poll : q # p => PollSound(q)'
    BY <1>1, <1>3, <1>4, <1>5, <1>6, <1>7, PollStepTypes DEF ChecklistInv, ChecklistTypeOK
  <1>9. PollSound(p)'
    BY <1>2, <1>4, <1>5, <1>7, <1>8 DEF ChecklistInv, PollSound
  <1>10. ViewSound'
    <2>1. CASE checklist = None
      BY <1>5, <2>1 DEF ViewSound
    <2>2. CASE checklist # None
      BY <1>1, <1>4, <1>5, <2>2, SameView DEF ChecklistInv
    <2> QED
      BY <2>1, <2>2
  <1> QED
    BY <1>8, <1>9, <1>10 DEF ChecklistInv

LEMMA StampHistoryInv ==
    ASSUME ChecklistInv, NEW p \in Poll, StampHistory(p)
    PROVE  ChecklistInv'
  <1>1. /\ polls[p] \in PollState /\ history \in [Check -> Outcomes]
        /\ seen \in [Check -> SUBSET Status] /\ checklist \in View \cup {None}
        /\ polls[p].mine => checklist # None
    BY DEF ChecklistInv, ChecklistTypeOK
  <1>2. \A c \in Check : polls[p].read[c] # "absent" => polls[p].read[c] \in Status
    BY <1>1 DEF StampHistory, PollState
  <1>3. \A c \in Check : history'[c] = IF polls[p].read[c] = "absent" THEN history[c]
                                      ELSE Stamped(history[c], polls[p].read[c])
    BY DEF StampHistory
  <1>4. history' \in [Check -> Outcomes]
    <2>1. \A c \in Check : history'[c] \in Outcomes
      BY <1>1, <1>2, <1>3, StampedEndsWith
    <2>2. history' = [c \in Check |-> history'[c]]
      BY DEF StampHistory
    <2> QED
      BY <2>1, <2>2
  <1>5. \A c \in Check : polls[p].read[c] \in Status =>
                            Agrees(history'[c], polls[p].read[c])
    <2> SUFFICES ASSUME NEW c \in Check, polls[p].read[c] \in Status
                 PROVE  Agrees(history'[c], polls[p].read[c])
      OBVIOUS
    <2>1. history'[c] = Stamped(history[c], polls[p].read[c])
      BY <1>3 DEF Status
    <2> QED
      BY <1>1, <2>1, StampedEndsWith DEF Agrees
  <1>6. PICK new \in PollState :
           /\ new.read = polls[p].read /\ new.mine = polls[p].mine
           /\ new.stage = "stamped" /\ new.stamped = history'
           /\ polls' = [polls EXCEPT ![p] = new]
    <2>1. \A h \in [Check -> Outcomes] :
             LET n == [polls[p] EXCEPT !.stage = "stamped", !.stamped = h] IN
             /\ n \in PollState /\ n.read = polls[p].read /\ n.mine = polls[p].mine
             /\ n.stage = "stamped" /\ n.stamped = h
      BY <1>1 DEF PollState
    <2>2. \E h : h = history' /\ polls' = [polls EXCEPT ![p] =
                     [polls[p] EXCEPT !.stage = "stamped", !.stamped = h]]
      BY DEF StampHistory
    <2> QED
      BY <1>4, <2>1, <2>2
  <1>7. /\ UNCHANGED <<health, checklist, seen, spent>>
        /\ \A c \in Check : polls[p].read[c] # "unread"
    BY DEF StampHistory
  <1>8. /\ ChecklistTypeOK' /\ polls'[p] = new
        /\ \A q \in Poll : q # p => PollSound(q)'
    BY <1>1, <1>4, <1>6, <1>7, PollStepTypes DEF ChecklistInv, ChecklistTypeOK
  <1>9. PollSound(p)'
    BY <1>5, <1>6, <1>7, <1>8 DEF ChecklistInv, PollSound
  <1>10. ViewSound'
    BY <1>7 DEF ChecklistInv, ViewSound
  <1> QED
    BY <1>8, <1>9, <1>10 DEF ChecklistInv

LEMMA ArriveInv ==
    ASSUME ChecklistInv, NEW p \in Poll, Arrive(p)
    PROVE  ChecklistInv'
  <1>1. /\ polls[p] \in PollState /\ polls[p].stage = "stamped"
        /\ seen \in [Check -> SUBSET Status] /\ checklist \in View \cup {None}
        /\ polls[p].mine => checklist # None
        /\ polls' = [polls EXCEPT ![p] = NoPoll]
        /\ UNCHANGED <<health, history, seen, spent>>
    BY DEF ChecklistInv, ChecklistTypeOK, Arrive
  <1>2. \A c \in Check :
           /\ polls[p].read[c] # "unread"
           /\ polls[p].read[c] \in Status => Agrees(polls[p].stamped[c], polls[p].read[c])
    BY <1>1 DEF ChecklistInv, PollSound
  <1>3. /\ checklist = None => checklist' = None
        /\ checklist' \in View \/ checklist' = checklist
        /\ ViewSound'
    <2>1. CASE ~polls[p].mine
      BY <1>1, <2>1 DEF Arrive, ChecklistInv, ViewSound
    <2>2. CASE polls[p].mine
      <3>1. checklist \in View /\ checklist # None /\ checklist' = ShowAnswer(p)
        BY <1>1, <2>2 DEF Arrive
      <3>2. /\ checklist' \in View
            /\ checklist'.justChanged = Changed(p)
            /\ \A c \in Check :
                  /\ checklist'.prev[c] = IF c \in Present(p) THEN polls[p].read[c]
                                          ELSE checklist.prev[c]
                  /\ checklist'.data[c] = IF c \notin Present(p) THEN None
                                          ELSE [status |-> polls[p].read[c],
                                                history |-> polls[p].stamped[c]]
        BY <1>1, <1>2, <3>1, AnswerShown
      <3>3. \A c \in Present(p) : /\ c \in Check /\ polls[p].read[c] \in Status
                                  /\ polls[p].read[c] \in seen[c]
        BY <1>1, <1>2, <2>2 DEF Present, PollState, ChecklistInv, PollSound
      <3>4. \A c \in Check : checklist.prev[c] # None => checklist.prev[c] \in seen[c]
        BY <3>1 DEF ChecklistInv, ViewSound
      <3>5. \A c \in Check : checklist'.prev[c] # None => checklist'.prev[c] \in seen'[c]
        BY <1>1, <3>2, <3>3, <3>4
      <3>6. \A c \in checklist'.justChanged : seen'[c] = Status
        BY <1>1, <3>2, <3>3, <3>4 DEF Changed, Present, Status
      <3>7. \A c \in Check : checklist'.data[c] # None =>
               Agrees(checklist'.data[c].history, checklist'.data[c].status)
        <4> SUFFICES ASSUME NEW c \in Check, c \in Present(p)
                     PROVE  Agrees(checklist'.data[c].history, checklist'.data[c].status)
          BY <3>2
        <4>1. checklist'.data[c] = [status |-> polls[p].read[c],
                                    history |-> polls[p].stamped[c]]
          BY <3>2
        <4> QED
          BY <1>2, <3>3, <4>1
      <3>8. ViewSound'
        BY <3>5, <3>6, <3>7 DEF ViewSound
      <3> QED
        BY <3>1, <3>2, <3>8
    <2> QED
      BY <2>1, <2>2
  <1>4. /\ ChecklistTypeOK' /\ polls'[p] = NoPoll
        /\ \A q \in Poll : q # p => PollSound(q)'
    BY <1>1, <1>3, NewTypes, PollStepTypes DEF ChecklistInv, ChecklistTypeOK
  <1>5. PollSound(p)'
    BY <1>4, NewTypes DEF PollSound
  <1> QED
    BY <1>3, <1>4, <1>5 DEF ChecklistInv

LEMMA PollFailsInv ==
    ASSUME ChecklistInv, NEW p \in Poll, PollFails(p)
    PROVE  ChecklistInv'
  <1>1. /\ polls[p] \in PollState
        /\ seen \in [Check -> SUBSET Status] /\ checklist \in View \cup {None}
        /\ polls[p].mine => checklist # None
        /\ polls' = [polls EXCEPT ![p] = NoPoll]
        /\ UNCHANGED <<health, history, seen>>
        /\ spent \in [tabs : 0..MaxTabs, flips : 0..MaxFlips, faults : 0..MaxFaults]
    BY DEF ChecklistInv, ChecklistTypeOK, PollFails
  <1>2. spent' \in [tabs : 0..MaxTabs, flips : 0..MaxFlips, faults : 0..MaxFaults]
    BY <1>1, ChecklistAssumption DEF PollFails, Fault
  <1>3. /\ checklist = None => checklist' = None
        /\ checklist' \in View \/ checklist' = checklist
        /\ ViewSound'
    <2>1. CASE ~polls[p].mine
      BY <1>1, <2>1 DEF PollFails, ChecklistInv, ViewSound
    <2>2. CASE polls[p].mine
      <3>1. /\ checklist \in View /\ checklist # None
            /\ checklist' = [checklist EXCEPT !.error = TRUE, !.loading = FALSE]
        BY <1>1, <2>2 DEF PollFails
      <3>2. /\ checklist' \in View /\ checklist'.data = checklist.data
            /\ checklist'.prev = checklist.prev
            /\ checklist'.justChanged = checklist.justChanged
        BY <3>1 DEF View
      <3>3. ViewSound'
        BY <1>1, <3>1, <3>2, SameView DEF ChecklistInv
      <3> QED
        BY <3>1, <3>2, <3>3
    <2> QED
      BY <2>1, <2>2
  <1>4. /\ ChecklistTypeOK' /\ polls'[p] = NoPoll
        /\ \A q \in Poll : q # p => PollSound(q)'
    BY <1>1, <1>2, <1>3, NewTypes, PollStepTypes DEF ChecklistInv, ChecklistTypeOK
  <1>5. PollSound(p)'
    BY <1>4, NewTypes DEF PollSound
  <1> QED
    BY <1>3, <1>4, <1>5 DEF ChecklistInv

(* The tab is opened: no poll under way is one of the new view.            *)
LEMMA MountChecklistInv ==
    ASSUME ChecklistInv, MountChecklist
    PROVE  ChecklistInv'
  <1>1. PICK p \in Poll : polls' = [polls EXCEPT ![p] = NewPoll]
    BY DEF MountChecklist
  <1>2. /\ polls \in [Poll -> PollState] /\ \A q \in Poll : ~polls[q].mine
        /\ checklist' = NewView /\ seen' = [c \in Check |-> {}]
        /\ UNCHANGED <<health, history>>
        /\ spent \in [tabs : 0..MaxTabs, flips : 0..MaxFlips, faults : 0..MaxFaults]
    BY DEF ChecklistInv, ChecklistTypeOK, MountChecklist
  <1>3. spent' \in [tabs : 0..MaxTabs, flips : 0..MaxFlips, faults : 0..MaxFaults]
    BY <1>2, ChecklistAssumption DEF MountChecklist
  <1>4. /\ polls' \in [Poll -> PollState] /\ polls'[p] = NewPoll
        /\ \A q \in Poll : q # p => polls'[q] = polls[q]
    BY <1>1, <1>2, NewTypes
  <1>5. ChecklistTypeOK'
    BY <1>2, <1>3, <1>4, NewTypes, ChecklistNullAssumption DEF ChecklistInv, ChecklistTypeOK
  <1>6. ViewSound'
    BY <1>2 DEF ViewSound, NewView
  <1>7. PollSound(p)'
    BY <1>4, NewTypes DEF PollSound, Status
  <1>8. ASSUME NEW q \in Poll, q # p PROVE PollSound(q)'
    BY <1>2, <1>4, <1>8 DEF ChecklistInv, PollSound
  <1> QED
    BY <1>5, <1>6, <1>7, <1>8 DEF ChecklistInv

LEMMA UnmountChecklistInv ==
    ASSUME ChecklistInv, UnmountChecklist
    PROVE  ChecklistInv'
  <1>1. /\ polls \in [Poll -> PollState]
        /\ polls' = [p \in Poll |-> [polls[p] EXCEPT !.mine = FALSE]]
        /\ checklist' = None /\ UNCHANGED <<health, history, seen>>
        /\ spent \in [tabs : 0..MaxTabs, flips : 0..MaxFlips, faults : 0..MaxFaults]
    BY DEF ChecklistInv, ChecklistTypeOK, UnmountChecklist
  <1>2. spent' \in [tabs : 0..MaxTabs, flips : 0..MaxFlips, faults : 0..MaxFaults]
    BY <1>1, ChecklistAssumption DEF UnmountChecklist
  <1>3. \A p \in Poll : /\ polls'[p] \in PollState /\ ~polls'[p].mine
                        /\ polls'[p].stage = polls[p].stage
                        /\ polls'[p].read = polls[p].read
                        /\ polls'[p].stamped = polls[p].stamped
    <2> SUFFICES ASSUME NEW p \in Poll
                 PROVE  /\ polls'[p] \in PollState /\ ~polls'[p].mine
                        /\ polls'[p].stage = polls[p].stage
                        /\ polls'[p].read = polls[p].read
                        /\ polls'[p].stamped = polls[p].stamped
      OBVIOUS
    <2>1. polls[p] \in PollState /\ polls'[p] = [polls[p] EXCEPT !.mine = FALSE]
      BY <1>1
    <2> QED
      BY <2>1 DEF PollState
  <1>4. polls' \in [Poll -> PollState]
    BY <1>1, <1>3
  <1>5. ChecklistTypeOK'
    BY <1>1, <1>2, <1>3, <1>4 DEF ChecklistInv, ChecklistTypeOK
  <1>6. ViewSound'
    BY <1>1 DEF ViewSound
  <1>7. ASSUME NEW p \in Poll PROVE PollSound(p)'
    BY <1>3 DEF ChecklistInv, PollSound
  <1> QED
    BY <1>5, <1>6, <1>7 DEF ChecklistInv

LEMMA FlipInv ==
    ASSUME ChecklistInv, NEW c \in Check, Flip(c)
    PROVE  ChecklistInv'
  <1>1. /\ spent \in [tabs : 0..MaxTabs, flips : 0..MaxFlips, faults : 0..MaxFaults]
        /\ health \in [Check -> Status] /\ UNCHANGED <<history, polls, checklist, seen>>
    BY DEF ChecklistInv, ChecklistTypeOK, Flip
  <1>2. spent' \in [tabs : 0..MaxTabs, flips : 0..MaxFlips, faults : 0..MaxFaults]
    BY <1>1, ChecklistAssumption DEF Flip
  <1>3. health' \in [Check -> Status]
    BY <1>1 DEF Flip, Status
  <1>4. ChecklistTypeOK'
    BY <1>1, <1>2, <1>3 DEF ChecklistInv, ChecklistTypeOK
  <1> QED
    BY <1>1, <1>4 DEF ChecklistInv, ViewSound, PollSound

(* What the user does with the view, and the timer that removes the marks. *)
LEMMA PageStepsInv ==
    ASSUME ChecklistInv,
           ToggleAuto \/ ToggleFailuresOnly \/ CloseLogs \/ LogsArrive \/ ClearMarks
             \/ \E c \in Check : OpenLogs(c)
    PROVE  ChecklistInv'
  <1>1. checklist \in View /\ checklist # None
    BY DEF ToggleAuto, ToggleFailuresOnly, CloseLogs, LogsArrive, ClearMarks, OpenLogs,
           Shown, ChecklistInv, ChecklistTypeOK
  <1>2. /\ UNCHANGED <<health, history, polls, seen, spent>>
        /\ \/ \E b \in BOOLEAN : checklist' = [checklist EXCEPT !.auto = b]
           \/ \E b \in BOOLEAN : checklist' = [checklist EXCEPT !.failuresOnly = b]
           \/ checklist' = [checklist EXCEPT !.logViewer = None]
           \/ checklist' = [checklist EXCEPT !.logs = "shown"]
           \/ \E c \in Logged : checklist' = [checklist EXCEPT !.logViewer = c,
                                                               !.logs = "loading"]
           \/ \E n \in Nat : checklist' = [checklist EXCEPT !.timers = n,
                                                            !.justChanged = {}]
    <2>1. CASE ToggleAuto \/ ToggleFailuresOnly \/ CloseLogs \/ LogsArrive
      BY <1>1, <2>1 DEF ToggleAuto, ToggleFailuresOnly, CloseLogs, LogsArrive, ChangeView
    <2>2. CASE ClearMarks
      <3>1. checklist.timers - 1 \in Nat
        BY <1>1, <2>2 DEF ClearMarks, View
      <3> QED
        BY <2>2, <3>1 DEF ClearMarks, ChangeView
    <2>3. ASSUME NEW c \in Check, OpenLogs(c)
          PROVE  /\ UNCHANGED <<health, history, polls, seen, spent>>
                 /\ \E d \in Logged : checklist' = [checklist EXCEPT !.logViewer = d,
                                                                     !.logs = "loading"]
      BY <2>3 DEF OpenLogs, ChangeView
    <2> QED
      BY <2>1, <2>2, <2>3
  <1>3. /\ checklist' \in View /\ checklist'.data = checklist.data
        /\ checklist'.prev = checklist.prev
        /\ checklist'.justChanged \subseteq checklist.justChanged
    BY <1>1, <1>2 DEF View
  <1> QED
    BY <1>1, <1>2, <1>3, PageStep

LEMMA ChecklistNextInv ==
    ASSUME ChecklistInv, [ChecklistNext]_checklistVars
    PROVE  ChecklistInv'
  <1>1. CASE UNCHANGED checklistVars
    BY <1>1 DEF checklistVars, ChecklistInv, ChecklistTypeOK, ViewSound, PollSound
  <1>2. CASE ChecklistUser
    <2>1. CASE RefreshNow
      BY <2>1, LoadInv DEF RefreshNow, Shown
    <2> QED
      BY <1>2, <2>1, PageStepsInv DEF ChecklistUser
  <1>3. ASSUME NEW p \in Poll, Tick(p) \/ PollStep(p) \/ Expire(p) \/ PollFails(p)
        PROVE  ChecklistInv'
    BY <1>3, LoadInv, RunCheckInv, StampHistoryInv, ArriveInv, ExpireInv, PollFailsInv
       DEF Tick, PollStep
  <1> QED
    BY <1>1, <1>2, <1>3, MountChecklistInv, UnmountChecklistInv, FlipInv, PageStepsInv
       DEF ChecklistNext

(* No history, kept or shown, outgrows its bound; a poll waits for nobody  *)
(* but the view that is mounted.                                           *)
THEOREM ChecklistTypes == ChecklistSpec => []ChecklistTypeOK
  <1>1. ChecklistInv => ChecklistTypeOK
    BY DEF ChecklistInv
  <1> QED
    BY <1>1, ChecklistInvInit, ChecklistNextInv, PTL DEF ChecklistSpec

(* A row is marked as flipped only if polls of this view found it in two   *)
(* states, for any number of polls that overlap and overtake each other.   *)
THEOREM MarksAreTrue == ChecklistSpec => []NoFalseAlarm
  <1>1. ChecklistInv => NoFalseAlarm
    BY DEF ChecklistInv, ViewSound, NoFalseAlarm
  <1> QED
    BY <1>1, ChecklistInvInit, ChecklistNextInv, PTL DEF ChecklistSpec

(* The sparkline of a row ends with the status that is shown, whatever     *)
(* pages stamp the history meanwhile.                                      *)
THEOREM SparklinesAgree == ChecklistSpec => []SparklineAgrees
  <1>1. ChecklistInv => SparklineAgrees
    BY DEF ChecklistInv, ViewSound, SparklineAgrees, Agrees, Bit
  <1> QED
    BY <1>1, ChecklistInvInit, ChecklistNextInv, PTL DEF ChecklistSpec
=============================================================================
