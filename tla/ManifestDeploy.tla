--------------------------- MODULE ManifestDeploy ---------------------------
(***************************************************************************)
(* Deploying a tag: the view asks for a tag and a confirmation and waits,  *)
(* the service reads the manifest of the service from GitHub and writes it *)
(* back with the new tag and the SHA it has read, which GitHub compares.   *)
(* Others commit to the manifests meanwhile.  The Deploy button stays, so  *)
(* that deployments of one service overlap.                                *)
(***************************************************************************)
EXTENDS DashboardData, Integers, FiniteSets

CONSTANTS
    Service,     \* services with a manifest
    Tag,
    Request,     \* deployments under way
    MaxLoads,    \* bound on the requests for the list of services
    MaxEdits     \* bound on the commits of others to a manifest

ASSUME DeployAssumption ==
    /\ MaxLoads \in Nat \ {0} /\ MaxEdits \in Nat
    /\ None \notin Tag /\ None \notin Service

VARIABLES
    manifest,    \* manifest[s]: the tag, and the edits others have made
    requests,    \* requests[r]: a deployment, or None
    deployView,  \* the mounted DeployView, or None
    commits      \* service and tag of the commits the dashboard has made

deployVars == <<manifest, requests, deployView, commits>>

Content == [tag : Tag, edits : Nat]
Msg == [type : {"none", "pending", "ok", "error"}, tag : Tag \cup {None}]
Dialog == [svc : Service, tag : Tag]
DeployView ==
    [listed : BOOLEAN, error : BOOLEAN, loading : BOOLEAN, loads : 0..MaxLoads,
     tags : [Service -> Tag \cup {None}], msg : [Service -> Msg],
     confirming : Dialog \cup {None}]
Deployment ==
    [svc : Service, tag : Tag, content : Content \cup {None},
     stage : {"sent", "got", "committed", "refused"},
     waits : {"view", "gone", "late"}]

(* null is not an object.                                                  *)
ASSUME NullAssumption ==
    None \notin Content \cup Dialog \cup DeployView \cup Deployment

(* Types; only a mounted view waits, and what was read is there to write.  *)
DeployTypeOK ==
    /\ manifest \in [Service -> Content]
    /\ requests \in [Request -> Deployment \cup {None}]
    /\ deployView \in DeployView \cup {None}
    /\ commits \subseteq Service \X Tag
    /\ \A r \in Request : requests[r] # None =>
          /\ requests[r].waits = "view" => deployView # None
          /\ requests[r].stage = "got" => requests[r].content \in Content

NoMsg == [type |-> "none", tag |-> None]
NewDeployView ==
    [listed |-> FALSE, error |-> FALSE, loading |-> TRUE, loads |-> 1,
     tags |-> [s \in Service |-> None], msg |-> [s \in Service |-> NoMsg],
     confirming |-> None]

DeployInit ==
    /\ manifest \in [Service -> [tag : Tag, edits : {0}]]
    /\ requests = [r \in Request |-> None]
    /\ deployView = None
    /\ commits = {}

-----------------------------------------------------------------------------
ChangeDeployView(new) == deployView' = new /\ UNCHANGED <<manifest, requests, commits>>

MountDeploy == deployView = None /\ ChangeDeployView(NewDeployView)

(* The tab is left: what was asked for goes on unseen.                     *)
UnmountDeploy ==
    /\ deployView # None /\ deployView' = None
    /\ requests' = [r \in Request |->
          IF requests[r] # None /\ requests[r].waits = "view"
          THEN [requests[r] EXCEPT !.waits = "gone"] ELSE requests[r]]
    /\ UNCHANGED <<manifest, commits>>

(* The list of the services.  An error replaces the view, its Refresh      *)
(* button included, until the tab is left.                                 *)
Usable == /\ deployView # None /\ deployView.listed /\ ~deployView.error
          /\ deployView.confirming = None

Refresh ==
    /\ Usable /\ deployView.loads < MaxLoads
    /\ ChangeDeployView([deployView EXCEPT !.loading = TRUE, !.error = FALSE,
                                           !.loads = @ + 1])

ServicesArrive ==
    /\ deployView # None /\ deployView.loads > 0
    /\ ChangeDeployView([deployView EXCEPT !.listed = TRUE, !.loading = FALSE,
                                           !.loads = @ - 1])

ServicesFail ==
    /\ deployView # None /\ deployView.loads > 0
    /\ ChangeDeployView([deployView EXCEPT !.error = TRUE, !.loading = FALSE,
                                           !.loads = @ - 1])

(* A tag is typed; Deploy asks for a confirmation of this tag.             *)
TypeTag(s, t) ==
    /\ Usable /\ deployView.tags[s] # t
    /\ ChangeDeployView([deployView EXCEPT !.tags[s] = t])

RequestDeploy(s) ==
    /\ Usable
    /\ ChangeDeployView(
          IF deployView.tags[s] = None
          THEN [deployView EXCEPT !.msg[s] = [type |-> "error", tag |-> None]]
          ELSE [deployView EXCEPT
                   !.confirming = [svc |-> s, tag |-> deployView.tags[s]]])

Asked == deployView # None /\ ~deployView.error /\ deployView.confirming # None

CancelDeploy ==
    Asked /\ ChangeDeployView([deployView EXCEPT !.confirming = None])

RunDeploy(r) ==
    LET d == deployView.confirming IN
    /\ Asked /\ requests[r] = None
    /\ deployView' = [deployView EXCEPT
          !.confirming = None, !.msg[d.svc] = [type |-> "pending", tag |-> d.tag]]
    /\ requests' = [requests EXCEPT
          ![r] = [svc |-> d.svc, tag |-> d.tag, content |-> None,
                  stage |-> "sent", waits |-> "view"]]
    /\ UNCHANGED <<manifest, commits>>

DeployUser ==
    \/ Refresh \/ CancelDeploy \/ \E r \in Request : RunDeploy(r)
    \/ \E s \in Service : RequestDeploy(s) \/ \E t \in Tag : TypeTag(s, t)

-----------------------------------------------------------------------------
(* Someone else commits to the manifest.                                   *)
HandEdit(s) ==
    /\ manifest[s].edits < MaxEdits
    /\ \E t \in Tag :
          manifest' = [manifest EXCEPT ![s] = [tag |-> t, edits |-> @.edits + 1]]
    /\ UNCHANGED <<requests, deployView, commits>>

(* getFile: the content and its SHA, which stands for the content.         *)
GetFile(r) ==
    /\ requests[r] # None /\ requests[r].stage = "sent"
    /\ requests' = [requests EXCEPT ![r].content = manifest[requests[r].svc],
                                    ![r].stage = "got"]
    /\ UNCHANGED <<manifest, deployView, commits>>

(* A deployment that nobody waits for any more is not heard of again.      *)
Put(r, stage) ==
    requests' = [requests EXCEPT
        ![r] = IF @.waits = "late" THEN None ELSE [@ EXCEPT !.stage = stage]]

(* Faulty: the SHA is left out, and GitHub takes what comes.               *)
UpdateBlindly(r) ==
    /\ requests[r] # None /\ requests[r].stage = "got"
    /\ manifest' = [manifest EXCEPT
          ![requests[r].svc] = [requests[r].content EXCEPT !.tag = requests[r].tag]]
    /\ commits' = commits \cup {<<requests[r].svc, requests[r].tag>>}
    /\ Put(r, "committed")
    /\ UNCHANGED deployView

(* updateFile: what was read is written with the new tag, if the manifest  *)
(* still has the SHA that was read.                                        *)
UpdateFile(r) ==
    /\ requests[r] # None /\ requests[r].stage = "got"
    /\ requests[r].content = manifest[requests[r].svc]
    /\ manifest' = [manifest EXCEPT
          ![requests[r].svc] = [requests[r].content EXCEPT !.tag = requests[r].tag]]
    /\ commits' = commits \cup {<<requests[r].svc, requests[r].tag>>}
    /\ Put(r, "committed")
    /\ UNCHANGED deployView

Conflict(r) ==
    /\ requests[r] # None /\ requests[r].stage = "got"
    /\ requests[r].content # manifest[requests[r].svc]
    /\ Put(r, "refused")
    /\ UNCHANGED <<manifest, deployView, commits>>

(* No token or registry, no image line, or GitHub answers with an error.   *)
Refuse(r) ==
    /\ requests[r] # None /\ requests[r].stage \in {"sent", "got"}
    /\ Put(r, "refused")
    /\ UNCHANGED <<manifest, deployView, commits>>

Said(r, type) ==
    IF requests[r].waits = "view"
    THEN [deployView EXCEPT !.msg[requests[r].svc] =
             [type |-> type, tag |-> requests[r].tag]]
    ELSE deployView

(* Faulty: the status code of the answer is not looked at.                 *)
AnswerOk(r) ==
    /\ requests[r] # None /\ requests[r].stage \in {"committed", "refused"}
    /\ deployView' = Said(r, "ok")
    /\ requests' = [requests EXCEPT ![r] = None]
    /\ UNCHANGED <<manifest, commits>>

Answer(r) ==
    /\ requests[r] # None /\ requests[r].stage \in {"committed", "refused"}
    /\ deployView' = Said(r, IF requests[r].stage = "committed" THEN "ok" ELSE "error")
    /\ requests' = [requests EXCEPT ![r] = None]
    /\ UNCHANGED <<manifest, commits>>

(* 15 s are over: an error is answered.  A write that is under way may yet *)
(* be made, and one that was made is not known of.                         *)
GiveUp(r) ==
    /\ requests[r] # None /\ requests[r].waits # "late"
    /\ deployView' = Said(r, "error")
    /\ requests' = [requests EXCEPT
          ![r] = IF @.stage = "got" THEN [@ EXCEPT !.waits = "late"] ELSE None]
    /\ UNCHANGED <<manifest, commits>>

(* The write was not made after all.                                       *)
LateWriteLost(r) ==
    /\ requests[r] # None /\ requests[r].waits = "late"
    /\ requests' = [requests EXCEPT ![r] = None]
    /\ UNCHANGED <<manifest, deployView, commits>>

GitHubStep(r) == GetFile(r) \/ UpdateFile(r) \/ Conflict(r)

DeployNext ==
    \/ MountDeploy \/ UnmountDeploy \/ DeployUser
    \/ ServicesArrive \/ ServicesFail
    \/ \E s \in Service : HandEdit(s)
    \/ \E r \in Request : \/ GitHubStep(r) \/ Refuse(r) \/ Answer(r)
                          \/ GiveUp(r) \/ LateWriteLost(r)

DeploySpec == DeployInit /\ [][DeployNext]_deployVars

-----------------------------------------------------------------------------
(* No deployment undoes what others have committed to the manifest, also   *)
(* one that overlaps with other deployments or is written after the answer *)
(* ("without it, a concurrent edit could be silently overwritten",         *)
(* github.go:42).                                                          *)
NoLostEdit ==
    [][\A s \in Service : manifest'[s].edits >= manifest[s].edits]_deployVars

(* A row says that its tag was committed only if it was, by whichever of   *)
(* the deployments of the service answered last (App.jsx:376-386).         *)
OkMeansCommitted ==
    deployView # None =>
        \A s \in Service :
            deployView.msg[s].type = "ok" =>
                <<s, deployView.msg[s].tag>> \in commits
=============================================================================
