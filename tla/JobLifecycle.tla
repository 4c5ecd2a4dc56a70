---------------------------- MODULE JobLifecycle ----------------------------
(***************************************************************************)
(* What the transcoding queue promises to the callers of add / add_s3,     *)
(* without saying how: a job is identified by its key (a local path, or    *)
(* the storage_key of an S3 entry), a key waits at most once, and at most  *)
(* one key is being worked on.  TranscodeQueue implements this             *)
(* specification (see the instance Lifecycle there).                       *)
(***************************************************************************)
CONSTANT Key

VARIABLE status     \* status[k]: where the job for key k is

Statuses == {"absent", "queued", "running"}

LifecycleTypeOK == status \in [Key -> Statuses]

Init == status = [k \in Key |-> "absent"]

(* A caller hands in a job for a key that is neither waiting nor running.  *)
Submit(k) ==
    /\ status[k] = "absent"
    /\ status' = [status EXCEPT ![k] = "queued"]

(* The single worker picks up a waiting job; nothing else is running.      *)
Take(k) ==
    /\ status[k] = "queued"
    /\ \A j \in Key : status[j] # "running"
    /\ status' = [status EXCEPT ![k] = "running"]

(* The running job ends, successfully or not.                              *)
Settle(k) ==
    /\ status[k] = "running"
    /\ status' = [status EXCEPT ![k] = "absent"]

(* The process dies and restarts: the queue lives in memory only.          *)
Forget == status' = [k \in Key |-> "absent"]

Next ==
    \/ \E k \in Key : Submit(k) \/ Take(k) \/ Settle(k)
    \/ Forget

Spec == Init /\ [][Next]_status
=============================================================================
