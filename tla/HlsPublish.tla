----------------------------- MODULE HlsPublish -----------------------------
(***************************************************************************)
(* transcode_to_hls in S3 mode (transcoding-service/transcoder.py): the    *)
(* runs that download a raw video, encode it in several qualities and      *)
(* upload the result under hls/<file_id>/, next to each other and next to  *)
(* the uploads that replace raw videos.                                    *)
(*                                                                         *)
(* A run is one call of transcode_to_hls.  POST /transcode starts one as a *)
(* background task per request, with nothing between the requests; the     *)
(* worker thread of the queue starts one at a time (the runs in            *)
(* Sequential).  Pods and processes share nothing but the bucket.  A run   *)
(* is used once, so its name also tells what an object in the bucket is    *)
(* made of: object[p][f] is the run that wrote the object last.            *)
(***************************************************************************)
EXTENDS Naturals, Sequences

CONSTANTS
    Run,          \* calls of transcode_to_hls
    Sequential,   \* those made by the queue worker, one after the other
    Source,       \* keys of raw videos
    Prefix,       \* hls/<file_id> prefixes
    PrefixOf,     \* file_id = path.replace("/", "_"): not injective
    Quality,      \* the quality variants
    Ladder,       \* the list qualities, in the order they are encoded
    Master,       \* the object master.m3u8
    Gpu,          \* does ffmpeg list h264_nvenc on this host
    MaxUploads,   \* bound on the versions of a raw video
    None

Part == {"playlist", "segments"}
Variant(q) == {q} \X Part                \* what ffmpeg writes for q
File == {Master} \cup (Quality \X Part)

ASSUME HlsAssumption ==
    /\ Sequential \subseteq Run
    /\ PrefixOf \in [Source -> Prefix]
    /\ Ladder \in Seq(Quality)
    /\ Master \notin Quality \X Part
    /\ Gpu \in BOOLEAN
    /\ MaxUploads \in Nat
    /\ None \notin Run \cup Source

VARIABLES
    raw,        \* raw[s]: version of the raw video, 0 when there is none
    object,     \* object[p][f]: the run that wrote this HLS object, or None
    pc,         \* where each run is
    src,        \* its input_path
    version,    \* the version of the raw video it downloaded, 0 before
    todo,       \* qualities it still has to encode
    encoded,    \* its transcoded_qualities
    local,      \* files in its output_dir that are not uploaded yet
    temp,       \* runs whose temporary input file is on disk
    refused,    \* history: runs whose unlink of that file raised
    overlapped  \* history: runs that encoded or uploaded while another did so
                \* for the same prefix

history == <<refused, overlapped>>
hlsVars == <<raw, object, pc, src, version, todo, encoded, local, temp, history>>

Active == {"download", "check", "encode", "retry", "upload"}
Ended == {"ok", "skipped", "failed"}
Writing == {"encode", "retry", "upload"}
PCs == {"unused", "killed"} \cup Active \cup Ended

HlsTypeOK ==
    /\ raw \in [Source -> 0..MaxUploads]
    /\ object \in [Prefix -> [File -> Run \cup {None}]]
    /\ pc \in [Run -> PCs]
    /\ src \in [Run -> Source \cup {None}]
    /\ \A r \in Run : pc[r] # "unused" => src[r] \in Source
    /\ version \in [Run -> 0..MaxUploads]
    /\ \A r \in Run : pc[r] \in Active \ {"download"} => version[r] # 0
    /\ todo \in [Run -> Seq(Quality)]
    /\ encoded \in [Run -> SUBSET Quality]
    /\ local \in [Run -> SUBSET File]
    /\ temp \subseteq Run /\ refused \subseteq Run /\ overlapped \subseteq Run

HlsInit ==
    /\ raw = [s \in Source |-> 0]
    /\ object = [p \in Prefix |-> [f \in File |-> None]]
    /\ pc = [r \in Run |-> "unused"]
    /\ src = [r \in Run |-> None]
    /\ version = [r \in Run |-> 0]
    /\ todo = [r \in Run |-> <<>>]
    /\ encoded = [r \in Run |-> {}]
    /\ local = [r \in Run |-> {}]
    /\ temp = {} /\ refused = {} /\ overlapped = {}

Out(r) == PrefixOf[src[r]]               \* the run's s3_key_prefix
Becomes(r, where) == pc' = [pc EXCEPT ![r] = where]

-----------------------------------------------------------------------------
(* Upload of media-library-service puts a raw video, or a new version.     *)
PutRaw(s) ==
    /\ raw[s] < MaxUploads
    /\ raw' = [raw EXCEPT ![s] = @ + 1]
    /\ UNCHANGED <<object, pc, src, version, todo, encoded, local, temp, history>>

(* POST /transcode, or the worker after get_next: mkdtemp, then the        *)
(* temporary input file is created.                                        *)
Begin(r, s) ==
    /\ pc[r] = "unused"
    /\ r \in Sequential => \A x \in Sequential : pc[x] \notin Active
    /\ Becomes(r, "download")
    /\ src' = [src EXCEPT ![r] = s]
    /\ temp' = temp \cup {r}
    /\ UNCHANGED <<raw, object, version, todo, encoded, local, history>>

(* Faulty: a download that found nothing is taken for a file.              *)
DownloadNothing(r) ==
    /\ pc[r] = "download"
    /\ version' = [version EXCEPT ![r] = raw[src[r]]]
    /\ Becomes(r, "check")
    /\ UNCHANGED <<raw, object, src, todo, encoded, local, temp, history>>

Download(r) ==
    /\ pc[r] = "download"
    /\ raw[src[r]] # 0
    /\ version' = [version EXCEPT ![r] = raw[src[r]]]
    /\ Becomes(r, "check")
    /\ UNCHANGED <<raw, object, src, todo, encoded, local, temp, history>>

(* get_file raises before cleanup_input is set: the file stays.            *)
DownloadFails(r) ==
    /\ pc[r] = "download"
    /\ Becomes(r, "failed")
    /\ UNCHANGED <<raw, object, src, version, todo, encoded, local, temp, history>>

(* Faulty: the error path re-raises before the clean-up.                   *)
LeaveWithoutCleanup(r, how) ==
    /\ Becomes(r, how)
    /\ temp' = IF how = "failed" THEN temp ELSE temp \ {r}
    /\ UNCHANGED refused

(* The way out of transcode_to_hls once cleanup_input is set: finally.  An *)
(* unlink that raises is only logged, and the file stays.                  *)
Leave(r, how) ==
    /\ Becomes(r, how)
    /\ \/ temp' = temp \ {r} /\ UNCHANGED refused
       \/ refused' = refused \cup {r} /\ UNCHANGED temp

(* "HLS already exists": master.m3u8 is in the bucket.                     *)
SkipExisting(r) ==
    /\ pc[r] = "check"
    /\ object[Out(r)][Master] # None
    /\ Leave(r, "skipped")
    /\ UNCHANGED <<raw, object, src, version, todo, encoded, local, overlapped>>

(* The runs that are made to overlap when r goes on to encode.             *)
Meets(r) ==
    LET others == {x \in Run : pc[x] \in Writing /\ Out(x) = Out(r)} IN
    IF others = {} THEN {} ELSE others \cup {r}

(* Faulty: the existence check is gone.                                    *)
StartEncodingAnyway(r) ==
    /\ pc[r] = "check"
    /\ todo' = [todo EXCEPT ![r] = Ladder]
    /\ Becomes(r, "encode")
    /\ overlapped' = overlapped \cup Meets(r)
    /\ UNCHANGED <<raw, object, src, version, encoded, local, temp, refused>>

StartEncoding(r) ==
    /\ pc[r] = "check"
    /\ object[Out(r)][Master] = None
    /\ todo' = [todo EXCEPT ![r] = Ladder]
    /\ Becomes(r, "encode")
    /\ overlapped' = overlapped \cup Meets(r)
    /\ UNCHANGED <<raw, object, src, version, encoded, local, temp, refused>>

(* The first attempt at the next quality, or its retry on the CPU, works.  *)
EncodeOk(r) ==
    /\ pc[r] \in {"encode", "retry"}
    /\ todo[r] # <<>>
    /\ encoded' = [encoded EXCEPT ![r] = @ \cup {Head(todo[r])}]
    /\ local' = [local EXCEPT ![r] = @ \cup Variant(Head(todo[r]))]
    /\ todo' = [todo EXCEPT ![r] = Tail(@)]
    /\ Becomes(r, "encode")
    /\ UNCHANGED <<raw, object, src, version, temp, history>>

(* h264_nvenc failed: the same quality is tried once more on the CPU.      *)
GpuFails(r) ==
    /\ Gpu
    /\ pc[r] = "encode"
    /\ todo[r] # <<>>
    /\ Becomes(r, "retry")
    /\ UNCHANGED <<raw, object, src, version, todo, encoded, local, temp, history>>

(* Faulty: a failed quality is listed all the same.                        *)
ListThoughFailed(r) ==
    /\ pc[r] \in {"encode", "retry"}
    /\ todo[r] # <<>>
    /\ encoded' = [encoded EXCEPT ![r] = @ \cup {Head(todo[r])}]
    /\ todo' = [todo EXCEPT ![r] = Tail(@)]
    /\ Becomes(r, "encode")
    /\ UNCHANGED <<raw, object, src, version, local, temp, history>>

(* The quality is skipped; ffmpeg may leave unfinished files behind, which *)
(* upload_hls_to_s3 will pick up.                                          *)
SkipQuality(r) ==
    /\ pc[r] \in {"encode", "retry"}
    /\ todo[r] # <<>>
    /\ \E leftover \in SUBSET Variant(Head(todo[r])) :
          local' = [local EXCEPT ![r] = @ \cup leftover]
    /\ todo' = [todo EXCEPT ![r] = Tail(@)]
    /\ Becomes(r, "encode")
    /\ UNCHANGED <<raw, object, src, version, encoded, temp, history>>

(* create_master_playlist, when at least one quality was encoded.          *)
WriteMaster(r) ==
    /\ pc[r] = "encode"
    /\ todo[r] = <<>>
    /\ encoded[r] # {}
    /\ local' = [local EXCEPT ![r] = @ \cup {Master}]
    /\ Becomes(r, "upload")
    /\ UNCHANGED <<raw, object, src, version, todo, encoded, temp, history>>

(* "All quality transcode attempts failed", or any other exception between *)
(* the download and the upload (the existence check, ffmpeg missing, a     *)
(* full disk); the retry on the CPU catches all of its own.                *)
Abort(r) ==
    /\ pc[r] \in {"check", "encode"}
    /\ Leave(r, "failed")
    /\ UNCHANGED <<raw, object, src, version, todo, encoded, local, overlapped>>

(* rglob("*") yields the files of output_dir before those of its           *)
(* directories: master.m3u8 goes first, the variants in any order.         *)
NextFiles(r) == IF Master \in local[r] THEN {Master} ELSE local[r]

Stored(r, f) == object' = [object EXCEPT ![Out(r)][f] = r]

(* Faulty: an upload error is logged and the file forgotten.               *)
PutFailsQuietly(r, f) ==
    /\ pc[r] = "upload"
    /\ f \in NextFiles(r)
    /\ Stored(r, f) \/ UNCHANGED object
    /\ local' = [local EXCEPT ![r] = @ \ {f}]
    /\ UNCHANGED <<raw, pc, src, version, todo, encoded, temp, history>>

PutObject(r, f) ==
    /\ pc[r] = "upload"
    /\ f \in NextFiles(r)
    /\ Stored(r, f)
    /\ local' = [local EXCEPT ![r] = @ \ {f}]
    /\ UNCHANGED <<raw, pc, src, version, todo, encoded, temp, history>>

(* put_object raises; the object may or may not have reached the bucket.   *)
PutFails(r, f) ==
    /\ pc[r] = "upload"
    /\ f \in NextFiles(r)
    /\ Stored(r, f) \/ UNCHANGED object
    /\ Leave(r, "failed")
    /\ UNCHANGED <<raw, src, version, todo, encoded, local, overlapped>>

(* Every file is uploaded; the call returns.                               *)
Finish(r) ==
    /\ pc[r] = "upload"
    /\ local[r] = {}
    /\ Leave(r, "ok")
    /\ UNCHANGED <<raw, object, src, version, todo, encoded, local, overlapped>>

(* The pod dies: no finally, and the files it leaves go with it.           *)
Kill(r) ==
    /\ pc[r] \in Active
    /\ Becomes(r, "killed")
    /\ temp' = temp \ {r}
    /\ UNCHANGED <<raw, object, src, version, todo, encoded, local, history>>

Step(r) ==
    \/ Download(r) \/ DownloadFails(r)
    \/ SkipExisting(r) \/ StartEncoding(r)
    \/ EncodeOk(r) \/ GpuFails(r) \/ SkipQuality(r)
    \/ WriteMaster(r) \/ Abort(r)
    \/ \E f \in File : PutObject(r, f) \/ PutFails(r, f)
    \/ Finish(r)

HlsNext ==
    \/ \E s \in Source : PutRaw(s)
    \/ \E r \in Run, s \in Source : Begin(r, s)
    \/ \E r \in Run : Step(r) \/ Kill(r)

HlsSpec == HlsInit /\ [][HlsNext]_hlsVars

-----------------------------------------------------------------------------
(* What a player needs: the master playlist, and behind every quality it   *)
(* lists the files of a run that did encode that quality.                  *)
Listed(p) == encoded[object[p][Master]] \X Part
Playable(p) ==
    /\ object[p][Master] # None
    /\ \A f \in Listed(p) : object[p][f] # None /\ f[1] \in encoded[object[p][f]]

(* "segments are immutable once written" (eks-migration-runbook.md:75, the *)
(* reason CloudFront may cache them): no step replaces an HLS object.      *)
SegmentsImmutable ==
    [][\A p \in Prefix, f \in File :
          object[p][f] # None => object'[p][f] = object[p][f]]_hlsVars

(* A stream is never stitched together from two runs, hence never from two *)
(* versions of the raw video or two sources with one file_id.              *)
OneOrigin ==
    \A p \in Prefix, f \in File : object[p][f] \in {None, object[p][Master]}

(* A run that returned after uploading left a playable stream, and it      *)
(* stays playable.                                                         *)
OkMeansPlayable == \A r \in Run : pc[r] = "ok" => Playable(Out(r))

(* Among any number of concurrent runs: when the run whose master playlist *)
(* is in the bucket has returned, everything it lists is in the bucket.    *)
ListedArePresent ==
    \A p \in Prefix :
       LET writer == object[p][Master] IN
       writer # None /\ pc[writer] = "ok" =>
          \A f \in Listed(p) : object[p][f] # None

(* Tasks that nothing serialises ("HLS already exists" is looked up before *)
(* hours of encoding and never again): a call that returned after          *)
(* uploading, and did not encode or upload while another did so for its    *)
(* prefix, left a playable stream, whatever the calls before and after it  *)
(* and those that looked up the playlist meanwhile do.                     *)
AloneMeansPlayable ==
    \A r \in Run : pc[r] = "ok" /\ r \notin overlapped => Playable(Out(r))

(* The temporary copies of raw videos that stay on the disk of a pod are   *)
(* exactly those of the calls whose download failed, which is before       *)
(* cleanup_input is set, and of those whose unlink raised: every other way *)
(* out of a call goes through the finally clause and removes its copy.     *)
TempReleased ==
    \A r \in Run : pc[r] \in Ended =>
        (r \in temp <=> version[r] = 0 \/ r \in refused)

-----------------------------------------------------------------------------
(* Inductive strengthening for ListedArePresent: what a run encoded is     *)
(* still in its output directory or already in the bucket, under its own   *)
(* prefix.                                                                 *)
UploadInv ==
    /\ \A r \in Run : pc[r] = "unused" => encoded[r] = {}
    /\ \A r \in Run : pc[r] # "unused" =>
          \A f \in encoded[r] \X Part : f \in local[r] \/ object[Out(r)][f] # None
    /\ \A r \in Run : pc[r] = "ok" => local[r] = {}
    /\ \A p \in Prefix, f \in File, r \in Run :
          object[p][f] = r => pc[r] # "unused" /\ Out(r) = p

(* What the queue worker adds, when it makes all the runs: one run at a    *)
(* time, which finds its prefix empty before it encodes, and uploads the   *)
(* master playlist before anything else.                                   *)
SoleRunInv ==
    /\ \A r, x \in Run : pc[r] \in Active /\ pc[x] \in Active => r = x
    /\ \A r \in Run : pc[r] \in {"encode", "retry"} =>
          \A f \in File : object[Out(r)][f] = None
    /\ \A r \in Run : pc[r] = "upload" =>
          /\ \A f \in local[r] : object[Out(r)][f] = None
          /\ object[Out(r)][Master] = (IF Master \in local[r] THEN None ELSE r)
    /\ \A r \in Run : pc[r] = "ok" => object[Out(r)][Master] = r
    /\ OneOrigin

(* Inductive strengthening for AloneMeansPlayable: nothing is in a prefix  *)
(* before its master playlist, runs that write to one prefix at a time are *)
(* in overlapped, and any other run finds its prefix empty and has it for  *)
(* itself.                                                                 *)
AloneInv ==
    /\ \A p \in Prefix, f \in File : object[p][f] # None => object[p][Master] # None
    /\ \A r \in Run : pc[r] = "upload" /\ Master \notin local[r] =>
          object[Out(r)][Master] # None
    /\ \A r, x \in Run :
          pc[r] \in Writing /\ pc[x] \in Writing /\ Out(r) = Out(x) /\ r # x =>
             r \in overlapped
    /\ \A r \in Run \ overlapped :
          /\ pc[r] \in {"encode", "retry"} => object[Out(r)][Master] = None
          /\ pc[r] \in {"upload", "ok"} =>
                \A f \in File : object[Out(r)][f] \in {None, r}
          /\ pc[r] = "ok" =>
                /\ object[Out(r)][Master] = r
                /\ \A x \in Run : pc[x] \in Writing => Out(x) # Out(r)
=============================================================================
