----------------------------- MODULE FileWatcher -----------------------------
(***************************************************************************)
(* The transcoding service with STORAGE_TYPE=local: start-up scan, file-   *)
(* system observer, POST /transcode and the queue worker, which runs       *)
(* transcode_to_hls on the media directory itself (file_watcher.py,        *)
(* main.py and the local branches of transcoder.py), on top of             *)
(* TranscodeQueue.                                                         *)
(*                                                                         *)
(* Videos appear by being copied in place, which takes a while and is      *)
(* announced when it begins, or by being renamed, which is atomic.  What   *)
(* the scan and the observer each see depends on when that happens: the    *)
(* scan visits the directories one by one, and only then is the observer   *)
(* started.                                                                *)
(***************************************************************************)
EXTENDS TranscodeQueue

CONSTANTS
    Path,         \* paths of videos; a queue entry is a path
    OutDir,       \* directories under <media dir>/hls
    OutDirOf,     \* the path with "/" and "." replaced by "_"
    Quality,
    Ladder,       \* the list qualities
    MaxRestarts   \* bound on restarts of the process

ASSUME WatcherAssumption ==
    /\ Entry = Path /\ Key = Path /\ \A p \in Path : KeyOf[p] = p
    /\ OutDirOf \in [Path -> OutDir]
    /\ Ladder \in Seq(Quality)
    /\ \A i, j \in 1..Len(Ladder) : Ladder[i] = Ladder[j] => i = j
    /\ MaxRestarts \in Nat

VARIABLES
    file,        \* file[p]: "absent", "partial" (being copied) or "whole"
    unscanned,   \* paths whose directory os.walk has not visited yet
    watching,    \* observer and worker are started
    events,      \* creation and move events the observer has not handled
    at,          \* where the worker is in its job
    todo,        \* qualities it still has to encode
    encoded,     \* its transcoded_qualities
    variant,     \* variant[d][q]: the path encoded into d/q, or None
    master,      \* master[d]: what is in d/master.m3u8, or None
    offered,     \* history: paths this process has passed to queue.add
    gap,         \* history: appeared between their visit and observer.start
    handled,     \* history: paths marked completed or failed
    restarts

disk == <<file, variant, master>>
worker == <<at, todo, encoded>>
startup == <<unscanned, watching, gap>>
watcherVars == <<queueVars, disk, worker, startup, events, offered, handled,
                 restarts>>

(* A master playlist: whose video it is, what it lists, and whether its    *)
(* writing came to an end.                                                 *)
Playlist == [of : Path, lists : SUBSET Quality, whole : BOOLEAN]
ASSUME PlaylistAssumption == None \notin Playlist

(* Types, and the worker has a job exactly when it is inside one.          *)
WatcherTypeOK ==
    /\ QueueTypeOK
    /\ file \in [Path -> {"absent", "partial", "whole"}]
    /\ unscanned \subseteq Path /\ watching \in BOOLEAN
    /\ events \subseteq Path /\ offered \subseteq Path
    /\ gap \subseteq Path /\ handled \subseteq Path
    /\ at \in {"idle", "check", "encode", "write"} /\ (at = "idle" <=> item = None)
    /\ todo \in Seq(Quality) /\ encoded \subseteq Quality
    /\ variant \in [OutDir -> [Quality -> Path \cup {None}]]
    /\ master \in [OutDir -> Playlist \cup {None}]
    /\ restarts \in 0..MaxRestarts

WatcherInit ==
    /\ QueueInit
    /\ file \in [Path -> {"absent", "whole"}]
    /\ unscanned = Path /\ watching = FALSE /\ gap = {}
    /\ events = {} /\ offered = {} /\ handled = {}
    /\ at = "idle" /\ todo = <<>> /\ encoded = {}
    /\ variant = [d \in OutDir |-> [q \in Quality |-> None]]
    /\ master = [d \in OutDir |-> None]
    /\ restarts = 0

-----------------------------------------------------------------------------
(* The outside world: a video appears, by a copy that begins or a rename.  *)
Appear(p, how) ==
    /\ file[p] = "absent"
    /\ file' = [file EXCEPT ![p] = how]
    /\ events' = IF watching THEN events \cup {p} ELSE events
    /\ gap' = IF ~watching /\ p \notin unscanned THEN gap \cup {p} ELSE gap
    /\ UNCHANGED <<queueVars, variant, master, worker, unscanned, watching,
                   offered, handled, restarts>>

(* A copy ends; VideoHandler does not listen to modified or closed.        *)
CopyEnds(p) ==
    /\ file[p] = "partial"
    /\ file' = [file EXCEPT ![p] = "whole"]
    /\ UNCHANGED <<queueVars, variant, master, worker, startup, events,
                   offered, handled, restarts>>

(* queue.add, by the scan, the observer or POST /transcode.                *)
Offer(p) ==
    /\ Add(p) \/ AddIgnored(p)
    /\ offered' = offered \cup {p}

(* start, 1: os.walk reaches p (each path in a directory of its own).      *)
Visit(p) ==
    /\ p \in unscanned
    /\ unscanned' = unscanned \ {p}
    /\ IF file[p] # "absent" THEN Offer(p) ELSE UNCHANGED <<queueVars, offered>>
    /\ UNCHANGED <<disk, worker, watching, gap, events, handled, restarts>>

(* Faulty: the observer is started while the scan is still going on, and   *)
(* the rest of the scan is taken for done.                                 *)
StartWatchingEarly ==
    /\ ~watching
    /\ watching' = TRUE
    /\ unscanned' = {}
    /\ UNCHANGED <<queueVars, disk, worker, gap, events, offered, handled,
                   restarts>>

(* start, 2 and 3: observer.start, then the worker thread.                 *)
StartWatching ==
    /\ ~watching
    /\ unscanned = {}
    /\ watching' = TRUE
    /\ UNCHANGED <<queueVars, disk, worker, unscanned, gap, events, offered,
                   handled, restarts>>

(* on_created, on_moved: the observer thread handles one event.            *)
OnEvent(p) ==
    /\ p \in events
    /\ events' = events \ {p}
    /\ Offer(p)
    /\ UNCHANGED <<disk, worker, startup, handled, restarts>>

(* POST /transcode; requests are served once start has returned.           *)
Trigger(p) ==
    /\ watching
    /\ file[p] # "absent"
    /\ Offer(p)
    /\ UNCHANGED <<disk, worker, startup, events, handled, restarts>>

-----------------------------------------------------------------------------
(* The worker loop takes a path.                                           *)
TakeJob ==
    /\ watching
    /\ GetNext
    /\ at' = "check"
    /\ UNCHANGED <<disk, todo, encoded, startup, events, offered, handled,
                   restarts>>

Target == OutDirOf[item]

(* The job is over: back to the loop.                                      *)
JobOver ==
    /\ handled' = handled \cup {item}
    /\ at' = "idle" /\ todo' = <<>> /\ encoded' = {}
    /\ UNCHANGED <<file, startup, events, offered, restarts>>

(* "HLS already exists": the job counts as completed, whatever is in that  *)
(* master.m3u8.                                                            *)
SkipJob ==
    /\ at = "check"
    /\ master[Target] # None
    /\ MarkCompleted
    /\ JobOver
    /\ UNCHANGED <<variant, master>>

(* Faulty: the master playlist of the whole ladder is written first.       *)
StartWithMaster ==
    /\ at = "check"
    /\ master[Target] = None
    /\ at' = "encode" /\ todo' = Ladder
    /\ master' = [master EXCEPT ![Target] =
          [of |-> item, lists |-> {Ladder[i] : i \in DOMAIN Ladder}, whole |-> TRUE]]
    /\ UNCHANGED <<queueVars, file, variant, encoded, startup, events,
                   offered, handled, restarts>>

StartJob ==
    /\ at = "check"
    /\ master[Target] = None
    /\ at' = "encode" /\ todo' = Ladder
    /\ UNCHANGED <<queueVars, disk, encoded, startup, events, offered,
                   handled, restarts>>

(* transcode_quality writes d/<quality>/ in place, at the first attempt or *)
(* on the CPU after the GPU failed.                                        *)
EncodeNext ==
    /\ at = "encode" /\ todo # <<>>
    /\ variant' = [variant EXCEPT ![Target][Head(todo)] = item]
    /\ encoded' = encoded \cup {Head(todo)}
    /\ todo' = Tail(todo)
    /\ UNCHANGED <<queueVars, file, master, at, startup, events, offered,
                   handled, restarts>>

(* ffmpeg fails for this quality, on the CPU too, as it does on most half- *)
(* written files; what an earlier process left there may be spoilt.        *)
SkipNext ==
    /\ at = "encode" /\ todo # <<>>
    /\ \E left \in {variant[Target][Head(todo)], None} :
          variant' = [variant EXCEPT ![Target][Head(todo)] = left]
    /\ todo' = Tail(todo)
    /\ UNCHANGED <<queueVars, file, master, at, encoded, startup, events,
                   offered, handled, restarts>>

(* create_master_playlist, with at least one quality: open(..., "w") has   *)
(* made an empty master.m3u8.                                              *)
OpenMaster ==
    /\ at = "encode" /\ todo = <<>> /\ encoded # {}
    /\ at' = "write"
    /\ master' = [master EXCEPT ![Target] =
          [of |-> item, lists |-> {}, whole |-> FALSE]]
    /\ UNCHANGED <<queueVars, file, variant, todo, encoded, startup, events,
                   offered, handled, restarts>>

(* Everything is written and the file closed: the job is done.             *)
CompleteJob ==
    /\ at = "write"
    /\ master' = [master EXCEPT ![Target] =
          [of |-> item, lists |-> encoded, whole |-> TRUE]]
    /\ MarkCompleted
    /\ JobOver
    /\ UNCHANGED variant

(* What an interrupted writing of the playlist leaves: a file that lists   *)
(* some of the qualities, or nothing.                                      *)
TornMaster ==
    IF at = "write"
    THEN \E part \in SUBSET encoded :
            master' = [master EXCEPT ![Target] =
                [of |-> item, lists |-> part, whole |-> FALSE]]
    ELSE UNCHANGED master

(* Faulty: the exception of a failed job is swallowed.                     *)
FailAsCompleted ==
    /\ at # "idle"
    /\ TornMaster
    /\ MarkCompleted
    /\ JobOver
    /\ UNCHANGED variant

(* No quality was encoded, or something raised on the way (no ffmpeg, a    *)
(* full disk, in the middle of the playlist too): the path is marked       *)
(* failed and not retried.                                                 *)
FailJob ==
    /\ at # "idle"
    /\ TornMaster
    /\ MarkFailed
    /\ JobOver
    /\ UNCHANGED variant

-----------------------------------------------------------------------------
(* Faulty: the new process starts its observer without another scan.       *)
ProcessRestartsBlind ==
    /\ restarts < MaxRestarts
    /\ restarts' = restarts + 1
    /\ Restart
    /\ unscanned' = {} /\ watching' = FALSE /\ gap' = {}
    /\ events' = {} /\ offered' = {}
    /\ at' = "idle" /\ todo' = <<>> /\ encoded' = {}
    /\ TornMaster
    /\ UNCHANGED <<file, variant, handled>>

(* The process dies, whatever it is doing, and starts again.               *)
ProcessRestarts ==
    /\ restarts < MaxRestarts
    /\ restarts' = restarts + 1
    /\ Restart
    /\ unscanned' = Path /\ watching' = FALSE /\ gap' = {}
    /\ events' = {} /\ offered' = {}
    /\ at' = "idle" /\ todo' = <<>> /\ encoded' = {}
    /\ TornMaster
    /\ UNCHANGED <<file, variant, handled>>

StartUp == (\E p \in Path : Visit(p)) \/ StartWatching
Observe == \E p \in Path : OnEvent(p)
DoJob ==
    \/ TakeJob \/ SkipJob \/ StartJob \/ EncodeNext \/ SkipNext
    \/ OpenMaster \/ CompleteJob \/ FailJob

WatcherNext ==
    \/ \E p \in Path :
          \/ Appear(p, "partial") \/ Appear(p, "whole") \/ CopyEnds(p)
          \/ Trigger(p)
    \/ StartUp
    \/ Observe
    \/ DoJob
    \/ ProcessRestarts

(* The three threads of the service keep running; the world need not act.  *)
WatcherSpec ==
    /\ WatcherInit /\ [][WatcherNext]_watcherVars
    /\ WF_watcherVars(StartUp)
    /\ WF_watcherVars(Observe)
    /\ WF_watcherVars(DoJob)

-----------------------------------------------------------------------------
(* Scan and observer together see every video, except those that appear    *)
(* after the scan has passed and before the observer is started (start in  *)
(* file_watcher.py): those wait for the next restart or for a POST.        *)
MissedOnlyInGap ==
    watching => \A p \in Path :
        file[p] # "absent" => p \in offered \cup events \cup gap

(* The master playlist is written last, by the only worker, and never      *)
(* replaced: whatever crashes and restarts, every quality it lists is on   *)
(* disk, encoded from the same video.                                      *)
PublishedIsComplete ==
    \A d \in OutDir : master[d] # None =>
        \A q \in master[d].lists : variant[d][q] = master[d].of

(* A video is eventually transcoded or reported as failed, restarts        *)
(* notwithstanding, unless it fell into the gap.                           *)
FoundIsHandled ==
    \A p \in Path : file[p] # "absent" ~> p \in handled \cup gap

(* "Create unique ID for output directory" (main.py:127) and "rely on the  *)
(* worker to check existence" (file_watcher.py:103): a video reported as   *)
(* completed, by the job that encoded it or by a later one that found the  *)
(* playlist, has a master playlist in its directory, made from a video     *)
(* with its unique ID.  It lists something to play, unless a crash or a    *)
(* full disk cut its writing short: the worker's check takes that one too. *)
CompletedHasStream ==
    \A i \in DOMAIN completed :
        LET p == completed[i]
            m == master[OutDirOf[p]]
        IN  /\ m # None /\ OutDirOf[m.of] = OutDirOf[p]
            /\ m.whole => m.lists # {}
=============================================================================
