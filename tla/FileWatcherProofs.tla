-------------------------- MODULE FileWatcherProofs --------------------------
(***************************************************************************)
(* Proofs about FileWatcher, for any paths, qualities and number of        *)
(* restarts.  That output directories may be shared is not excluded,       *)
(* except where a theorem says so.                                         *)
(***************************************************************************)
EXTENDS FileWatcher, TranscodeQueueProofs

(* While a job encodes, its directory has no master playlist, and while it *)
(* writes one, that lists nothing yet; what it has encoded is still there: *)
(* nobody else writes in it, and the job itself turns to each quality once.*)
EncodedIsThere ==
    /\ at \notin {"encode", "write"} => encoded = {}
    /\ at \in {"encode", "write"} =>
        /\ item # None
        /\ \A q \in encoded : variant[OutDirOf[item]][q] = item
    /\ at = "encode" => master[OutDirOf[item]] = None
    /\ at = "write" =>
        /\ encoded # {}
        /\ master[OutDirOf[item]] = [of |-> item, lists |-> {}, whole |-> FALSE]

Ahead ==
    /\ \A i, j \in 1..Len(todo) : todo[i] = todo[j] => i = j
    /\ \A i \in 1..Len(todo) : todo[i] \notin encoded

(* What has appeared is seen by the scan that is still to come, has been   *)
(* seen by the one that was, or is announced.                              *)
SeenOrToCome ==
    \A p \in Path : file[p] # "absent" => p \in unscanned \cup offered \cup events \cup gap

WatcherInv ==
    /\ QueueInv /\ WatcherTypeOK
    /\ watching => unscanned = {}
    /\ SeenOrToCome
    /\ EncodedIsThere /\ Ahead /\ PublishedIsComplete

-----------------------------------------------------------------------------
LEMMA WatcherInitInv == WatcherInit => WatcherInv
  <1> SUFFICES ASSUME WatcherInit PROVE WatcherInv
    OBVIOUS
  <1> USE WatcherAssumption
  <1>1. QueueInv /\ QueueTypeOK
    BY QueueInitInv DEF WatcherInit, QueueInv
  <1>2. item = None /\ todo \in Seq(Quality) /\ Len(todo) = 0
    BY EmptySeq DEF WatcherInit, QueueInit
  <1>3. WatcherTypeOK
    <2>1. file \in [Path -> {"absent", "partial", "whole"}]
      BY DEF WatcherInit
    <2>2. /\ variant \in [OutDir -> [Quality -> Path \cup {None}]]
          /\ master \in [OutDir -> Playlist \cup {None}]
      BY DEF WatcherInit
    <2>3. at = "idle" /\ encoded = {} /\ restarts \in 0..MaxRestarts
      BY DEF WatcherInit
    <2> QED
      BY <1>1, <1>2, <2>1, <2>2, <2>3 DEF WatcherInit, WatcherTypeOK
  <1>4. EncodedIsThere /\ Ahead /\ SeenOrToCome
    BY <1>2 DEF WatcherInit, EncodedIsThere, Ahead, SeenOrToCome
  <1>5. PublishedIsComplete
    BY DEF WatcherInit, PublishedIsComplete
  <1> QED
    BY <1>1, <1>3, <1>4, <1>5 DEF WatcherInit, WatcherInv

(* What happens to the queue is a step of the queue.                       *)
LEMMA StepOfQueue ==
    ASSUME [WatcherNext]_watcherVars
    PROVE  [QueueNext]_queueVars
  <1> USE WatcherAssumption
  <1>1. CASE UNCHANGED queueVars
    BY <1>1
  <1>2. ASSUME NEW p \in Path, Offer(p) PROVE QueueNext
    BY <1>2 DEF Offer, QueueNext
  <1>3. CASE GetNext \/ MarkCompleted \/ MarkFailed \/ Restart
    BY <1>3 DEF QueueNext, Worker
  <1>4. CASE DoJob
    BY <1>1, <1>3, <1>4
       DEF DoJob, TakeJob, SkipJob, StartJob, EncodeNext, SkipNext, OpenMaster, CompleteJob,
           FailJob
  <1>5. CASE StartUp
    BY <1>1, <1>2, <1>5 DEF StartUp, Visit, StartWatching
  <1> QED
    BY <1>1, <1>2, <1>3, <1>4, <1>5
       DEF WatcherNext, Appear, CopyEnds, Trigger, Observe, OnEvent, ProcessRestarts,
           watcherVars

-----------------------------------------------------------------------------
(* A step that neither takes, ends nor continues a job keeps what is said  *)
(* of jobs and streams.                                                    *)
LEMMA JobUntouched ==
    ASSUME WatcherInv, UNCHANGED <<item, at, todo, encoded, variant, master>>
    PROVE  EncodedIsThere' /\ Ahead' /\ PublishedIsComplete'
  BY DEF WatcherInv, EncodedIsThere, Ahead, PublishedIsComplete

(* The queue operations of producers leave the worker's item alone.        *)
LEMMA OfferKeepsItem ==
    ASSUME NEW p, Offer(p)
    PROVE  UNCHANGED item
  BY DEF Offer, Add, AddIgnored, queueVars

(* The end of a job that may leave a torn playlist behind, or the death of *)
(* the process: streams stay complete, and no playlist comes or goes.      *)
LEMMA TornEffect ==
    ASSUME WatcherInv, TornMaster
    PROVE  /\ master' \in [OutDir -> Playlist \cup {None}]
           /\ UNCHANGED variant => PublishedIsComplete'
           /\ \A d \in OutDir :
                 /\ (master'[d] = None) = (master[d] = None)
                 /\ master[d] # None => /\ master'[d].of = master[d].of
                                       /\ master'[d].whole = master[d].whole
                 /\ master'[d] # master[d] => ~master[d].whole
  <1> USE WatcherAssumption, PlaylistAssumption
  <1>0. WatcherTypeOK /\ EncodedIsThere /\ PublishedIsComplete
    BY DEF WatcherInv
  <1>1. CASE at = "write"
    <2> DEFINE d == OutDirOf[item]
    <2>1. PICK part \in SUBSET encoded :
             master' = [master EXCEPT ![Target] =
                 [of |-> item, lists |-> part, whole |-> FALSE]]
      BY <1>1 DEF TornMaster
    <2> DEFINE torn == [of |-> item, lists |-> part, whole |-> FALSE]
    <2>2. /\ item \in Path /\ d \in OutDir /\ encoded \subseteq Quality
          /\ master[d] = [of |-> item, lists |-> {}, whole |-> FALSE]
          /\ \A q \in encoded : variant[d][q] = item
      BY <1>0, <1>1 DEF WatcherTypeOK, QueueTypeOK, EncodedIsThere
    <2>3. torn \in Playlist /\ master[d] \in Playlist
      BY <2>2 DEF Playlist
    <2>4. /\ master'[d] = torn
          /\ \A c \in OutDir : c # d => master'[c] = master[c]
          /\ master' \in [OutDir -> Playlist \cup {None}]
      BY <1>0, <2>1, <2>2, <2>3 DEF WatcherTypeOK, Target
    <2>5. master[d] # None /\ master'[d] # None
      BY <2>3, <2>4
    <2>6. UNCHANGED variant => PublishedIsComplete'
      BY <1>0, <2>2, <2>4 DEF PublishedIsComplete
    <2>7. /\ master'[d].of = master[d].of /\ master'[d].whole = master[d].whole
          /\ ~master[d].whole
      BY <2>2, <2>4
    <2> HIDE DEF d, torn
    <2> QED
      BY <2>4, <2>5, <2>6, <2>7
  <1>2. CASE at # "write"
    BY <1>0, <1>2 DEF TornMaster, PublishedIsComplete, WatcherTypeOK
  <1> QED
    BY <1>1, <1>2

LEMMA WatcherNextInv ==
    ASSUME WatcherInv, [WatcherNext]_watcherVars
    PROVE  WatcherInv'
  <1> USE WatcherAssumption
  <1>0. /\ QueueInv /\ WatcherTypeOK /\ SeenOrToCome /\ EncodedIsThere
        /\ Ahead /\ PublishedIsComplete /\ (watching => unscanned = {})
    BY DEF WatcherInv
  <1>q. QueueInv' /\ QueueTypeOK'
    BY <1>0, StepOfQueue, QueueNextInv DEF QueueInv
  <1>1. ASSUME NEW p \in Path, NEW how \in {"partial", "whole"}, Appear(p, how)
        PROVE  WatcherInv'
    <2>1. UNCHANGED <<item, at, todo, encoded, variant, master>>
      BY <1>1 DEF Appear, queueVars, worker
    <2>2. SeenOrToCome'
      BY <1>0, <1>1 DEF Appear, SeenOrToCome, WatcherTypeOK
    <2>3. WatcherTypeOK'
      BY <1>0, <1>1, <1>q, <2>1 DEF Appear, WatcherTypeOK, worker
    <2> QED
      BY <1>0, <1>1, <1>q, <2>1, <2>2, <2>3, JobUntouched DEF Appear, WatcherInv
  <1>2. ASSUME NEW p \in Path, CopyEnds(p) PROVE WatcherInv'
    <2>1. UNCHANGED <<item, at, todo, encoded, variant, master>>
      BY <1>2 DEF CopyEnds, queueVars, worker
    <2>2. SeenOrToCome'
      BY <1>0, <1>2 DEF CopyEnds, SeenOrToCome, WatcherTypeOK, startup
    <2>3. WatcherTypeOK'
      BY <1>0, <1>2, <1>q, <2>1 DEF CopyEnds, WatcherTypeOK, worker, startup
    <2> QED
      BY <1>0, <1>2, <1>q, <2>1, <2>2, <2>3, JobUntouched
         DEF CopyEnds, WatcherInv, startup
  <1>3. ASSUME NEW p \in Path, Visit(p) PROVE WatcherInv'
    <2>1. UNCHANGED <<item, at, todo, encoded, variant, master>>
      BY <1>3, OfferKeepsItem DEF Visit, queueVars, worker, disk
    <2>2. SeenOrToCome'
      BY <1>0, <1>3 DEF Visit, Offer, SeenOrToCome, disk
    <2>3. WatcherTypeOK'
      BY <1>0, <1>3, <1>q, <2>1 DEF Visit, Offer, WatcherTypeOK, worker, disk
    <2> QED
      BY <1>0, <1>3, <1>q, <2>1, <2>2, <2>3, JobUntouched DEF Visit, WatcherInv
  <1>4. CASE StartWatching
    <2>1. UNCHANGED <<item, at, todo, encoded, variant, master>>
      BY <1>4 DEF StartWatching, queueVars, worker, disk
    <2>2. SeenOrToCome'
      BY <1>0, <1>4 DEF StartWatching, SeenOrToCome, disk
    <2>3. WatcherTypeOK'
      BY <1>0, <1>4, <1>q, <2>1 DEF StartWatching, WatcherTypeOK, worker, disk
    <2> QED
      BY <1>0, <1>4, <1>q, <2>1, <2>2, <2>3, JobUntouched DEF StartWatching, WatcherInv
  <1>5. ASSUME NEW p \in Path, OnEvent(p) \/ Trigger(p) PROVE WatcherInv'
    <2>1. UNCHANGED <<item, at, todo, encoded, variant, master>>
      BY <1>5, OfferKeepsItem DEF OnEvent, Trigger, worker, disk
    <2>2. SeenOrToCome'
      BY <1>0, <1>5 DEF OnEvent, Trigger, Offer, SeenOrToCome, disk, startup
    <2>3. WatcherTypeOK'
      BY <1>0, <1>5, <1>q, <2>1 DEF OnEvent, Trigger, Offer, WatcherTypeOK, worker, disk,
         startup
    <2> QED
      BY <1>0, <1>5, <1>q, <2>1, <2>2, <2>3, JobUntouched
         DEF OnEvent, Trigger, WatcherInv, startup
  <1>6. CASE DoJob
    <2>1. UNCHANGED <<file, unscanned, watching, gap, events, offered, restarts>>
      BY <1>6 DEF DoJob, TakeJob, SkipJob, StartJob, EncodeNext, SkipNext, OpenMaster,
         CompleteJob, FailJob, JobOver, disk, startup
    <2>2. SeenOrToCome'
      BY <1>0, <2>1 DEF SeenOrToCome
    <2>3. item # None => item \in Path /\ OutDirOf[item] \in OutDir
      BY <1>0 DEF WatcherTypeOK, QueueTypeOK
    <2> SUFFICES WatcherTypeOK' /\ EncodedIsThere' /\ Ahead' /\ PublishedIsComplete'
      BY <1>0, <1>q, <2>1, <2>2 DEF WatcherInv
    <2>4. CASE TakeJob
      <3>1. item' # None /\ at' = "check"
            /\ UNCHANGED <<todo, encoded, variant, master, handled>>
        BY <2>4, <1>0, PopFront, QueueAssumption
           DEF TakeJob, GetNext, disk, QueueInv, QueueTypeOK
      <3>2. at \notin {"encode", "write"}
        BY <1>0, <2>4 DEF TakeJob, GetNext, WatcherTypeOK
      <3>3. EncodedIsThere' /\ Ahead' /\ PublishedIsComplete'
        BY <1>0, <3>1, <3>2 DEF EncodedIsThere, Ahead, PublishedIsComplete
      <3>4. WatcherTypeOK'
        BY <1>0, <1>q, <2>1, <3>1 DEF WatcherTypeOK
      <3> QED
        BY <3>3, <3>4
    <2>5. CASE SkipJob \/ FailJob
      <3>1. /\ item # None /\ item' = None /\ at' = "idle" /\ todo' = <<>>
            /\ encoded' = {} /\ handled' = handled \cup {item}
            /\ UNCHANGED variant
        BY <2>5 DEF SkipJob, FailJob, MarkCompleted, MarkFailed, JobOver
      <3>2. todo' \in Seq(Quality) /\ Len(todo') = 0
        BY <3>1, EmptySeq
      <3>3. master' \in [OutDir -> Playlist \cup {None}] /\ PublishedIsComplete'
        <4>1. CASE SkipJob
          BY <1>0, <4>1 DEF SkipJob, WatcherTypeOK, PublishedIsComplete
        <4>2. CASE FailJob
          BY <3>1, <4>2, TornEffect DEF FailJob
        <4> QED
          BY <2>5, <4>1, <4>2
      <3>4. EncodedIsThere' /\ Ahead'
        BY <3>1, <3>2 DEF EncodedIsThere, Ahead
      <3>5. WatcherTypeOK'
        BY <1>0, <1>q, <2>1, <2>3, <3>1, <3>2, <3>3 DEF WatcherTypeOK
      <3> QED
        BY <3>3, <3>4, <3>5
    <2>6. CASE StartJob
      <3>1. /\ item # None /\ encoded = {} /\ at' = "encode" /\ todo' = Ladder
            /\ master[OutDirOf[item]] = None
            /\ UNCHANGED <<item, encoded, variant, master, handled>>
        BY <1>0, <2>6
           DEF StartJob, Target, WatcherTypeOK, EncodedIsThere, queueVars, disk
      <3>2. EncodedIsThere' /\ Ahead' /\ PublishedIsComplete'
        BY <1>0, <3>1 DEF EncodedIsThere, Ahead, PublishedIsComplete
      <3>3. WatcherTypeOK'
        BY <1>0, <1>q, <2>1, <3>1 DEF WatcherTypeOK
      <3> QED
        BY <3>2, <3>3
    <2>7. CASE EncodeNext \/ SkipNext
      <3> DEFINE d == OutDirOf[item]
      <3> DEFINE q == Head(todo)
      <3>1. /\ at = "encode" /\ at' = "encode" /\ item # None
            /\ master[d] = None /\ todo # <<>> /\ todo' = Tail(todo)
            /\ UNCHANGED <<item, master, handled>>
        BY <1>0, <2>7 DEF EncodeNext, SkipNext, EncodedIsThere, queueVars
      <3>2. d \in OutDir /\ item \in Path
        BY <2>3, <3>1
      <3>3. PICK v \in Path \cup {None} : variant' = [variant EXCEPT ![d][q] = v]
                                      /\ (EncodeNext => v = item)
        <4>1. todo \in Seq(Quality)
          BY <1>0 DEF WatcherTypeOK
        <4>2. q \in Quality
          BY <3>1, <4>1, PopFront
        <4>3. variant[d][q] \in Path \cup {None}
          BY <1>0, <3>2, <4>2 DEF WatcherTypeOK
        <4>4. CASE EncodeNext
          BY <4>4, <3>2 DEF EncodeNext, Target
        <4>5. CASE SkipNext /\ ~EncodeNext
          BY <4>5, <4>3 DEF SkipNext, Target
        <4> QED
          BY <2>7, <4>4, <4>5
      <3>4. /\ Len(todo) \in Nat \ {0} /\ q = todo[1] /\ q \in Quality
            /\ todo' \in Seq(Quality) /\ Len(todo') = Len(todo) - 1
            /\ \A i \in 1..Len(todo') : todo'[i] = todo[i + 1]
        <4>1. todo \in Seq(Quality)
          BY <1>0 DEF WatcherTypeOK
        <4> QED
          BY <3>1, <4>1, PopFront
      <3>5. encoded' = encoded \/ (EncodeNext /\ encoded' = encoded \cup {q})
        BY <2>7 DEF EncodeNext, SkipNext
      <3>6. /\ \A c \in OutDir : c # d => variant'[c] = variant[c]
            /\ \A r \in Quality : r # q => variant'[d][r] = variant[d][r]
            /\ variant'[d][q] = v
            /\ variant' \in [OutDir -> [Quality -> Path \cup {None}]]
        BY <1>0, <3>2, <3>3, <3>4 DEF WatcherTypeOK
      <3>7. q \notin encoded /\ encoded \subseteq Quality
        BY <1>0, <3>4 DEF Ahead, WatcherTypeOK
      <3>8. Ahead'
        <4>1. \A i, j \in 1..Len(todo') : todo'[i] = todo'[j] => i = j
          BY <1>0, <3>4 DEF Ahead
        <4>2. \A i \in 1..Len(todo') : todo'[i] \notin encoded /\ todo'[i] # q
          <5> SUFFICES ASSUME NEW i \in 1..Len(todo')
                       PROVE  todo'[i] \notin encoded /\ todo'[i] # q
            OBVIOUS
          <5>1. i + 1 \in 1..Len(todo) /\ 1 \in 1..Len(todo) /\ i + 1 # 1
            BY <3>4
          <5>2. todo[i + 1] \notin encoded /\ todo[i + 1] # todo[1]
            BY <1>0, <5>1 DEF Ahead
          <5> QED
            BY <3>4, <5>2
        <4> QED
          BY <3>5, <4>1, <4>2 DEF Ahead
      <3>9. EncodedIsThere'
        BY <1>0, <3>1, <3>3, <3>5, <3>6, <3>7 DEF EncodedIsThere
      <3>10. PublishedIsComplete'
        <4> SUFFICES ASSUME NEW c \in OutDir, master'[c] # None, NEW r \in master'[c].lists
                     PROVE  variant'[c][r] = master'[c].of
          BY DEF PublishedIsComplete
        <4>1. c # d /\ master'[c] = master[c]
          BY <3>1
        <4> QED
          BY <1>0, <3>6, <4>1 DEF PublishedIsComplete
      <3>11. WatcherTypeOK'
        BY <1>0, <1>q, <2>1, <3>1, <3>4, <3>5, <3>6 DEF WatcherTypeOK
      <3> QED
        BY <3>8, <3>9, <3>10, <3>11
    <2>8. CASE CompleteJob
      <3> DEFINE d == OutDirOf[item]
      <3>1. /\ at = "write" /\ item # None /\ item' = None /\ at' = "idle"
            /\ todo' = <<>> /\ encoded' = {} /\ handled' = handled \cup {item}
            /\ master' = [master EXCEPT ![d] =
                  [of |-> item, lists |-> encoded, whole |-> TRUE]]
            /\ UNCHANGED variant
        BY <2>8 DEF CompleteJob, MarkCompleted, JobOver, Target
      <3>2. d \in OutDir /\ item \in Path /\ encoded \subseteq Quality
        BY <1>0, <2>3, <3>1 DEF WatcherTypeOK
      <3>3. todo' \in Seq(Quality) /\ Len(todo') = 0
        BY <3>1, EmptySeq
      <3>4. [of |-> item, lists |-> encoded, whole |-> TRUE] \in Playlist
        BY <3>2 DEF Playlist
      <3>5. EncodedIsThere' /\ Ahead'
        BY <3>1, <3>3 DEF EncodedIsThere, Ahead
      <3>6. PublishedIsComplete'
        BY <1>0, <3>1, <3>2 DEF PublishedIsComplete, EncodedIsThere, WatcherTypeOK
      <3>7. WatcherTypeOK'
        BY <1>0, <1>q, <2>1, <3>1, <3>2, <3>3, <3>4 DEF WatcherTypeOK
      <3> QED
        BY <3>5, <3>6, <3>7
    <2>9. CASE OpenMaster
      <3> DEFINE d == OutDirOf[item]
      <3> DEFINE m == [of |-> item, lists |-> {}, whole |-> FALSE]
      <3>1. /\ at = "encode" /\ item # None /\ at' = "write" /\ encoded # {}
            /\ master' = [master EXCEPT ![d] = m]
            /\ UNCHANGED <<item, todo, encoded, variant, handled>>
        BY <1>0, <2>9 DEF OpenMaster, EncodedIsThere, Target, queueVars
      <3>2. d \in OutDir /\ item \in Path
        BY <2>3, <3>1
      <3>3. m \in Playlist
        BY <3>2 DEF Playlist
      <3>4. master'[d] = m /\ \A c \in OutDir : c # d => master'[c] = master[c]
        BY <1>0, <3>1, <3>2 DEF WatcherTypeOK
      <3>5. EncodedIsThere' /\ Ahead'
        BY <1>0, <3>1, <3>4 DEF EncodedIsThere, Ahead
      <3>6. PublishedIsComplete'
        BY <1>0, <3>1, <3>4 DEF PublishedIsComplete
      <3>7. WatcherTypeOK'
        BY <1>0, <1>q, <2>1, <3>1, <3>2, <3>3 DEF WatcherTypeOK
      <3> QED
        BY <3>5, <3>6, <3>7
    <2> QED
      BY <1>6, <2>4, <2>5, <2>6, <2>7, <2>8, <2>9 DEF DoJob
  <1>7. CASE ProcessRestarts
    <2>1. /\ item' = None /\ at' = "idle" /\ todo' = <<>> /\ encoded' = {}
          /\ UNCHANGED <<file, variant, handled>>
      BY <1>7 DEF ProcessRestarts, Restart
    <2>2. todo' \in Seq(Quality) /\ Len(todo') = 0
      BY <2>1, EmptySeq
    <2>3. restarts' \in 0..MaxRestarts
      BY <1>0, <1>7 DEF ProcessRestarts, WatcherTypeOK
    <2>4. master' \in [OutDir -> Playlist \cup {None}] /\ PublishedIsComplete'
      BY <1>7, <2>1, TornEffect DEF ProcessRestarts
    <2>5. WatcherTypeOK'
      BY <1>0, <1>7, <1>q, <2>1, <2>2, <2>3, <2>4 DEF ProcessRestarts, WatcherTypeOK
    <2>6. EncodedIsThere' /\ Ahead' /\ PublishedIsComplete'
      BY <2>1, <2>2, <2>4 DEF EncodedIsThere, Ahead
    <2> QED
      <3>1. unscanned' = Path /\ ~watching'
        BY <1>7 DEF ProcessRestarts
      <3>2. SeenOrToCome'
        BY <3>1 DEF SeenOrToCome
      <3> QED
        BY <1>q, <2>5, <2>6, <3>1, <3>2 DEF WatcherInv
  <1>8. CASE UNCHANGED watcherVars
    <2>1. /\ UNCHANGED <<item, at, todo, encoded, variant, master>>
          /\ UNCHANGED <<file, unscanned, watching, gap, events, offered, handled, restarts>>
      BY <1>8 DEF watcherVars, queueVars, disk, worker, startup
    <2>2. WatcherTypeOK'
      BY <1>0, <1>q, <2>1 DEF WatcherTypeOK
    <2>3. SeenOrToCome'
      BY <1>0, <2>1 DEF SeenOrToCome
    <2> QED
      BY <1>0, <1>q, <2>1, <2>2, <2>3, JobUntouched DEF WatcherInv
  <1> QED
    BY <1>1, <1>2, <1>3, <1>4, <1>5, <1>6, <1>7, <1>8 DEF WatcherNext, StartUp, Observe

LEMMA WatcherSafety == WatcherSpec => []WatcherInv
  BY WatcherInitInv, WatcherNextInv, PTL DEF WatcherSpec

-----------------------------------------------------------------------------
(* Types, whoever offers what and whenever the process dies.               *)
THEOREM WatcherTypes == WatcherSpec => []WatcherTypeOK
  <1>1. WatcherInv => WatcherTypeOK
    BY DEF WatcherInv
  <1> QED
    BY <1>1, WatcherSafety, PTL

(* Scan and observer miss only what appears between them, for any number   *)
(* of videos, directories and restarts.                                    *)
THEOREM MissedIsInGap == WatcherSpec => []MissedOnlyInGap
  <1>1. WatcherInv => MissedOnlyInGap
    BY DEF WatcherInv, SeenOrToCome, MissedOnlyInGap
  <1> QED
    BY <1>1, WatcherSafety, PTL

(* What a master playlist lists is on disk and of one video, also when     *)
(* videos share their output directory.                                    *)
THEOREM PublishedStaysComplete == WatcherSpec => []PublishedIsComplete
  <1>1. WatcherInv => PublishedIsComplete
    BY DEF WatcherInv
  <1> QED
    BY <1>1, WatcherSafety, PTL

(* Seen through its jobs, the whole watcher keeps the life cycle of a job: *)
(* scan, observer and HTTP triggers only submit, and the worker takes and  *)
(* settles what it took, over any number of restarts.                      *)
THEOREM WatcherImplementsLifecycle == WatcherSpec => ImplementsLifecycle
  <1>1. WatcherInit => Lifecycle!Init
    BY DEF WatcherInit, QueueInit, Lifecycle!Init, KeyStatus, InProcess, Waiting
  <1>2. WatcherInv /\ [WatcherNext]_watcherVars => [Lifecycle!Next]_KeyStatus
    BY StepOfQueue, StepRefines DEF WatcherInv
  <1> QED
    BY <1>1, <1>2, WatcherSafety, PTL DEF WatcherSpec, ImplementsLifecycle, Lifecycle!Spec

-----------------------------------------------------------------------------
(* A playlist lies in the directory of its video, and one that was written *)
(* to its end lists something; a completed video has one.                  *)
InPlace ==
    \A d \in OutDir : master[d] # None =>
        /\ OutDirOf[master[d].of] = d
        /\ master[d].whole => master[d].lists # {}

Published(p) == master[OutDirOf[p]] # None
CompletedThere == \A i \in DOMAIN completed : Published(completed[i])

StreamInv == WatcherInv /\ InPlace /\ CompletedThere

(* What a history remembers it was told.                                   *)
LEMMA RememberKeeps ==
    ASSUME NEW history \in Seq(Entry), NEW e \in Entry,
           NEW i \in DOMAIN Remember(history, e)
    PROVE  Remember(history, e)[i] = e
              \/ \E j \in DOMAIN history : Remember(history, e)[i] = history[j]
  <1> DEFINE s == Append(history, e)
  <1>1. /\ s \in Seq(Entry) /\ s # <<>> /\ Len(history) \in Nat
        /\ Len(s) = Len(history) + 1 /\ DOMAIN s = 1..Len(s)
        /\ DOMAIN history = 1..Len(history)
        /\ \A j \in 1..Len(history) : s[j] = history[j]
        /\ s[Len(history) + 1] = e
    BY AppendProperties, LenProperties
  <1>2. \A j \in 1..Len(s) : s[j] = e \/ \E k \in DOMAIN history : s[j] = history[k]
    BY <1>1
  <1>3. CASE Remember(history, e) = s
    BY <1>1, <1>2, <1>3
  <1>4. CASE Remember(history, e) = Tail(s)
    <2>1. /\ Tail(s) \in Seq(Entry) /\ Len(Tail(s)) = Len(s) - 1
          /\ \A j \in 1..Len(Tail(s)) : Tail(s)[j] = s[j + 1]
      BY <1>1, PopFront
    <2>2. i \in 1..Len(Tail(s))
      BY <1>4, <2>1, LenProperties
    <2>3. i + 1 \in 1..Len(s) /\ Tail(s)[i] = s[i + 1]
      BY <1>1, <2>1, <2>2
    <2> QED
      BY <1>2, <1>4, <2>3
  <1> QED
    BY <1>3, <1>4 DEF Remember

(* Playlists stay, with the video they are of; the only other thing that   *)
(* happens to them is that the job opens, fills or tears that of its item. *)
LEMMA MastersStay ==
    ASSUME WatcherInv, [WatcherNext]_watcherVars, InPlace
    PROVE  /\ InPlace'
           /\ \A d \in OutDir : master[d] # None =>
                 master'[d] # None /\ master'[d].of = master[d].of
           /\ CompleteJob => item \in Path /\ master'[OutDirOf[item]] # None
  <1> USE WatcherAssumption, PlaylistAssumption
  <1>0. WatcherTypeOK /\ EncodedIsThere
    BY DEF WatcherInv
  <1>1. CASE OpenMaster \/ CompleteJob
    <2> DEFINE d == OutDirOf[item]
    <2>1. PICK l \in SUBSET encoded, w \in BOOLEAN :
             /\ master' = [master EXCEPT ![d] = [of |-> item, lists |-> l, whole |-> w]]
             /\ w => l # {}
      <3>1. CASE OpenMaster
        BY <3>1 DEF OpenMaster, Target
      <3>2. CASE CompleteJob
        BY <1>0, <3>2 DEF CompleteJob, Target, EncodedIsThere
      <3> QED
        BY <1>1, <3>1, <3>2
    <2>2. /\ item \in Path /\ d \in OutDir /\ encoded \subseteq Quality
          /\ master[d] = None \/ master[d].of = item
      BY <1>0, <1>1
         DEF OpenMaster, CompleteJob, EncodedIsThere, WatcherTypeOK, QueueTypeOK
    <2>3. /\ master'[d] = [of |-> item, lists |-> l, whole |-> w]
          /\ \A c \in OutDir : c # d => master'[c] = master[c]
      BY <1>0, <2>1, <2>2 DEF WatcherTypeOK
    <2>4. master'[d] # None
      BY <2>2, <2>3 DEF Playlist
    <2>5. InPlace'
      BY <2>1, <2>2, <2>3 DEF InPlace
    <2> QED
      BY <2>2, <2>3, <2>4, <2>5
  <1>2. CASE (FailJob \/ ProcessRestarts) /\ ~CompleteJob
    <2>1. TornMaster
      BY <1>2 DEF FailJob, ProcessRestarts
    <2>2. \A d \in OutDir :
             /\ (master'[d] = None) = (master[d] = None)
             /\ master[d] # None => /\ master'[d].of = master[d].of
                                   /\ master'[d].whole = master[d].whole
             /\ master'[d] # master[d] => ~master[d].whole
      BY <2>1, TornEffect
    <2>3. InPlace'
      BY <2>2 DEF InPlace
    <2> QED
      BY <1>2, <2>2, <2>3
  <1>3. CASE UNCHANGED master /\ ~CompleteJob
    BY <1>3 DEF InPlace
  <1> QED
    BY <1>1, <1>2, <1>3
       DEF WatcherNext, StartUp, Observe, DoJob, Appear, CopyEnds, Trigger, Visit,
           StartWatching, OnEvent, TakeJob, SkipJob, StartJob, EncodeNext, SkipNext,
           disk, watcherVars

(* The list of completed videos changes by the item, or is emptied.        *)
LEMMA CompletedByJob ==
    ASSUME WatcherInv, [WatcherNext]_watcherVars
    PROVE  \/ completed' = completed \/ completed' = <<>>
           \/ /\ SkipJob \/ CompleteJob
              /\ item \in Entry /\ completed' = Remember(completed, item)
  <1>1. CASE SkipJob \/ CompleteJob
    BY <1>1 DEF SkipJob, CompleteJob, MarkCompleted, WatcherInv, WatcherTypeOK, QueueTypeOK
  <1>2. CASE UNCHANGED completed
    BY <1>2
  <1>3. CASE ProcessRestarts
    BY <1>3 DEF ProcessRestarts, Restart
  <1> QED
    BY <1>1, <1>2, <1>3
       DEF WatcherNext, StartUp, Observe, DoJob, Appear, CopyEnds, Trigger, Visit,
           StartWatching, OnEvent, TakeJob, GetNext, StartJob, EncodeNext, SkipNext,
           OpenMaster, FailJob, MarkFailed, Offer, Add, AddIgnored, queueVars, watcherVars

LEMMA StreamNextInv ==
    ASSUME StreamInv, [WatcherNext]_watcherVars
    PROVE  StreamInv'
  <1> USE WatcherAssumption
  <1>0. WatcherInv /\ InPlace /\ CompletedThere /\ WatcherTypeOK
    BY DEF StreamInv, WatcherInv
  <1>1. WatcherInv'
    BY <1>0, WatcherNextInv
  <1>2. InPlace'
    BY <1>0, MastersStay
  <1>3. \A p \in Path : Published(p) => Published(p)'
    BY <1>0, MastersStay DEF Published
  <1>4. SkipJob \/ CompleteJob => item \in Path /\ master'[OutDirOf[item]] # None
    <2>1. SkipJob => item \in Path /\ master'[OutDirOf[item]] # None
      BY <1>0 DEF SkipJob, Target, MarkCompleted, WatcherTypeOK, QueueTypeOK
    <2> QED
      BY <1>0, <2>1, MastersStay
  <1>5. CompletedThere'
    <2> SUFFICES ASSUME NEW i \in DOMAIN completed', NEW p, p = completed'[i]
                 PROVE  master'[OutDirOf[p]] # None
      BY DEF CompletedThere, Published
    <2>1. \A j \in DOMAIN completed : completed[j] \in Path /\ Published(completed[j])
      <3>1. \A j \in DOMAIN completed : completed[j] \in Path
        BY <1>0, ElementOfSeq, LenProperties DEF WatcherTypeOK, QueueTypeOK
      <3> QED
        BY <1>0, <3>1 DEF CompletedThere
    <2>2. CASE completed' = completed
      BY <1>3, <2>1, <2>2 DEF Published
    <2>3. CASE completed' = <<>>
      BY <2>3
    <2>4. CASE /\ SkipJob \/ CompleteJob
               /\ item \in Entry /\ completed' = Remember(completed, item)
      <3>1. p = item \/ \E j \in DOMAIN completed : p = completed[j]
        BY <1>0, <2>4, RememberKeeps DEF WatcherTypeOK, QueueTypeOK
      <3> QED
        BY <1>3, <1>4, <2>1, <2>4, <3>1 DEF Published
    <2> QED
      BY <1>0, <2>2, <2>3, <2>4, CompletedByJob
  <1> QED
    BY <1>1, <1>2, <1>5 DEF StreamInv

LEMMA StreamSafety == WatcherSpec => []StreamInv
  <1>1. WatcherInit => StreamInv
    <2> SUFFICES ASSUME WatcherInit PROVE StreamInv
      OBVIOUS
    <2>1. DOMAIN completed = {}
      BY DEF WatcherInit, QueueInit
    <2> QED
      BY <2>1, WatcherInitInv DEF WatcherInit, StreamInv, InPlace, CompletedThere
  <1> QED
    BY <1>1, StreamNextInv, PTL DEF WatcherSpec

(* A video reported as completed has a playlist in its directory, of a     *)
(* video that has the same unique ID, and unless its writing was cut short *)
(* it lists something; for any assignment of IDs, colliding ones included. *)
THEOREM CompletedHaveStreams == WatcherSpec => []CompletedHasStream
  <1>1. StreamInv => CompletedHasStream
    <2> SUFFICES ASSUME StreamInv, NEW i \in DOMAIN completed
                 PROVE  LET p == completed[i]
                            m == master[OutDirOf[p]]
                        IN  /\ m # None /\ OutDirOf[m.of] = OutDirOf[p]
                            /\ m.whole => m.lists # {}
      BY DEF CompletedHasStream
    <2>1. completed[i] \in Path
      BY WatcherAssumption, ElementOfSeq, LenProperties
         DEF StreamInv, WatcherInv, WatcherTypeOK, QueueTypeOK
    <2>2. OutDirOf[completed[i]] \in OutDir /\ master[OutDirOf[completed[i]]] # None
      BY <2>1, WatcherAssumption DEF StreamInv, CompletedThere, Published
    <2> QED
      BY <2>2 DEF StreamInv, InPlace
  <1> QED
    BY <1>1, StreamSafety, PTL

(* A video whose unique ID is no other's is completed by a playlist of its *)
(* own, even where other videos collide.                                   *)
OwnPlaylist(p) ==
    \A i \in DOMAIN completed : completed[i] = p => master[OutDirOf[p]].of = p

THEOREM CompletedIsOwn ==
    ASSUME NEW p \in Path, \A r \in Path : OutDirOf[r] = OutDirOf[p] => r = p
    PROVE  WatcherSpec => []OwnPlaylist(p)
  <1>1. StreamInv => OwnPlaylist(p)
    <2> SUFFICES ASSUME StreamInv, NEW i \in DOMAIN completed, completed[i] = p
                 PROVE  master[OutDirOf[p]].of = p
      BY DEF OwnPlaylist
    <2> DEFINE d == OutDirOf[p]
    <2>1. d \in OutDir /\ master[d] # None
      BY WatcherAssumption DEF StreamInv, CompletedThere, Published
    <2>2. master[d].of \in Path
      BY <2>1 DEF StreamInv, WatcherInv, WatcherTypeOK, Playlist
    <2> QED
      BY <2>1, <2>2 DEF StreamInv, InPlace
  <1> QED
    BY <1>1, StreamSafety, PTL
=============================================================================
