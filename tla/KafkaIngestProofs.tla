-------------------------- MODULE KafkaIngestProofs --------------------------
(***************************************************************************)
(* Proofs about KafkaIngest, for any events, entries and keys, any length  *)
(* of the topic and any number of lost connections and restarts.           *)
(***************************************************************************)
EXTENDS KafkaIngest, TranscodeQueueProofs

(* Everything before the position was handed to _handle_event, by this     *)
(* consumer or by an earlier one: what AtLeastOnce needs to be inductive.  *)
ReadIsFed == 1..position \subseteq fed

IngestInv == QueueInv /\ IngestTypeOK /\ ReadIsFed /\ AtLeastOnce

-----------------------------------------------------------------------------
LEMMA IngestInitInv == IngestInit => IngestInv
  <1> SUFFICES ASSUME IngestInit PROVE IngestInv
    OBVIOUS
  <1>1. QueueInv /\ QueueTypeOK
    BY QueueInitInv DEF IngestInit, QueueInv
  <1>2. topic \in Seq(Event) /\ Len(topic) = 0
    BY EmptySeq DEF IngestInit
  <1> QED
    BY <1>1, <1>2, IngestAssumption
       DEF IngestInit, IngestInv, IngestTypeOK, ReadIsFed, AtLeastOnce

(* What the broker and the thread do leaves the queue as it is, or is a    *)
(* step of the queue.                                                      *)
LEMMA StepOfQueue ==
    ASSUME [IngestNext]_ingestVars
    PROVE  [QueueNext]_queueVars
  <1>1. CASE UNCHANGED queueVars
    BY <1>1
  <1>2. CASE Deliver
    BY <1>2 DEF Deliver, QueueNext
  <1>3. CASE Work
    BY <1>3 DEF Work, QueueNext
  <1>4. CASE ProcessRestart
    BY <1>4 DEF ProcessRestart, QueueNext
  <1> QED
    BY <1>1, <1>2, <1>3, <1>4
       DEF IngestNext, KafkaThread, Publish, IdlePoll, ConnectFails, ConnectionLost,
           Connect, Poll, AutoCommit, DecodingFails, DropConsumer, ingestVars

(* Every step of the consumer, the broker and the worker preserves it.     *)
LEMMA IngestNextInv ==
    ASSUME IngestInv, [IngestNext]_ingestVars
    PROVE  IngestInv'
  <1> USE IngestAssumption
  <1>0. QueueInv /\ IngestTypeOK /\ ReadIsFed /\ AtLeastOnce
    BY DEF IngestInv
  <1>1. QueueInv' /\ QueueTypeOK'
    BY <1>0, StepOfQueue, QueueNextInv DEF QueueInv
  <1>2. Len(topic) \in Nat /\ topic \in Seq(Event)
    BY <1>0, LenProperties DEF IngestTypeOK
  <1>3. NextBackoff \in {5, 10, 20, 40, 60}
    BY <1>0 DEF IngestTypeOK, NextBackoff
  <1>4. CASE Publish
    <2>1. PICK ev \in Published : topic' = Append(topic, ev)
      BY <1>4 DEF Publish
    <2>2. topic' \in Seq(Event) /\ Len(topic') = Len(topic) + 1
      BY <1>2, <2>1, AppendProperties
    <2>3. Len(topic') <= MaxEvents
      BY <1>2, <1>4, <2>2 DEF Publish
    <2> QED
      BY <1>0, <1>1, <1>2, <1>4, <2>2, <2>3
         DEF Publish, IngestInv, IngestTypeOK, ReadIsFed, AtLeastOnce, bounds
  <1>5. CASE Connect
    BY <1>0, <1>1, <1>2, <1>5
       DEF Connect, StartOffset, IngestInv, IngestTypeOK, ReadIsFed, AtLeastOnce, bounds
  <1>6. CASE ConnectFails
    BY <1>0, <1>1, <1>2, <1>3, <1>6
       DEF ConnectFails, IngestInv, IngestTypeOK, ReadIsFed, AtLeastOnce, bounds
  <1>7. CASE ConnectionLost \/ DecodingFails
    <2>1. DropConsumer /\ restarts' = restarts /\ faults' \in 0..MaxFaults
      BY <1>0, <1>7 DEF ConnectionLost, DecodingFails, IngestTypeOK, bounds
    <2> QED
      BY <1>0, <1>1, <1>2, <1>3, <2>1
         DEF DropConsumer, IngestInv, IngestTypeOK, ReadIsFed, AtLeastOnce
  <1>8. CASE Deliver
    BY <1>0, <1>1, <1>2, <1>8
       DEF Deliver, IngestInv, IngestTypeOK, ReadIsFed, AtLeastOnce, bounds
  <1>9. CASE AutoCommit
    BY <1>0, <1>1, <1>2, <1>9
       DEF AutoCommit, MayPoll, IngestInv, IngestTypeOK, ReadIsFed, AtLeastOnce, bounds
  <1>10. CASE Work
    <2>1. settled' \subseteq Key
      BY <1>0, <1>10, QueueAssumption DEF Work, IngestTypeOK, QueueTypeOK
    <2> QED
      BY <1>0, <1>1, <1>10, <2>1
         DEF Work, kafkaVars, bounds, IngestInv, IngestTypeOK, ReadIsFed, AtLeastOnce
  <1>11. CASE ProcessRestart
    BY <1>0, <1>1, <1>2, <1>11
       DEF ProcessRestart, IngestInv, IngestTypeOK, ReadIsFed, AtLeastOnce
  <1>12. CASE Poll
    BY <1>0, <1>1, <1>2, <1>12
       DEF Poll, MayPoll, IngestInv, IngestTypeOK, ReadIsFed, AtLeastOnce, bounds
  <1>13. CASE IdlePoll \/ UNCHANGED ingestVars
    BY <1>0, <1>1, <1>13
       DEF IdlePoll, ingestVars, kafkaVars, bounds, IngestInv, IngestTypeOK, ReadIsFed,
           AtLeastOnce
  <1> QED
    BY <1>4, <1>5, <1>6, <1>7, <1>8, <1>9, <1>10, <1>11, <1>12, <1>13
       DEF IngestNext, KafkaThread

LEMMA IngestSafety == IngestSpec => []IngestInv
  BY IngestInitInv, IngestNextInv, PTL DEF IngestSpec

-----------------------------------------------------------------------------
(* The back-off stays at 60 s or less, and offsets within the topic,       *)
(* whatever fails in whatever order.                                       *)
THEOREM IngestTypes == IngestSpec => []IngestTypeOK
  <1>1. IngestInv => IngestTypeOK
    BY DEF IngestInv
  <1> QED
    BY <1>1, IngestSafety, PTL

(* At-least-once: what the group has committed was handed to _handle_event,*)
(* over any number of lost connections and restarts.                       *)
THEOREM CommittedWasFed == IngestSpec => []AtLeastOnce
  <1>1. IngestInv => AtLeastOnce
    BY DEF IngestInv
  <1> QED
    BY <1>1, IngestSafety, PTL

(* Redelivered events do not make a video be transcoded twice at a time:   *)
(* the queue that the consumer feeds keeps its promise.                    *)
THEOREM IngestKeepsOneJob == IngestSpec => []OneJobPerKey
  <1>1. IngestInv => OneJobPerKey
    BY DEF IngestInv, QueueInv
  <1> QED
    BY <1>1, IngestSafety, PTL

(* Seen through its jobs, the consumer with the queue it feeds still keeps *)
(* the life cycle of a job, under redelivery, lost connections and         *)
(* restarts: what is proved of the queue survives the composition.         *)
THEOREM IngestImplementsLifecycle == IngestSpec => ImplementsLifecycle
  <1>1. IngestInit => Lifecycle!Init
    BY DEF IngestInit, QueueInit, Lifecycle!Init, KeyStatus, InProcess, Waiting
  <1>2. IngestInv /\ [IngestNext]_ingestVars => [Lifecycle!Next]_KeyStatus
    BY StepOfQueue, StepRefines DEF IngestInv
  <1> QED
    BY <1>1, <1>2, IngestSafety, PTL DEF IngestSpec, ImplementsLifecycle, Lifecycle!Spec
=============================================================================
