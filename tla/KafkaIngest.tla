----------------------------- MODULE KafkaIngest -----------------------------
(***************************************************************************)
(* The Kafka thread of the transcoding service, and the queue it feeds:    *)
(* start_kafka_consumer and _handle_event of                               *)
(* transcoding-service/kafka_consumer.py on top of TranscodeQueue.         *)
(*                                                                         *)
(* The topic and the committed offset live in the broker and survive a     *)
(* restart of the service; the position, the back-off and the queue live   *)
(* in the process and do not.  The client fetches and decodes a batch of   *)
(* events inside its poll, then yields them one by one, and commits its    *)
(* position when it polls again, so after a lost connection or a restart   *)
(* the events after the committed offset are delivered again.              *)
(*                                                                         *)
(* Covered: lost connections, refused connections, restarts, events that   *)
(* are malformed or cannot be decoded.  Not covered: several members of    *)
(* the group, several partitions, the loss of events by the broker.        *)
(***************************************************************************)
EXTENDS TranscodeQueue

CONSTANTS
    Malformed,    \* an event without storage_key or file_id
    Poison,       \* a message json.loads cannot decode
    Published,    \* the events producers send in this instance
    NoOffset,     \* the group has not committed anything yet
    MaxEvents,    \* bound on the length of the topic
    MaxFaults,    \* bound on lost connections
    MaxRestarts   \* bound on restarts of the process

Event == Entry \cup {Malformed, Poison}

ASSUME IngestAssumption ==
    /\ Published \subseteq Event
    /\ Malformed \notin Entry /\ Poison \notin Entry /\ Malformed # Poison
    /\ NoOffset \notin Nat
    /\ {MaxEvents, MaxFaults, MaxRestarts} \subseteq Nat

VARIABLES
    topic,        \* the events of video.uploaded, in order
    committed,    \* the group's committed offset
    link,         \* "connecting" or "listening"
    position,     \* number of events yielded to the present consumer's loop
    polled,       \* end of the batch that is decoded and being yielded
    backoff,      \* retry_delay, in seconds
    fed,          \* history: offsets handed to _handle_event at least once
    settled,      \* history: keys whose job was marked completed or failed
    faults,       \* lost connections so far
    restarts      \* restarts so far

kafkaVars == <<topic, committed, link, position, polled, backoff, fed>>
bounds == <<faults, restarts>>
ingestVars == <<queueVars, kafkaVars, settled, bounds>>

-----------------------------------------------------------------------------
(* Types; retry_delay is 5 s after a success and doubles up to 60 s.       *)
IngestTypeOK ==
    /\ QueueTypeOK
    /\ topic \in Seq(Event) /\ Len(topic) <= MaxEvents
    /\ committed \in 0..Len(topic) \cup {NoOffset}
    /\ link \in {"connecting", "listening"}
    /\ polled \in 0..Len(topic) /\ position \in 0..polled
    /\ backoff \in {5, 10, 20, 40, 60}
    /\ fed \subseteq 1..Len(topic)
    /\ settled \subseteq Key
    /\ faults \in 0..MaxFaults /\ restarts \in 0..MaxRestarts

IngestInit ==
    /\ QueueInit
    /\ topic = <<>>
    /\ committed = NoOffset
    /\ link = "connecting"
    /\ position = 0 /\ polled = 0
    /\ backoff = 5
    /\ fed = {}
    /\ settled = {}
    /\ faults = 0 /\ restarts = 0

(* Another service publishes an upload.                                    *)
Publish ==
    /\ Len(topic) < MaxEvents
    /\ \E ev \in Published : topic' = Append(topic, ev)
    /\ UNCHANGED <<queueVars, committed, link, position, polled, backoff, fed,
                   settled, bounds>>

(* Faulty: auto_offset_reset = latest.                                     *)
LatestOffset == IF committed = NoOffset THEN Len(topic) ELSE committed

(* Where a new consumer starts: the committed offset of the group, or, by  *)
(* auto_offset_reset = earliest, the beginning of the topic.               *)
StartOffset == IF committed = NoOffset THEN 0 ELSE committed

Connect ==
    /\ link = "connecting"
    /\ link' = "listening"
    /\ position' = StartOffset /\ polled' = StartOffset
    /\ backoff' = 5
    /\ UNCHANGED <<queueVars, topic, committed, fed, settled, bounds>>

(* Faulty: the delay doubles without the cap.                              *)
DoubledBackoff == backoff * 2

(* min(retry_delay * 2, 60)                                                *)
NextBackoff == IF backoff * 2 < 60 THEN backoff * 2 ELSE 60

ConnectFails ==
    /\ link = "connecting"
    /\ backoff' = NextBackoff
    /\ UNCHANGED <<queueVars, topic, committed, link, position, polled, fed,
                   settled, bounds>>

(* The exception leaves the for loop; the next consumer object starts from *)
(* the committed offset.                                                   *)
DropConsumer ==
    /\ link' = "connecting"
    /\ position' = 0 /\ polled' = 0
    /\ backoff' = NextBackoff
    /\ UNCHANGED <<queueVars, topic, committed, fed, settled>>

ConnectionLost ==
    /\ link = "listening"
    /\ faults < MaxFaults
    /\ faults' = faults + 1
    /\ DropConsumer
    /\ UNCHANGED restarts

(* The events of the next batch, up to the n-th of the topic.  The client  *)
(* fetches it when everything it had decoded has been yielded.             *)
Fetched(n) == {topic[i] : i \in position + 1..n}
MayPoll == link = "listening" /\ position = polled

(* value_deserializer runs over the whole batch inside the poll, before    *)
(* the iterator yields the first of its events.                            *)
Poll ==
    /\ MayPoll
    /\ \E n \in position + 1..Len(topic) :
          /\ Poison \notin Fetched(n)
          /\ polled' = n
    /\ UNCHANGED <<queueVars, topic, committed, link, position, backoff, fed,
                   settled, bounds>>

(* It raises outside the try that protects _handle_event: the consumer is  *)
(* dropped, with the well-formed events of that batch still to be yielded. *)
DecodingFails ==
    /\ MayPoll
    /\ \E n \in position + 1..Len(topic) : Poison \in Fetched(n)
    /\ DropConsumer
    /\ UNCHANGED bounds

(* One iteration of the for loop: an event with a key and an id goes to    *)
(* add_s3 (or add), a malformed one is skipped.                            *)
Deliver ==
    /\ link = "listening"
    /\ position < polled
    /\ LET ev == topic[position + 1] IN
          \/ ev \in Entry /\ (Add(ev) \/ AddIgnored(ev))
          \/ ev = Malformed /\ UNCHANGED queueVars
    /\ position' = position + 1
    /\ fed' = fed \cup {position + 1}
    /\ UNCHANGED <<topic, committed, link, polled, backoff, settled, bounds>>

(* Faulty: commits what was fetched, not what the loop has been through.   *)
CommitFetched ==
    /\ link = "listening"
    /\ committed # polled
    /\ committed' = polled
    /\ UNCHANGED <<queueVars, topic, link, position, polled, backoff, fed,
                   settled, bounds>>

(* Nothing to read: the iterator keeps polling.                            *)
IdlePoll ==
    /\ MayPoll
    /\ position = Len(topic)
    /\ UNCHANGED ingestVars

(* enable_auto_commit: inside the poll, which comes when the loop has been *)
(* through the whole batch, the position is committed.                     *)
AutoCommit ==
    /\ MayPoll
    /\ committed # position
    /\ committed' = position
    /\ UNCHANGED <<queueVars, topic, link, position, polled, backoff, fed,
                   settled, bounds>>

(* The worker of TranscodeQueue; settled records the keys it is done with. *)
Work ==
    /\ Worker
    /\ settled' = IF item # None THEN settled \cup {KeyOf[item]} ELSE settled
    /\ UNCHANGED <<kafkaVars, bounds>>

(* The process dies: the queue and the consumer are gone.                  *)
ProcessRestart ==
    /\ restarts < MaxRestarts
    /\ restarts' = restarts + 1
    /\ Restart
    /\ link' = "connecting"
    /\ position' = 0 /\ polled' = 0
    /\ backoff' = 5
    /\ UNCHANGED <<topic, committed, fed, settled, faults>>

KafkaThread == Connect \/ Poll \/ DecodingFails \/ Deliver \/ AutoCommit

IngestNext ==
    \/ Publish
    \/ KafkaThread
    \/ IdlePoll
    \/ ConnectFails
    \/ ConnectionLost
    \/ Work
    \/ ProcessRestart

(* The two threads keep running, and Kafka does not refuse connections     *)
(* for ever; nobody has to publish, and nothing has to fail.               *)
IngestSpec ==
    /\ IngestInit /\ [][IngestNext]_ingestVars
    /\ WF_ingestVars(Connect)
    /\ WF_ingestVars(Deliver)
    /\ WF_ingestVars(AutoCommit)
    /\ WF_ingestVars(Poll \/ DecodingFails)
    /\ WF_ingestVars(Work)

-----------------------------------------------------------------------------
(* At-least-once into the queue: the group never commits past an event     *)
(* that no consumer handed to _handle_event, across lost connections and   *)
(* restarts (auto_offset_reset, enable_auto_commit).                       *)
AtLeastOnce == committed # NoOffset => 1..committed \subseteq fed

(* A message no consumer can decode lies in the topic.  It may come in one *)
(* batch with any of the events before it that are not committed, and then *)
(* each consumer dies before it has yielded the first of them.             *)
Poisoned == \E i \in 1..Len(topic) : topic[i] = Poison

(* "pick up events missed while offline" (kafka_consumer.py:75): every     *)
(* event published at any moment, the service being connected or not, is   *)
(* eventually handed to _handle_event, over lost connections and restarts, *)
(* as long as every message of the topic can be decoded.                   *)
EveryEventFed ==
    \A i \in 1..MaxEvents : Len(topic) >= i ~> i \in fed \/ Poisoned

(* "feeds incoming events into the existing TranscodeQueue so the          *)
(* file-watcher worker thread handles them" (kafka_consumer.py:4-5): the   *)
(* worker eventually finishes a job for every announced key, redelivery    *)
(* and refusal by add_s3 notwithstanding.                                  *)
Announced(k) == \E i \in 1..Len(topic) :
                    topic[i] \in Entry /\ KeyOf[topic[i]] = k
AnnouncedHandled == \A k \in Key : Announced(k) ~> k \in settled \/ Poisoned

(* The same as far as the code keeps it: until the process is restarted,   *)
(* which empties the queue after its offsets were committed.               *)
HandledUnlessRestarted ==
    \A k \in Key : Announced(k) ~> k \in settled \/ Poisoned \/ restarts > 0
=============================================================================
