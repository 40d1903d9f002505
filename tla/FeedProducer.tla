---------------------------- MODULE FeedProducer ----------------------------
(***************************************************************************)
(* The producer of ingestion/realtime/producer.py: every cycle downloads   *)
(* the vehicle positions feed, saves the payload, publishes one event per  *)
(* vehicle through an asynchronous Kafka client, waits for the delivery    *)
(* reports and records the ingestion in PostgreSQL.                        *)
(*                                                                         *)
(* The feed is a sequence of snapshots; consecutive snapshots may repeat   *)
(* an event, since event_id is a digest of the observation.  The feed      *)
(* server, the Kafka client's queue, the broker and PostgreSQL are         *)
(* modelled from how the code uses them.                                   *)
(***************************************************************************)
EXTENDS Integers, FiniteSetsExt

CONSTANTS
    EventsIn,      \* the events of each snapshot, numbered from 1
    Unparsable,    \* the snapshots whose payload is not a feed message
    InitialDelay,  \* INITIAL_RETRY_DELAY_SECONDS
    MaxDelay,      \* MAX_RETRY_DELAY_SECONDS
    MaxFaults,     \* bound: failures of the broker, PostgreSQL and the host,
                   \* and signals
    MaxFailures    \* bound: the transient HTTP failures in a row that are counted

Snapshots == DOMAIN EventsIn
Events    == UNION {EventsIn[s] : s \in Snapshots}
Last      == Max(Snapshots)

ASSUME ProducerAssumption ==
    /\ Last \in Nat \ {0} /\ Snapshots = 1..Last
    /\ Unparsable \subseteq Snapshots
    /\ InitialDelay \in Nat \ {0}
    /\ MaxDelay \in Nat /\ MaxDelay >= InitialDelay
    /\ MaxFaults \in Nat
    /\ MaxFailures \in Nat /\ InitialDelay * 2^MaxFailures >= MaxDelay

VARIABLES
    feed,          \* the snapshot the server returns now
    pc,            \* where the process is in run_continuously
    stop,          \* shutdown, the event the signal handlers set
    current,       \* the snapshot of this cycle
    delay,         \* retry_delay
    queue,         \* the client's queue; late: of an earlier produce_events call
    failed,        \* delivery_errors of the last call is not empty
    topic,         \* the events in the topic
    raw,           \* the snapshots whose payload file is complete
    metadata,      \* the snapshots with a row in raw.ingestion_metadata
    failures,      \* history: transient HTTP failures since anything else
    faults         \* faults so far

clientVars == <<queue, failed>>
cycleVars  == <<current, delay, failures>>
vars       == <<feed, pc, stop, cycleVars, clientVars, topic, raw, metadata, faults>>

\* fetch_feed and parse_feed run at "fetch", produce_events at "produce" and
\* "flush", record_ingestion at "record"; shutdown.wait() is at "wait", the
\* finally clause at "close".  "down" follows an exit: stopped, or to be
\* restarted by Compose.
ControlStates == {"down", "loop", "fetch", "produce", "flush", "record", "wait", "close"}

TypeOK ==
    /\ feed \in Snapshots
    /\ pc \in ControlStates
    /\ stop \in BOOLEAN
    /\ current \in Snapshots
    /\ delay \in InitialDelay..MaxDelay
    /\ queue \subseteq [event : Events, late : BOOLEAN]
    /\ failed \in BOOLEAN
    /\ topic \subseteq Events
    /\ raw \subseteq Snapshots
    /\ metadata \subseteq Snapshots
    /\ failures \in 0..MaxFailures
    /\ faults \in Nat

Init ==
    /\ feed = 1
    /\ pc = "down"
    /\ stop = FALSE
    /\ current = 1
    /\ delay = InitialDelay
    /\ queue = {}
    /\ failed = FALSE
    /\ topic = {}
    /\ raw = {}
    /\ metadata = {}
    /\ failures = 0
    /\ faults = 0

Fault ==
    /\ faults < MaxFaults
    /\ faults' = faults + 1

----------------------------------------------------------------------------
(* The feed server and the Kafka client.                                   *)

\* MBTA publishes the next snapshot.
Advance ==
    /\ feed < Last
    /\ feed' = feed + 1
    /\ UNCHANGED <<pc, stop, cycleVars, clientVars, topic, raw, metadata, faults>>

\* The broker acknowledges a queued message.
Deliver(m) ==
    /\ m \in queue
    /\ topic' = topic \cup {m.event}
    /\ queue' = queue \ {m}
    /\ UNCHANGED <<feed, pc, stop, cycleVars, failed, raw, metadata, faults>>

\* The delivery of a message times out, with or without the message in the
\* topic; the callback notes the error for the call that produced it.
Undeliver(m) ==
    /\ m \in queue
    /\ Fault
    /\ topic' \in {topic, topic \cup {m.event}}
    /\ queue' = queue \ {m}
    /\ failed' = (failed \/ ~m.late)
    /\ UNCHANGED <<feed, pc, stop, cycleVars, raw, metadata>>

----------------------------------------------------------------------------
(* How a cycle ends.                                                       *)

\* A transient HTTP failure doubles the delay, up to MaxDelay.
TransientFailure ==
    /\ pc' = "wait"
    /\ delay' = Min({delay * 2, MaxDelay})
    /\ failures' = Min({failures + 1, MaxFailures})

\* Mutant of OtherFailure: the delay is kept.
OtherFailureKeepsDelay ==
    /\ pc' = "wait"
    /\ UNCHANGED delay
    /\ failures' = 0

\* Any other failure the loop catches (RequestException, DecodeError,
\* KafkaException, RuntimeError) waits for the poll interval.
OtherFailure ==
    /\ pc' = "wait"
    /\ delay' = InitialDelay
    /\ failures' = 0

\* A cycle that succeeds.
Success ==
    /\ pc' = "wait"
    /\ delay' = InitialDelay
    /\ failures' = 0

\* An exception the loop does not catch ends it through the finally clause.
Uncaught ==
    /\ pc' = "close"
    /\ UNCHANGED <<delay, failures>>

----------------------------------------------------------------------------
(* The process: run_continuously.                                          *)

\* Compose restarts the process after any exit but a stop, an operator after
\* a stop.
Start ==
    /\ pc = "down"
    /\ pc' = "loop"
    /\ stop' = FALSE
    /\ delay' = InitialDelay
    /\ failures' = 0
    /\ UNCHANGED <<feed, current, clientVars, topic, raw, metadata, faults>>

\* SIGTERM or SIGINT.
Signal ==
    /\ pc # "down"
    /\ ~stop
    /\ Fault
    /\ stop' = TRUE
    /\ UNCHANGED <<feed, pc, cycleVars, clientVars, topic, raw, metadata>>

\* The process is killed; what the client had queued may have been sent.
Crash ==
    /\ pc # "down"
    /\ Fault
    /\ pc' = "down"
    /\ topic' \in {topic \cup {m.event : m \in sent} : sent \in SUBSET queue}
    /\ queue' = {}
    /\ failed' = FALSE
    /\ UNCHANGED <<feed, stop, cycleVars, raw, metadata>>

\* Mutant of LoopHead: the event is not looked at.
LoopHeadGoesOn ==
    /\ pc = "loop"
    /\ pc' = "fetch"
    /\ UNCHANGED <<feed, stop, cycleVars, clientVars, topic, raw, metadata, faults>>

LoopHead ==
    /\ pc = "loop"
    /\ pc' = IF stop THEN "close" ELSE "fetch"
    /\ UNCHANGED <<feed, stop, cycleVars, clientVars, topic, raw, metadata, faults>>

\* Mutant of Fetch: a payload that was saved before is not published again.
FetchOnce ==
    /\ pc = "fetch"
    /\ current' = feed
    /\ raw' = raw \cup {feed}
    /\ IF feed \in raw \cup Unparsable THEN OtherFailure
       ELSE pc' = "produce" /\ UNCHANGED <<delay, failures>>
    /\ UNCHANGED <<feed, stop, clientVars, topic, metadata, faults>>

\* fetch_feed downloads and saves the payload; parse_feed may reject it.
Fetch ==
    /\ pc = "fetch"
    /\ current' = feed
    /\ raw' = raw \cup {feed}
    /\ IF feed \in Unparsable THEN OtherFailure
       ELSE pc' = "produce" /\ UNCHANGED <<delay, failures>>
    /\ UNCHANGED <<feed, stop, clientVars, topic, metadata, faults>>

\* A timeout, a connection error, or one of the transient status codes.
FetchTransient ==
    /\ pc = "fetch"
    /\ TransientFailure
    /\ UNCHANGED <<feed, stop, current, clientVars, topic, raw, metadata, faults>>

\* Another status code; or the payload cannot be written, which is uncaught.
FetchFails ==
    /\ pc = "fetch"
    /\ Fault
    /\ OtherFailure \/ Uncaught
    /\ UNCHANGED <<feed, stop, current, clientVars, topic, raw, metadata>>

\* A call of produce_events queues these events with a callback of its own;
\* what earlier calls queued becomes late.
Enqueue(events) ==
    /\ queue' = [event : {m.event : m \in queue}, late : {TRUE}]
                    \cup [event : events, late : {FALSE}]
    /\ failed' = FALSE

\* produce_events queues every event of the snapshot and flushes.
Produce ==
    /\ pc = "produce"
    /\ Enqueue(EventsIn[current])
    /\ pc' = "flush"
    /\ UNCHANGED <<feed, stop, cycleVars, topic, raw, metadata, faults>>

\* produce() raises after some events were queued, which stay there:
\* KafkaException is caught, BufferError (a full queue) is not.
ProduceRaises ==
    /\ pc = "produce"
    /\ Fault
    /\ \E some \in SUBSET EventsIn[current] : Enqueue(some)
    /\ OtherFailure \/ Uncaught
    /\ UNCHANGED <<feed, stop, current, topic, raw, metadata>>

\* Mutant of Flush: the delivery errors are not looked at.
FlushIgnoresErrors ==
    /\ pc = "flush"
    /\ queue = {}
    /\ pc' = "record"
    /\ UNCHANGED <<feed, stop, cycleVars, clientVars, topic, raw, metadata, faults>>

\* flush() returns once the queue is empty, messages of earlier calls
\* included; an error of this call raises RuntimeError.
Flush ==
    /\ pc = "flush"
    /\ queue = {}
    /\ IF failed THEN OtherFailure
       ELSE pc' = "record" /\ UNCHANGED <<delay, failures>>
    /\ UNCHANGED <<feed, stop, current, clientVars, topic, raw, metadata, faults>>

\* record_ingestion.
Record ==
    /\ pc = "record"
    /\ metadata' = metadata \cup {current}
    /\ Success
    /\ UNCHANGED <<feed, stop, current, clientVars, topic, raw, faults>>

\* PostgreSQL is down: psycopg.Error is not in the list the loop catches.
RecordFails ==
    /\ pc = "record"
    /\ Fault
    /\ Uncaught
    /\ UNCHANGED <<feed, stop, current, clientVars, topic, raw, metadata>>

\* shutdown.wait(delay) is over.
Wait ==
    /\ pc = "wait"
    /\ pc' = "loop"
    /\ UNCHANGED <<feed, stop, cycleVars, clientVars, topic, raw, metadata, faults>>

\* The finally clause flushes the client, and the process exits.
Close ==
    /\ pc = "close"
    /\ queue = {}
    /\ pc' = "down"
    /\ failed' = FALSE
    /\ UNCHANGED <<feed, stop, cycleVars, queue, topic, raw, metadata, faults>>

Client == \E m \in queue : Deliver(m) \/ Undeliver(m)

Process ==
    \/ Start \/ Signal \/ Crash \/ LoopHead \/ Wait \/ Close
    \/ Fetch \/ FetchTransient \/ FetchFails
    \/ Produce \/ ProduceRaises \/ Flush \/ Record \/ RecordFails

Next == Advance \/ Client \/ Process

Spec == Init /\ [][Next]_vars

(***************************************************************************)
(* Fairness.  A process that is not blocked goes on and Compose restarts   *)
(* it; every delivery is acknowledged or times out.  The feed server       *)
(* answers some request of those repeated for ever; nothing obliges MBTA   *)
(* to publish another snapshot, nor an operator to start a stopped         *)
(* process.                                                                *)
(***************************************************************************)
Fairness ==
    /\ WF_vars(Start /\ ~stop)
    /\ WF_vars(LoopHead \/ Wait \/ Close \/ Produce \/ Flush \/ Record)
    /\ WF_vars(Fetch \/ FetchTransient)
    /\ SF_vars(Fetch)
    /\ \A m \in [event : Events, late : BOOLEAN] : WF_vars(Deliver(m))

FairSpec == Spec /\ Fairness

----------------------------------------------------------------------------
(* Properties.                                                             *)

\* What the ingestion metadata says is published is in the topic and can be
\* traced to its payload: a snapshot gets its row only when its file is saved
\* and all its events were delivered, whatever the callbacks of earlier calls
\* report in between.
RecordedIsPublished == \A s \in metadata : s \in raw /\ EventsIn[s] \subseteq topic

\* The retry delay is InitialDelay doubled for every transient failure since
\* anything else happened, and never more than MaxDelay.
BackoffMatchesFailures == delay = Min({InitialDelay * 2^failures, MaxDelay})

\* The newest snapshot reaches the topic, whatever failed before, unless an
\* operator stops the producer.
NewestIsPublished ==
    feed = Last ~> EventsIn[Last] \subseteq topic \/ (pc = "down" /\ stop)

\* A signal ends the process, whatever cycle it interrupts and whatever the
\* client still has queued.
SignalStops == stop ~> pc = "down"

\* PostgreSQL being unavailable does not end the polling of the feed
\* (README.md: Redpanda decouples MBTA polling from PostgreSQL availability).
PollingSurvivesOutage == [][pc = "record" /\ pc' = "close" => stop]_vars

============================================================================
