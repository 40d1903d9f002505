--------------------------- MODULE VehicleConsumer ---------------------------
(***************************************************************************)
(* The consumer of ingestion/realtime/consumer.py: it polls vehicle        *)
(* position events from the topic, buffers the valid ones, writes a batch  *)
(* and its metric row to PostgreSQL in one transaction and only then       *)
(* commits offsets; malformed messages are written to the dead-letter      *)
(* table.  Any number of consumers share the consumer group.               *)
(*                                                                         *)
(* A message is its event id, or Malformed when consume_event or           *)
(* event_to_record rejects it.  An event id in Unstorable is one whose row *)
(* PostgreSQL always refuses (a NUL in a string, an integer out of range). *)
(* The broker, its group coordinator and PostgreSQL are modelled from how  *)
(* the code uses them.                                                     *)
(***************************************************************************)
EXTENDS Integers, Sequences, FiniteSetsExt

CONSTANTS
    Consumers,     \* consumer processes of the group
    Partitions,    \* partitions of the vehicle positions topic
    EventIds,      \* event_id values of well-formed events
    Malformed,     \* a message the validation rejects
    Unstorable,    \* the event ids whose row PostgreSQL never accepts
    PartitionOf,   \* the partition the producer's message key selects
    NoItem,        \* no message in hand
    NoLimit,       \* max_messages is None
    BatchSize,     \* batch_size (MBTA_CONSUMER_BATCH_SIZE)
    MaxMessages,   \* max_messages of each process: NoLimit or its --max-messages
    MaxLog,        \* bound: messages published per partition
    MaxFaults      \* bound: crashes, signals, fencings and broker errors

ASSUME ConsumerAssumption ==
    /\ Malformed \notin EventIds
    /\ Unstorable \subseteq EventIds
    /\ PartitionOf \in [EventIds -> Partitions]
    /\ NoItem \notin [partition : Partitions, offset : Nat]
    /\ BatchSize \in Nat \ {0}
    /\ NoLimit \notin Nat
    /\ MaxMessages \in [Consumers -> Nat \cup {NoLimit}]
    /\ MaxLog \in Nat
    /\ MaxFaults \in Nat

VARIABLES
    log,           \* the messages of each partition; offset o is log[p][o + 1]
    committed,     \* the group's committed offset of each partition
    group,         \* what the coordinator thinks of each consumer
    assigned,      \* the partitions each consumer fetches from
    position,      \* the next offset it fetches from each of them
    pc,            \* where the process is in consume_to_postgres
    next,          \* where it goes when the running flush_batch() succeeds
    batch,         \* the list batch
    message,       \* the malformed message being dead-lettered
    stop,          \* stop_event
    done,          \* committed_count
    rows,          \* event ids in realtime_vehicle_positions
    deadLetters,   \* items in realtime_vehicle_position_dead_letters
    metrics,       \* totals of realtime_pipeline_metrics
    faults         \* faults so far

brokerVars == <<log, committed>>
groupVars  == <<group, assigned, position>>
localVars  == <<pc, next, batch, message, stop, done>>
dbVars     == <<rows, deadLetters, metrics>>
vars       == <<brokerVars, groupVars, localVars, dbVars, faults>>

Messages == EventIds \cup {Malformed}

\* A message as the consumer sees it: its partition and its offset there.
Items == [partition : Partitions, offset : Nat]

MessageAt(item) == log[item.partition][item.offset + 1]

GroupStates == {"none", "joining", "member", "fenced"}

\* flush_batch runs at "persist" and "commit", dead_letter_and_commit at
\* "deadLetter" and "deadLetterCommit", consumer.close() at "close".
ControlStates == {"down", "loop", "poll", "persist", "commit",
                  "deadLetter", "deadLetterCommit", "close"}

TypeOK ==
    /\ log \in [Partitions -> Seq(Messages)]
    /\ committed \in [Partitions -> Nat]
    /\ group \in [Consumers -> GroupStates]
    /\ assigned \in [Consumers -> SUBSET Partitions]
    /\ position \in [Consumers -> [Partitions -> Nat]]
    /\ pc \in [Consumers -> ControlStates]
    /\ next \in [Consumers -> {"loop", "deadLetter", "close"}]
    /\ batch \in [Consumers -> Seq(Items)]
    /\ message \in [Consumers -> Items \cup {NoItem}]
    /\ stop \in [Consumers -> BOOLEAN]
    /\ done \in [Consumers -> Nat]
    /\ rows \subseteq EventIds
    /\ deadLetters \subseteq Items
    /\ metrics \in [persisted : Nat, dead : Nat]
    /\ faults \in Nat

Init ==
    /\ log = [p \in Partitions |-> <<>>]
    /\ committed = [p \in Partitions |-> 0]
    /\ group = [c \in Consumers |-> "none"]
    /\ assigned = [c \in Consumers |-> {}]
    /\ position = [c \in Consumers |-> [p \in Partitions |-> 0]]
    /\ pc = [c \in Consumers |-> "down"]
    /\ next = [c \in Consumers |-> "loop"]
    /\ batch = [c \in Consumers |-> <<>>]
    /\ message = [c \in Consumers |-> NoItem]
    /\ stop = [c \in Consumers |-> FALSE]
    /\ done = [c \in Consumers |-> 0]
    /\ rows = {}
    /\ deadLetters = {}
    /\ metrics = [persisted |-> 0, dead |-> 0]
    /\ faults = 0

Fault ==
    /\ faults < MaxFaults
    /\ faults' = faults + 1

----------------------------------------------------------------------------
(* The broker and its group coordinator.                                   *)

\* The producer appends a message; its key is the event id, so one event
\* always goes to one partition.
Publish(p, m) ==
    /\ Len(log[p]) < MaxLog
    /\ m # Malformed => PartitionOf[m] = p
    /\ log' = [log EXCEPT ![p] = Append(@, m)]
    /\ UNCHANGED <<committed, groupVars, localVars, dbVars, faults>>

\* The consumers that take part in a rebalance: it is served inside poll().
Joined == {c \in Consumers : group[c] \in {"joining", "member"} /\ pc[c] = "poll"}

\* The new owner of a partition starts at its committed offset.
Assign(owner) ==
    /\ assigned' = [c \in Consumers |->
                       IF c \in Joined THEN {p \in Partitions : owner[p] = c}
                                       ELSE assigned[c]]
    /\ position' = [c \in Consumers |-> [p \in Partitions |->
                       IF c \notin Joined THEN position[c][p]
                       ELSE IF owner[p] = c THEN committed[p] ELSE 0]]

\* An eager rebalance waits for every member and assigns every partition.
\* The batch of a member survives it: there is no on_revoke handler.
Rebalance ==
    /\ \A c \in Consumers : group[c] = "member" => c \in Joined
    /\ \/ \E c \in Joined : group[c] = "joining"
       \/ \E p \in Partitions : \A c \in Joined : p \notin assigned[c]
    /\ \E owner \in [Partitions -> Joined] : Assign(owner)
    /\ group' = [c \in Consumers |-> IF c \in Joined THEN "member" ELSE group[c]]
    /\ UNCHANGED <<brokerVars, localVars, dbVars, faults>>

\* The coordinator drops a member whose heartbeats or polls were late (its
\* session or max.poll.interval.ms ran out).  The process does not know yet:
\* it keeps polling and its commits fail.
Fence(c) ==
    /\ group[c] = "member"
    /\ Fault
    /\ group' = [group EXCEPT ![c] = "fenced"]
    /\ UNCHANGED <<brokerVars, assigned, position, localVars, dbVars>>

\* A dropped member learns it inside poll(), loses its partitions and joins
\* again; the batch stays.
Rejoin(c) ==
    /\ pc[c] = "poll"
    /\ group[c] = "fenced"
    /\ group' = [group EXCEPT ![c] = "joining"]
    /\ assigned' = [assigned EXCEPT ![c] = {}]
    /\ position' = [position EXCEPT ![c] = [p \in Partitions |-> 0]]
    /\ UNCHANGED <<brokerVars, localVars, dbVars, faults>>

----------------------------------------------------------------------------
(* The process: consume_to_postgres.                                       *)

\* A process (re)starts with an empty batch and subscribes; Compose restarts
\* it after every exit.
Start(c) ==
    /\ pc[c] = "down"
    /\ pc' = [pc EXCEPT ![c] = "loop"]
    /\ group' = [group EXCEPT ![c] = "joining"]
    /\ UNCHANGED <<brokerVars, assigned, position, next, batch, message, stop, done,
                   dbVars, faults>>

\* SIGTERM or SIGINT.
Signal(c) ==
    /\ pc[c] \notin {"down", "close"}
    /\ ~stop[c]
    /\ Fault
    /\ stop' = [stop EXCEPT ![c] = TRUE]
    /\ UNCHANGED <<brokerVars, groupVars, pc, next, batch, message, done, dbVars>>

\* The process is gone: what it held in memory with it, and its membership.
Gone(c) ==
    /\ pc' = [pc EXCEPT ![c] = "down"]
    /\ group' = [group EXCEPT ![c] = "none"]
    /\ assigned' = [assigned EXCEPT ![c] = {}]
    /\ position' = [position EXCEPT ![c] = [p \in Partitions |-> 0]]
    /\ next' = [next EXCEPT ![c] = "loop"]
    /\ batch' = [batch EXCEPT ![c] = <<>>]
    /\ message' = [message EXCEPT ![c] = NoItem]
    /\ stop' = [stop EXCEPT ![c] = FALSE]
    /\ done' = [done EXCEPT ![c] = 0]
    /\ UNCHANGED <<brokerVars, dbVars>>

Crash(c) == pc[c] # "down" /\ Fault /\ Gone(c)

Close(c) == pc[c] = "close" /\ UNCHANGED faults /\ Gone(c)

\* flush_batch(), then k: an empty batch is flushed at once.
FlushThen(c, k) ==
    IF batch[c] = <<>> THEN pc' = [pc EXCEPT ![c] = k] /\ UNCHANGED next
    ELSE /\ pc' = [pc EXCEPT ![c] = "persist"]
         /\ next' = [next EXCEPT ![c] = k]

\* A process started by hand, with --max-messages.
Limited(c) == MaxMessages[c] # NoLimit

\* Mutant of LimitReached: off by one.
LimitPassed(c) == Limited(c) /\ done[c] + Len(batch[c]) > MaxMessages[c]

LimitReached(c) == Limited(c) /\ done[c] + Len(batch[c]) >= MaxMessages[c]

\* The head of the loop: the stop event or --max-messages ends it, with a
\* last flush; otherwise the process polls.
LoopHead(c) ==
    /\ pc[c] = "loop"
    /\ IF stop[c] \/ LimitReached(c)
       THEN FlushThen(c, "close")
       ELSE pc' = [pc EXCEPT ![c] = "poll"] /\ UNCHANGED next
    /\ UNCHANGED <<brokerVars, groupVars, batch, message, stop, done, dbVars, faults>>

\* poll() returns the next message of an assigned partition.
Fetch(c, p) ==
    /\ pc[c] = "poll"
    /\ p \in assigned[c]
    /\ position[c][p] < Len(log[p])
    /\ position' = [position EXCEPT ![c][p] = @ + 1]

Fetched(c, p) == [partition |-> p, offset |-> position[c][p]]

\* A valid event joins the batch, which is flushed when it is full.
PollValid(c, p) ==
    /\ Fetch(c, p)
    /\ MessageAt(Fetched(c, p)) # Malformed
    /\ batch' = [batch EXCEPT ![c] = Append(@, Fetched(c, p))]
    /\ IF Len(batch'[c]) >= BatchSize
       THEN /\ pc' = [pc EXCEPT ![c] = "persist"]
            /\ next' = [next EXCEPT ![c] = "loop"]
       ELSE /\ pc' = [pc EXCEPT ![c] = "loop"]
            /\ UNCHANGED next
    /\ UNCHANGED <<brokerVars, group, assigned, message, stop, done, dbVars, faults>>

\* Mutant of PollMalformed: the batch is not flushed first.
PollMalformedUnflushed(c, p) ==
    /\ Fetch(c, p)
    /\ MessageAt(Fetched(c, p)) = Malformed
    /\ message' = [message EXCEPT ![c] = Fetched(c, p)]
    /\ pc' = [pc EXCEPT ![c] = "deadLetter"]
    /\ UNCHANGED <<brokerVars, group, assigned, next, batch, stop, done, dbVars, faults>>

\* A malformed message: the batch before it is flushed first.
PollMalformed(c, p) ==
    /\ Fetch(c, p)
    /\ MessageAt(Fetched(c, p)) = Malformed
    /\ message' = [message EXCEPT ![c] = Fetched(c, p)]
    /\ FlushThen(c, "deadLetter")
    /\ UNCHANGED <<brokerVars, group, assigned, batch, stop, done, dbVars, faults>>

\* Mutants of PollNothing: an empty poll keeps the partial batch; it does not
\* end a run with --max-messages.
PollNothingKeepsBatch(c) ==
    /\ pc[c] = "poll"
    /\ pc' = [pc EXCEPT ![c] = "loop"]
    /\ UNCHANGED <<brokerVars, groupVars, next, batch, message, stop, done, dbVars, faults>>

PollNothingGoesOn(c) ==
    /\ pc[c] = "poll"
    /\ FlushThen(c, "loop")
    /\ UNCHANGED <<brokerVars, groupVars, batch, message, stop, done, dbVars, faults>>

\* poll() times out, even with messages waiting (a slow broker): flush; with
\* --max-messages this also ends the loop.
PollNothing(c) ==
    /\ pc[c] = "poll"
    /\ FlushThen(c, IF Limited(c) THEN "close" ELSE "loop")
    /\ UNCHANGED <<brokerVars, groupVars, batch, message, stop, done, dbVars, faults>>

\* poll() returns an error event (a dropped member gets one when it exceeded
\* max.poll.interval.ms): raised, and the finally clause flushes the batch.
PollRaises(c) ==
    /\ pc[c] = "poll"
    /\ IF group[c] = "fenced" THEN UNCHANGED faults ELSE Fault
    /\ FlushThen(c, "close")
    /\ UNCHANGED <<brokerVars, groupVars, batch, message, stop, done, dbVars>>

----------------------------------------------------------------------------
(* flush_batch: persist_and_commit_batch.                                  *)

BatchItems(c) == {batch[c][i] : i \in 1..Len(batch[c])}

EventsOf(items) == {MessageAt(item) : item \in items}

\* Mutant of NextOffset: the wrong side of the last message.
OffsetBefore(items, p) ==
    Max({item.offset - 1 : item \in {i \in items : i.partition = p}})

\* offsets_for_batch: one past the last offset of the batch in partition p.
NextOffset(items, p) ==
    Max({item.offset + 1 : item \in {i \in items : i.partition = p}})

OffsetsFor(items) ==
    [p \in {item.partition : item \in items} |-> NextOffset(items, p)]

\* The metric row of the transaction, which the totals add up.
CountMetric(kind, n) == metrics' = [metrics EXCEPT ![kind] = @ + n]

\* Mutant of InsertRows: the metric counts the batch, not the new rows.
InsertRowsCountsBatch(c) ==
    /\ EventsOf(BatchItems(c)) \cap Unstorable = {}
    /\ rows' = rows \cup EventsOf(BatchItems(c))
    /\ CountMetric("persisted", Len(batch[c]))
    /\ UNCHANGED deadLetters

\* The one transaction of insert_vehicle_positions_with_metric: new rows (ON
\* CONFLICT DO NOTHING) and the metric row that counts them.
InsertRows(c) ==
    LET new == EventsOf(BatchItems(c)) \ rows
    IN  /\ EventsOf(BatchItems(c)) \cap Unstorable = {}
        /\ rows' = rows \cup new
        /\ CountMetric("persisted", Cardinality(new))
        /\ UNCHANGED deadLetters

\* Mutant of FlushFails: the loop goes on without the cleared batch.
FlushFailsGoesOn(c) ==
    /\ batch' = [batch EXCEPT ![c] = <<>>]
    /\ message' = [message EXCEPT ![c] = NoItem]
    /\ pc' = [pc EXCEPT ![c] = "loop"]

\* The flush has failed: the batch is cleared and the loop ends.
FlushFails(c) ==
    /\ batch' = [batch EXCEPT ![c] = <<>>]
    /\ message' = [message EXCEPT ![c] = NoItem]
    /\ pc' = [pc EXCEPT ![c] = "close"]

PersistBatch(c) ==
    /\ pc[c] = "persist"
    /\ InsertRows(c)
    /\ pc' = [pc EXCEPT ![c] = "commit"]
    /\ UNCHANGED <<brokerVars, groupVars, next, batch, message, stop, done, faults>>

\* The transaction committed but its outcome was lost with the connection:
\* the client sees psycopg.Error and tries again, unless it must stop.
PersistOutcomeLost(c) ==
    /\ pc[c] = "persist"
    /\ InsertRows(c)
    /\ IF stop[c] THEN FlushFails(c) ELSE UNCHANGED <<pc, batch, message>>
    /\ UNCHANGED <<brokerVars, groupVars, next, stop, done, faults>>

\* An attempt fails.  Before the stop event is set the process waits and
\* tries again, for ever, and nothing changes; after it, it gives up.
PersistGivesUp(c) ==
    /\ pc[c] = "persist"
    /\ stop[c]
    /\ FlushFails(c)
    /\ UNCHANGED <<brokerVars, groupVars, next, stop, done, dbVars, faults>>

\* The coordinator stores the offsets of a current member, whether or not it
\* still owns the partitions, and never compares them with the stored ones:
\* a batch that outlived a rebalance can move them on, and the messages that
\* are polled again can move them back.
StoreOffsets(c, offsets) ==
    /\ group[c] = "member"
    /\ committed' = [p \in Partitions |->
                        IF p \in DOMAIN offsets THEN offsets[p] ELSE committed[p]]

\* commit() raises: always for a dropped member, otherwise the broker failed,
\* before or after it stored the offsets.
CommitRaises(c, offsets) ==
    \/ /\ group[c] # "member"
       /\ UNCHANGED <<committed, faults>>
    \/ /\ group[c] = "member"
       /\ Fault
       /\ UNCHANGED committed
    \/ Fault /\ StoreOffsets(c, offsets)

\* Mutant of CommitBatch: the offsets of the position, not of the batch.
CommitPosition(c) ==
    /\ pc[c] = "commit"
    /\ StoreOffsets(c, [p \in assigned[c] |-> position[c][p]])
    /\ done' = [done EXCEPT ![c] = @ + Len(batch[c])]
    /\ batch' = [batch EXCEPT ![c] = <<>>]
    /\ pc' = [pc EXCEPT ![c] = next[c]]
    /\ UNCHANGED <<log, groupVars, next, message, stop, dbVars, faults>>

CommitBatch(c) ==
    /\ pc[c] = "commit"
    /\ StoreOffsets(c, OffsetsFor(BatchItems(c)))
    /\ done' = [done EXCEPT ![c] = @ + Len(batch[c])]
    /\ batch' = [batch EXCEPT ![c] = <<>>]
    /\ pc' = [pc EXCEPT ![c] = next[c]]
    /\ UNCHANGED <<log, groupVars, next, message, stop, dbVars, faults>>

CommitBatchRaises(c) ==
    /\ pc[c] = "commit"
    /\ CommitRaises(c, OffsetsFor(BatchItems(c)))
    /\ FlushFails(c)
    /\ UNCHANGED <<log, groupVars, next, stop, done, dbVars>>

----------------------------------------------------------------------------
(* dead_letter_and_commit.                                                 *)

\* The transaction of insert_dead_letter_with_metric, unique per message.
InsertDeadLetter(c) ==
    LET new == {message[c]} \ deadLetters
    IN  /\ deadLetters' = deadLetters \cup new
        /\ CountMetric("dead", Cardinality(new))
        /\ UNCHANGED rows

PersistDeadLetter(c) ==
    /\ pc[c] = "deadLetter"
    /\ InsertDeadLetter(c)
    /\ pc' = [pc EXCEPT ![c] = "deadLetterCommit"]
    /\ UNCHANGED <<brokerVars, groupVars, next, batch, message, stop, done, faults>>

DeadLetterOutcomeLost(c) ==
    /\ pc[c] = "deadLetter"
    /\ InsertDeadLetter(c)
    /\ IF stop[c] THEN FlushFails(c) ELSE UNCHANGED <<pc, batch, message>>
    /\ UNCHANGED <<brokerVars, groupVars, next, stop, done, faults>>

DeadLetterGivesUp(c) ==
    /\ pc[c] = "deadLetter"
    /\ stop[c]
    /\ FlushFails(c)
    /\ UNCHANGED <<brokerVars, groupVars, next, stop, done, dbVars, faults>>

DeadLetterOffset(c) == [p \in {message[c].partition} |-> message[c].offset + 1]

CommitDeadLetter(c) ==
    /\ pc[c] = "deadLetterCommit"
    /\ StoreOffsets(c, DeadLetterOffset(c))
    /\ done' = [done EXCEPT ![c] = @ + 1]
    /\ message' = [message EXCEPT ![c] = NoItem]
    /\ pc' = [pc EXCEPT ![c] = "loop"]
    /\ UNCHANGED <<log, groupVars, next, batch, stop, dbVars, faults>>

CommitDeadLetterRaises(c) ==
    /\ pc[c] = "deadLetterCommit"
    /\ CommitRaises(c, DeadLetterOffset(c))
    /\ FlushFails(c)
    /\ UNCHANGED <<log, groupVars, next, stop, done, dbVars>>

----------------------------------------------------------------------------

Flush(c) ==
    \/ PersistBatch(c) \/ PersistOutcomeLost(c) \/ PersistGivesUp(c)
    \/ CommitBatch(c) \/ CommitBatchRaises(c)

DeadLetter(c) ==
    \/ PersistDeadLetter(c) \/ DeadLetterOutcomeLost(c) \/ DeadLetterGivesUp(c)
    \/ CommitDeadLetter(c) \/ CommitDeadLetterRaises(c)

Poll(c) ==
    \/ \E p \in Partitions : PollValid(c, p) \/ PollMalformed(c, p)
    \/ PollNothing(c) \/ PollRaises(c)

Process(c) ==
    \/ Start(c) \/ Signal(c) \/ Crash(c) \/ Close(c)
    \/ LoopHead(c) \/ Poll(c) \/ Flush(c) \/ DeadLetter(c)

Next ==
    \/ \E p \in Partitions, m \in Messages : Publish(p, m)
    \/ Rebalance
    \/ \E c \in Consumers : Fence(c) \/ Rejoin(c) \/ Process(c)

Spec == Init /\ [][Next]_vars

(***************************************************************************)
(* Fairness.  A process that is not blocked goes on, Compose restarts the  *)
(* unlimited ones, and PostgreSQL accepts a transaction in the end (the    *)
(* retry loop has no limit).  Polling is a loop with a five-second         *)
(* timeout, so what needs a consumer inside poll() gets strong fairness: a *)
(* waiting message is returned by some poll, a pending rebalance or rejoin *)
(* is served by one.  Nobody has to start a process with --max-messages.   *)
(***************************************************************************)
Continue(c) ==
    \/ LoopHead(c) \/ PollNothing(c) \/ Close(c)
    \/ PersistBatch(c) \/ CommitBatch(c) \/ CommitBatchRaises(c)
    \/ PersistDeadLetter(c) \/ CommitDeadLetter(c) \/ CommitDeadLetterRaises(c)

Fairness ==
    /\ SF_vars(Rebalance)
    /\ \A c \in Consumers :
          /\ ~Limited(c) => WF_vars(Start(c))
          /\ WF_vars(Continue(c))
          /\ SF_vars(Rejoin(c))
          /\ \A p \in Partitions : SF_vars(PollValid(c, p) \/ PollMalformed(c, p))

FairSpec == Spec /\ Fairness

----------------------------------------------------------------------------
(* Properties.                                                             *)

\* A message is durable once PostgreSQL holds its row or its dead letter.
Durable(item) ==
    /\ item.offset < Len(log[item.partition])
    /\ IF MessageAt(item) = Malformed THEN item \in deadLetters
                                      ELSE MessageAt(item) \in rows

\* The consumer still holds the message, in its batch or as the message it is
\* dead-lettering.
InHand(c, item) == item \in BatchItems(c) \/ item = message[c]

Earlier(item) == {[partition |-> item.partition, offset |-> o] : o \in 0..(item.offset - 1)}

\* No event is lost: whatever crashes, retries, lost outcomes, fencings and
\* rebalances happened, every message below the committed offset is durable,
\* so no restart skips one (README.md: offsets advance after the durable write).
CommittedIsDurable ==
    \A p \in Partitions :
        \A item \in Earlier([partition |-> p, offset |-> committed[p]]) : Durable(item)

\* A consumer that fetches from a partition never passes over a message: each
\* one below its position is durable or still in its hands, until it closes.
PolledIsDurableOrInHand ==
    \A c \in Consumers : pc[c] # "close" =>
        \A p \in assigned[c] :
            \A item \in Earlier([partition |-> p, offset |-> position[c][p]]) :
                Durable(item) \/ InHand(c, item)

\* The metric rows agree with the tables: their totals count every row and
\* every dead letter exactly once, replays and lost outcomes included.
MetricsAgreeWithTables ==
    /\ metrics.persisted = Cardinality(rows)
    /\ metrics.dead = Cardinality(deadLetters)

\* --max-messages is never exceeded by what is committed, batched and in hand.
LimitRespected ==
    \A c \in Consumers : Limited(c) =>
        done[c] + Len(batch[c]) + (IF message[c] = NoItem THEN 0 ELSE 1) <= MaxMessages[c]

\* Every published message becomes durable, whatever happened in between.
EveryMessageBecomesDurable ==
    \A p \in Partitions, o \in 0..(MaxLog - 1) :
        o < Len(log[p]) ~> Durable([partition |-> p, offset |-> o])

\* A run with --max-messages always ends.
LimitedRunEnds ==
    \A c \in Consumers : Limited(c) => (pc[c] = "loop" ~> pc[c] = "down")

DurableItems ==
    {item \in UNION {Earlier([partition |-> p, offset |-> Len(log[p])]) : p \in Partitions} :
        Durable(item)}

\* The consumer implements EventSink: its broker and tables behave as a sink
\* whose acknowledged offsets cover stored messages only.
Sink == INSTANCE EventSink WITH
            length  <- [p \in Partitions |-> Len(log[p])],
            durable <- DurableItems,
            acked   <- committed

SinkSpec == Sink!Spec

============================================================================
