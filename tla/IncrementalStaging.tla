------------------------- MODULE IncrementalStaging -------------------------
(***************************************************************************)
(* The way of an observation from the topic to the analytical layer:       *)
(* writers insert events into realtime_vehicle_positions, the retention    *)
(* worker deletes old rows there, and the dbt model                        *)
(* stg_realtime_vehicle_positions copies the rows above its watermark, the *)
(* greatest id it holds.                                                   *)
(*                                                                         *)
(* An id is drawn from the sequence when a row is inserted and becomes     *)
(* visible when its transaction commits.  Every such transaction begins    *)
(* with _ensure_table, whose ALTER TABLE takes ACCESS EXCLUSIVE on the     *)
(* table until it ends: it waits for other writers, for the retention      *)
(* worker and for dbt's query, and they wait for it.  Time is counted in   *)
(* days.  The broker, PostgreSQL's locks and dbt are modelled from how the *)
(* code uses them.                                                         *)
(***************************************************************************)
EXTENDS Integers, FiniteSetsExt

CONSTANTS
    Writers,       \* processes that insert: consumers, and hand-run ingestions
    EventIds,      \* events
    BrokerDays,    \* how long the topic keeps an event (REDPANDA_TOPIC_RETENTION_MS)
    SourceDays,    \* how long the table does (realtime_retention_days)
    MaxTime,       \* bound: the clock
    MaxId,         \* bound: ids drawn from the sequence
    MaxFaults      \* bound: aborted transactions and failed dbt runs

ASSUME StagingAssumption ==
    /\ BrokerDays \in Nat
    /\ SourceDays \in Nat /\ BrokerDays <= SourceDays
    /\ MaxTime \in Nat
    /\ MaxId \in Nat
    /\ MaxFaults \in Nat

VARIABLES
    clock,         \* now
    published,     \* the events published so far: [event, time]
    lastId,        \* the last id drawn from the table's sequence
    open,          \* the writers with an open transaction
    rows,          \* the rows each one inserted
    source,        \* the committed rows of realtime_vehicle_positions
    staged,        \* the rows of stg_realtime_vehicle_positions
    delta,         \* the rows the running dbt model selected
    running,       \* a dbt run has selected and not yet loaded
    faults         \* faults so far

writerVars == <<lastId, open, rows>>
dbtVars    == <<delta, running>>
vars       == <<clock, published, writerVars, source, staged, dbtVars, faults>>

Times == 0..MaxTime
Rows  == [id : 1..MaxId, event : EventIds, time : Times]

TypeOK ==
    /\ clock \in Times
    /\ published \subseteq [event : EventIds, time : Times]
    /\ lastId \in 0..MaxId
    /\ open \subseteq Writers
    /\ rows \in [Writers -> SUBSET Rows]
    /\ source \subseteq Rows
    /\ staged \subseteq Rows
    /\ delta \subseteq Rows
    /\ running \in BOOLEAN
    /\ ~running => delta = {}
    /\ faults \in 0..MaxFaults

Init ==
    /\ clock = 0
    /\ published = {}
    /\ lastId = 0
    /\ open = {}
    /\ rows = [w \in Writers |-> {}]
    /\ source = {}
    /\ staged = {}
    /\ delta = {}
    /\ running = FALSE
    /\ faults = 0

Fault ==
    /\ faults < MaxFaults
    /\ faults' = faults + 1

EventsIn(set) == {r.event : r \in set}

----------------------------------------------------------------------------
(* The topic.                                                              *)

Tick ==
    /\ clock < MaxTime
    /\ clock' = clock + 1
    /\ UNCHANGED <<published, writerVars, source, staged, dbtVars, faults>>

\* The producer publishes an event, stamped with the time of its feed.
Publish(e) ==
    /\ e \notin EventsIn(published)
    /\ published' = published \cup {[event |-> e, time |-> clock]}
    /\ UNCHANGED <<clock, writerVars, source, staged, dbtVars, faults>>

\* What a consumer may read, for the first time or again.
Replayable == {m \in published : clock - m.time <= BrokerDays}

----------------------------------------------------------------------------
(* Writers: insert_vehicle_positions.                                      *)

\* Mutant of Locked: the table is taken to exist, and is not locked.
NeverLocked == FALSE

\* A writer that has begun keeps everybody else out until it ends.
Locked == open # {}

\* The ALTER TABLE waits for the writers' and dbt's transactions.
Begin(w) ==
    /\ w \notin open
    /\ ~Locked
    /\ ~running
    /\ open' = open \cup {w}
    /\ UNCHANGED <<clock, published, lastId, rows, source, staged, dbtVars, faults>>

\* INSERT ... ON CONFLICT (event_id) DO NOTHING draws an id in any case.  The
\* unique index waits for another transaction that inserted the same event.
Insert(w, m) ==
    /\ w \in open
    /\ m \in Replayable
    /\ lastId < MaxId
    /\ \A v \in Writers \ {w} : m.event \notin EventsIn(rows[v])
    /\ lastId' = lastId + 1
    /\ rows' = IF m.event \in EventsIn(source \cup rows[w]) THEN rows
               ELSE [rows EXCEPT ![w] =
                        @ \cup {[id |-> lastId', event |-> m.event, time |-> m.time]}]
    /\ UNCHANGED <<clock, published, open, source, staged, dbtVars, faults>>

\* The transaction is over.
End(w) ==
    /\ open' = open \ {w}
    /\ rows' = [rows EXCEPT ![w] = {}]
    /\ UNCHANGED lastId

Commit(w) ==
    /\ w \in open
    /\ source' = source \cup rows[w]
    /\ End(w)
    /\ UNCHANGED <<clock, published, staged, dbtVars, faults>>

\* The ids of an aborted transaction are not drawn again.
Abort(w) ==
    /\ w \in open
    /\ Fault
    /\ End(w)
    /\ UNCHANGED <<clock, published, source, staged, dbtVars>>

----------------------------------------------------------------------------
(* Retention: the expired rows are deleted batch by batch.                 *)

\* Mutant of Expired: rows are kept for a shorter time than events.
ExpiredEarly == {r \in source : clock - r.time >= BrokerDays}

Expired == {r \in source : clock - r.time > SourceDays}

DeleteExpired ==
    /\ ~Locked
    /\ \E some \in SUBSET Expired \ {{}} : source' = source \ some
    /\ UNCHANGED <<clock, published, writerVars, staged, dbtVars, faults>>

----------------------------------------------------------------------------
(* dbt: stg_realtime_vehicle_positions.                                    *)

Watermark == Max({0} \cup {r.id : r \in staged})

\* Mutant of Above: the watermark is a timestamp.
AboveTime == {r \in source : \A s \in staged : r.time > s.time}

\* where id > coalesce((select max(observation_id) from {{ this }}), 0)
Above == {r \in source : r.id > Watermark}

\* The model's query, in one snapshot.  Its transaction keeps ACCESS SHARE on
\* the table until it ends.
Select ==
    /\ ~running
    /\ ~Locked
    /\ running' = TRUE
    /\ delta' = Above
    /\ UNCHANGED <<clock, published, writerVars, source, staged, faults>>

\* delete+insert with the unique key observation_id.
Load ==
    /\ running
    /\ running' = FALSE
    /\ staged' = {r \in staged : \A d \in delta : d.id # r.id} \cup delta
    /\ delta' = {}
    /\ UNCHANGED <<clock, published, writerVars, source, faults>>

\* Mutant of RunFails: the selection is kept for the next run.
RunFailsKeepsDelta ==
    /\ running
    /\ Fault
    /\ running' = FALSE
    /\ UNCHANGED <<clock, published, writerVars, source, staged, delta>>

\* The run fails before it loads, and its transaction is rolled back.
RunFails ==
    /\ running
    /\ Fault
    /\ running' = FALSE
    /\ delta' = {}
    /\ UNCHANGED <<clock, published, writerVars, source, staged>>

\* dbt build --full-refresh rebuilds the relation from the source.
FullRefresh ==
    /\ ~running
    /\ ~Locked
    /\ staged' = source
    /\ UNCHANGED <<clock, published, writerVars, source, dbtVars, faults>>

----------------------------------------------------------------------------

Write(w) ==
    \/ Begin(w) \/ Commit(w) \/ Abort(w)
    \/ (\E m \in published : Insert(w, m))

Dbt == Select \/ Load \/ RunFails \/ FullRefresh

Next ==
    \/ Tick \/ DeleteExpired \/ Dbt
    \/ \E e \in EventIds : Publish(e)
    \/ \E w \in Writers : Write(w)

Spec == Init /\ [][Next]_vars

\* Fairness: the model is run again and again and a run that began ends; a
\* writer's transaction ends.  Writers need not begin one, but leave dbt its
\* turn: PostgreSQL grants a lock in the order of the requests.
FairSpec ==
    /\ Spec
    /\ SF_vars(Select) /\ WF_vars(Load)
    /\ \A w \in Writers : WF_vars(Commit(w))

----------------------------------------------------------------------------
(* Properties.                                                             *)

\* The watermark passes over no row: one that is committed is staged, or its
\* id is above the watermark and the next run takes it, however late its
\* event was.
NothingIsPassedOver == \A r \in source : r \in staged \/ r.id > Watermark

\* A newly committed row has a higher id than every staged one, as
\* docs/dbt-incremental-processing.md has it, although ids are drawn before
\* the commit: only the table lock keeps two writers in order.
NewRowsAreAbove == [][\A r \in source' \ source : r.id > Watermark]_vars

\* The dbt test assert_stg_realtime_event_id_unique_when_present: no event is
\* staged twice, although events are replayed from the topic and their rows
\* deleted from the source, because the table outlives the topic.
StagedEventsAreUnique == \A r, s \in staged : r.event = s.event => r = s

\* Whatever fails, staging has all that is in the source again and again.  It
\* need not at any given moment: the dbt test of this, which runs some time
\* after the load, may find rows that writers committed in between
\* (docs/docker-runtime.md, "Existing dbt source-completeness test").
SourceIsLoaded == []<>(source \subseteq staged)

============================================================================
