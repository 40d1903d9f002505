# Verification of the transit data platform

TLA+ models of the platform's stateful parts, TLC runs that check them on small instances, and
TLAPS proofs of the safety of each. Paths are relative to the repository's root.

The platform polls MBTA's vehicle positions, publishes them to Redpanda, writes them to PostgreSQL,
archives and prunes them, copies them to the analytical layer with dbt, loads the static GTFS
timetable once a day, and backs PostgreSQL up to S3. Every part is a Python process or a SQL model;
they meet in the topic, the tables, the raw directory and the bucket, not in shared memory. What is
hard about them is therefore order and failure: a process can die, lose its connection or be told to
stop between any two effects it has on those stores, and several processes work on the same ones.

## Inventory

| Component | Code | State | Operations | Module |
|---|---|---|---|---|
| Realtime consumer | `ingestion/realtime/consumer.py`, `dead_letter.py`, `metrics.py` | group membership, position, batch, the message in hand; the rows, dead letters and metrics it writes; committed offsets | poll, validate, flush (insert, commit), dead-letter, retry, stop, close | `VehicleConsumer`, `EventSink` |
| Realtime producer | `ingestion/realtime/producer.py`, `vehicle_positions.py`, `metadata.py` | retry delay, the client's queue, raw files, ingestion metadata | fetch and save, parse, produce, flush, record, back off | `FeedProducer` |
| Retention worker | `ingestion/retention.py`, `raw_archive.py`, `s3_archive.py` | cutoff, batch, open transaction, list of files | select, archive, delete, commit; list, archive, unlink | `Retention` |
| Incremental staging | `dbt/models/staging/stg_realtime_vehicle_positions.sql` | the staged rows, whose greatest id is the watermark | incremental run, full refresh | `IncrementalStaging` |
| Table locks | the SQL of all of these | locks held and waited for | begin, lock, wait, end, deadlock detection, lock timeout | `TableLocks` |
| Static load | `ingestion/static/*.py`, `dags/transit_static_ingestion.py` | live tables, history, archive, advisory lock | download, archive, check, stage, activate, commit | `StaticLoad` |
| Backup and restore | `scripts/postgres_backup.py`, `ingestion/s3_archive.py`, the systemd timer | local dumps, objects, manifest, status file, restored databases | dump, verify, publish, upload, report, restore | `Backup` |
| Migrations | `scripts/migrate_database.py`, `infrastructure/postgres/migrations` | `schema_migrations`, the schema, the advisory lock | lock, read the ledger, check or execute each file, commit | `Migrations`, `ReleasedSchema` |
| Training mart | `dbt/models/intermediate/int_delay_prediction_features.sql`, `dbt/models/marts/ml_delay_training.sql` | the rows of the mart, whose newest one sets the window of the next run | incremental run with a lookback, full refresh of staging and then the mart | `DelayTraining` |
| Archive and operations checks | `ingestion/archive_health.py`, `scripts/ops_health_check.py` | none (read the status file and the age of the manifest's object) | probe | no |
| Container probes, lag and metrics reports | `ingestion/realtime/runtime_health.py`, `health.py`, `observability.py` | none (queries) | probe, report | no |
| Other marts | `dbt/models/marts/fct_stop_arrival.sql`, `dim_*.sql` | rebuilt from the static tables in every run | build | no |
| Dashboard, settings, other operations scripts | `dashboard/`, `ingestion/config.py`, `scripts/*` | none that persists | show, validate | no |

How they interact:

- The producer and the consumer share the topic. The client library of the producer is asynchronous:
  a delivery report is a callback that may belong to an earlier call.
- The consumers of one group share its committed offsets; the coordinator moves partitions between
  them inside `poll()`, and no `on_revoke` handler exists, so a batch outlives its partition.
- Consumers, retention, dbt and `pg_dump` share the realtime tables through row and table locks.
  None of the code asks for a table lock, but `_ensure_table` runs an `ALTER TABLE` in every batch,
  which takes ACCESS EXCLUSIVE until the commit, and `CREATE INDEX IF NOT EXISTS` takes SHARE.
- Retention and the static load share the archive with nobody, but several instances of each run:
  a service or a DAG, its retries, and what an operator starts by hand.
- Migration runs of several releases may overlap; they share the ledger under an advisory lock, and
  Compose starts the services of a release after its run succeeded.
- The training mart reads staging, where observations arrive in another order than they happened.
- Backups overlap when one is started by hand; they share the manifest and the status file.

What makes each correct is stated as properties, below. The hazards behind them, with their lines,
are in `PROJECT.json`.

## Plan

Order of the modules, the most important behaviour first; all are done.

1. `VehicleConsumer` with `EventSink`, the abstract at-least-once sink it implements. Proofs.
2. `FeedProducer`: what is recorded is published. Proofs.
3. `Retention`: nothing is deleted that is not archived. Proofs.
4. `IncrementalStaging`: the composition of writers, retention and dbt on one table. Proofs.
5. `TableLocks`: the lock order of all transactions. It discharges the assumption of 4 that writers
   exclude one another, which is the property `BatchesAreAlone`. Proofs, with those of 4.
6. `StaticLoad`: the live tables are one feed, also while the ZIP is downloaded again. Proofs.
7. `Backup`: the manifest and the status file name backups that can be restored. Proofs.
8. `Migrations` with `ReleasedSchema`, the abstract schema that moves from release to release. Proofs.
9. `DelayTraining`: the lookback of the training mart against late observations, and full refreshes
   of staging that the mart does not follow. Proofs.

Every safety invariant and action property of the runs that pass, and both refinements, are proved.
Liveness stays with TLC. The modules were written for it: every parameter is a constant with a named
assumption, and no module has a RECURSIVE operator.

## Modules and their code

Each action is one atomic effect: what the code does between two points where another process, a
failure or a signal can come in. A process is at a control state (`pc`) that names where it is in
its function. Failures that the environment causes are counted by `faults` and bounded by
`MaxFaults`. Operators called *Mutant of ...* are plausible bugs, used to show that a property fails
when the code has them; no specification uses them.

### VehicleConsumer, EventSink

`pc` follows `consume_to_postgres`: `loop` is the head of the while statement, `poll` is inside
`poll()`, `persist` and `commit` are the two halves of `flush_batch`, `deadLetter` and
`deadLetterCommit` those of `dead_letter_and_commit`, `close` is after the `finally` flush. `next`
is where the process goes after the flush it is in. A message is its event id, or `Malformed`;
`Unstorable` ids are those whose row PostgreSQL always refuses, which the retry loop repeats for
ever, as the code does.

The broker is modelled from its use: `Rebalance` gives every partition to a member that is inside
`poll()`, a new owner starts at the committed offset; `Fence` drops a member, which then cannot
commit and learns of it in `poll()`; `StoreOffsets` overwrites without comparing.
`PersistOutcomeLost` and `CommitRaises` are effects whose result never arrives.

`EventSink` promises at-least-once storage: offsets are acknowledged only over stored messages. They
may go back.

### FeedProducer

`fetch`, `produce`, `flush`, `record` are the steps of `fetch_parse_produce_once`, `wait` is
`shutdown.wait`. The client's queue marks what earlier calls left in it (`late`): its failed
delivery does not count against the current call. `TransientFailure`, `OtherFailure`, `Success` and
`Uncaught` are the four ways a cycle ends in `run_continuously`.

### Retention

One transaction goes through the three tables (`table`), selects, archives and deletes a batch of the
first two, deletes from the third, and commits. `connected` is separate from `pc`, since PostgreSQL
rolls a transaction back as soon as the connection is gone, while the worker may still be busy with
an upload. `Locked` are the rows other workers skip. An object of the archive is the set of its
rows: its name is a digest of its content. The two backends differ in the exception they raise,
which decides whether the repeating loop survives.

### IncrementalStaging

`Begin` is the `ALTER TABLE` of `_ensure_table`: it needs the table alone. `Insert` draws an id even
when the event is there already (ON CONFLICT DO NOTHING does). `Above` is the model's `where` clause;
`Load` is dbt's delete+insert. The assumption `BrokerDays <= SourceDays` is that of the deployed
settings (7 and 14 days): an event the topic still has is not deleted from the table.

### TableLocks

A transaction is the sequence of the locks its statements take, in the order of the code. PostgreSQL
queues what it cannot grant, puts a process in front of those that wait for it, and lets a
transaction of a cycle fail. Locks of a mode the table's owner already has are asked for again, as
PostgreSQL does; tables other than these three take part in no conflict. The names of the actions
differ from those of `IncrementalStaging`, since one module of proofs extends both.

### StaticLoad

The ZIP of a day is a file whose content downloads change in place; a load reads it in turn to digest
it (`Start`), to digest it again and copy it (`Archive`, `Copy`, `Link`), to open it (`Open`) and to
stage its tables (`Stage`), and each step sees what is there by then. `archive` is the content under
each name, the checksum the load computed first; `Linked` is `os.link`, which replaces nothing.
`undisturbed` is a history variable: no download wrote to the ZIP while the load read it.

A table is the set of the feeds its rows are from. A transaction remembers which rows it deleted
(those it saw) and which tables it filled, and only `Commit` shows them. `Complete` and `Invalid`
are the checks before the lock and after staging. `TablesIn` varies which optional calendar a feed
has, the case in which rows of an older feed could stay.

### Backup

A backup is a number, as its file name is the microsecond it was started at. `Put` and `Head` are
the two halves of `upload_verified` for the dump, the sidecar and the manifest. S3 may store something
other than what was sent. `WriteStatus` is the atomic replacement of the status file. A restore takes
a dump and its sidecar from the local directory or the bucket, compares digests, creates a database
and loads it in one transaction; `intact` is whether the operator's copy is.

### Migrations, ReleasedSchema

A release gives each version its content, which stands for its checksum, or has no such version.
`read` is the point after the ledger was read under the lock, `files` the loop over the release's
files; each one is either accepted by its checksum or executed with its ledger row, and nothing is
visible before the commit. `Legacy` is a database whose ledger has no checksums yet: the code fills
them in from the files it finds, so the assumption says that those are the files that were executed.

`ReleasedSchema` promises what `docs/production-readiness.md` does: the schema moves from one release
to another as a whole, and what is executed comes after all that was.

### DelayTraining

A trip is one vehicle's run of a trip. `Candidates`, `First` and `History` are the join, the ranking
and the window frames of the feature view; a row's features are abstracted to the observations they
are computed from. `Select` is the query of an incremental run, in one snapshot, and `Load` dbt's
delete+insert by `observation_id`, so observations arrive between the two. `RefreshStaging` is the
first step of `dbt build --full-refresh`: it makes staging from what retention left of the raw table,
any of the rows staging had, since retention goes by the time of the fetch and ids by the
order of the inserts. `SelectAll` and `Load` replace the mart after it; `RunFails` is any run that
does not get to its load, and after `RefreshStaging` the mart that dbt skips because a test of
staging failed. `received` is all that was ever staged, from which ids and lateness are counted. `Lateness` is how far
behind the newest one an observation may be staged, and `Travel` how long a trip takes for four stop
sequences; the assumption `Lateness + Travel <= Lookback` is what the setting
`realtime_incremental_lookback_hours` has to satisfy.

## Runs

| Run | Instance | What it shows |
|---|---|---|
| `group` | 2 consumers, 1 partition, 3 events (one unstorable) and malformed messages, batches of 3, logs of 3, 1 fault | `CommittedIsDurable`: no restart skips a message. `PolledIsDurableOrInHand`: nor does a running consumer. `MetricsAgreeWithTables`: replays and lost outcomes are counted once. `SinkSpec`: the consumer implements `EventSink` |
| `group_live` | a deployed consumer and one with `--max-messages 2`, 1 partition, logs of 2, 1 fault | `EveryMessageBecomesDurable`, by whichever consumer; `LimitRespected`; `LimitedRunEnds` |
| `producer` | 3 snapshots that share events, the second unparsable, 2 faults | `RecordedIsPublished`; `BackoffMatchesFailures`; `NewestIsPublished`; `SignalStops` |
| `producer_outage` | the same, 1 fault | violated: `PollingSurvivesOutage` (finding 1) |
| `retention` | 2 workers, S3, 2 rows, batches of 1, 1 batch a pass for one worker and 2 for the other, 1 file, 1 fault | `HistoryIsKept`; `FilesAreKept`; `BacklogIsCleared`, also when there is more than one pass deletes |
| `staging` | 2 writers, 3 events, 4 ids, 3 days, 1 fault | `NothingIsPassedOver`; `NewRowsAreAbove`; `StagedEventsAreUnique`; `SourceIsLoaded` |
| `training` | 4 observations of 2 trips at 2 stops, up to 1 hour late, 1 hour on their way, a lookback of 2, full refreshes after retention deleted 1 of them, 1 fault | `LateRowsAreInWindow`; `OneRowPerObservation`; `LabelsOnlyImprove`; `RunsCatchUp`: one incremental run is worth a full refresh; `TrainingCatchesUp` |
| `locks` | 2 consumers, 1 retention worker, 1 reader (dbt or `pg_dump`) | `BatchesAreAlone`; `OnlyConsumersDeadlock`; `ConsumersGoOn` |
| `static_load` | 2 loaders, 2 loads, 3 downloads on 2 days of 3 kinds of feed, 1 fault | `LiveIsOneFeed`; `HistoryIsArchived`; `ArchiveIsKept`; `LoadsEnd` |
| `static_download_race` | 1 load, the one download of its day, no fault | violated: `RowsNameTheirFeed` (finding 2) |
| `backup` | the timer's run and one by hand, 3 backups, 1 restore target, 2 faults | `ManifestIsRestorable`; `StatusIsTrue`; `RestoredIsWhole`; `LoneBackupSucceeds` |
| `migrations` | 2 runners, 4 runs of 6 releases of 3 versions (upgrades, downgrades, edited files, branches), 2 faults | `LedgerIsTrue`; `ServicesFindTheirSchema`; `UpgradesOnly`: the runner implements `ReleasedSchema` |

No run checks a type invariant: `TypeOK` of every module is proved.

### Bounds, and why they are enough

- Two processes of a kind are enough for an interleaving of two to matter: every property is about
  the state of a store or of one process, and the code has no counting of its peers.
- One fault (two in the producer, the backup and the migrations) puts one failure at every point of every
  interleaving. Recovery that fails again is the same state with one more fault used; the proofs
  have no such bound.
- A batch of three and a log of three give a full batch, a partial one, a malformed message after valid
  ones, and a consumer that is fenced while it holds several messages another one polls again. The
  instance has one partition: a batch is committed partition by partition, and the proofs have any
  number of them.
- Two rows that two workers take in batches of one: whatever one has, the other can take the other row
  or, when a connection drops, the same one. The first worker has one batch a pass, so
  that `retention_max_batches` ends its pass with a row left, which is for its next pass or for the
  other worker, whose passes have two.
- Three days with one day of retention give an event that is expired, one that is replayed on its
  last day and one that is fresh.
- The producer's delay is 1, 2, 4, 6, 6, ...: doubled twice, then capped. Failures in a row are
  counted up to the point where the delay is capped, so the model never runs out of them.
- Three downloads on two days: a second one of the same day while a load reads the ZIP, and a newer ZIP.
  The feeds have one calendar, the other one, and both; the last is invalid.
- Three backups and two faults: two that fail or are killed in any step, one of them across the other,
  and one after them.
- Six releases of three versions: each of the others is an upgrade, a downgrade, a branch or an edit of
  one of them; four runs go up, down and across, two of them at a time.
- Stops 1 and 5, four apart; four observations give a row, a later label, an earlier label and another
  history. One hour late and one on the way use up the lookback of two exactly, and five hours leave
  some rows below the window. The observation that retention deletes (`MaxDropped`) may be that of a
  row, its target or one of its history; the proofs have any number of them.

Deadlock is checked where the model never comes to an end. It is not checked in `group`, where a
consumer retries an unstorable row for ever (an attempt that changes nothing is no step), in
`static_load` and `static_download_race`, where downloads and loads run out, in `backup`, where backups
do, and in `migrations`, where runs do.

### Fairness, and why the code justifies it

- A process that is not blocked goes on; Compose restarts consumer, producer and retention after any
  exit (`restart: unless-stopped`), the DAG and the timer start loads and backups again.
- PostgreSQL accepts a transaction in the end: the consumer's retry loop has no limit. Messages it
  never accepts are left out of the liveness runs; `group` has them.
- `poll()` is repeated for ever, so what needs a consumer inside it (a message, a rebalance, a
  rejoin) gets strong fairness.
- The feed server answers some of the requests repeated for ever (strong fairness of `Fetch`). MBTA
  need not publish another snapshot, an operator need not start a stopped process, and time need not
  pass.
- PostgreSQL grants a lock in the order of requests: strong fairness of dbt's `Select` and of the
  advisory `Lock`. In `TableLocks` the queue is explicit and weak fairness is enough.
- The incremental training run is repeated and ends (weak fairness of `Select` and `Load`); nobody has
  to ask for a full refresh. `TrainingCatchesUp` has a premise, that full refreshes come to an end: an
  operator asks for one after a correction, not all the time. In `Backup` the
  timer starts runs, and a run that is not killed goes on.
- Migrations have no liveness property: Compose waits for the run to end, and an operator repeats it.
- Faults are finite. None of the liveness properties holds if they go on for ever.

## Proofs

Each module of proofs has one inductive invariant `IInv`, one lemma per action or group of actions
that keeps it, and the theorems that follow from it. They hold for every value of the constants that
satisfies the named assumption of the module, and rest on nothing else, with one exception
(`BackoffAlwaysMatches`, below).

### VehicleConsumerProofs

For any set of consumers and partitions, any events, any batch size and any number of messages and
faults, from `ConsumerAssumption` alone:

- `TypeCorrect`: `TypeOK`.
- `CommitsAreSafe`: `CommittedIsDurable`.
- `PollsAreSafe`: `PolledIsDurableOrInHand`.
- `ImplementsSink`: every behaviour of the group is one of `EventSink`, with the messages in the
  tables as `durable` and the committed offsets as `acked`.
- `SinkKeepsItsPromise`: `EventSink` alone implies that what is below an acknowledged offset is
  stored, so the refinement is worth having.
- `MetricsAreExact`: `MetricsAgreeWithTables`.
- `LimitsAreRespected`: `LimitRespected`.

`CommittedIsDurable` is not inductive. A commit stores one past the last offset of the batch in a
partition, so what makes it safe is a fact about the batch: everything before each of its messages is
durable already or in the batch too. That in turn holds because of what the consumer polled. The
inductive invariant `IInv` is the conjunction of `TypeOK`, `CommittedIsDurable` and for each consumer

- `BatchValid`: the batch holds valid messages of the log;
- `MessageValid`: a malformed message is in hand exactly when the control state says so, with the
  batch flushed before its own insert;
- `StoredBeforeCommit`: what is about to be committed is durable;
- `HeldIsContiguous`: before each message in hand, all is durable or in the batch;
- `PolledBy`: `PolledIsDurableOrInHand` for this consumer, which makes the previous one inductive.

None of them mentions membership of the group or ownership of a partition. That is why a batch that
outlives a rebalance is harmless: its offsets are safe to commit whoever owns the partition.

`InvInit` and `InvStep` show that `IInv` holds at first and is kept; `InvStep` has one lemma per
action (`PollValidKeeps`, `CommitBatchKeeps`, ...), and `ConsumerStays` for the consumers an action
does not touch. What is durable stays durable (`StaysDurable`), since logs and tables only grow here:
retention does not delete a row the topic still has (see `IncrementalStaging`). `ImplementsSink`
splits the steps into those that append to a log, those that store, and those that commit.
`MaxOfBounded`, about `Max` over a batch's offsets (and over the ids of staged rows, in
`IncrementalStagingProofs`), rests on the library's well-founded induction.

`MetricsInv` adds to the metrics' agreement that the tables are finite, which the counting of new rows
needs (`NewAreCounted`). `WithinLimit` counts what a process has written, batched and has in hand:
what is in hand was polled below the limit, so it is at most the last one allowed.

### FeedProducerProofs

For any feed and retry delays, from `ProducerAssumption`: `TypeCorrect`, `RecordedAlwaysPublished` and
`BackoffAlwaysMatches`. A row of the metadata is written several steps after its events were queued,
while delivery reports of this call and of earlier ones come in. `IInv` says where the events of the
snapshot are at each step: `CurrentIsQueued`, during `flush()`, that an event no callback of this call
reported is in the topic or queued *by this call*; one that an earlier call left in the queue would
not do, since its failure goes unseen. `CurrentIsPublished` is what follows when `flush()` returns an
empty queue, and `CurrentIsSaved` that the payload was saved first.

`BackoffAlwaysMatches` compares the delay, doubled in steps, with a power of two. The provers do not
know how the standard module defines exponentiation, which is by recursion, so its two equations
(`PowersOfTwo`: 2^0 = 1 and 2^(n+1) = 2 * 2^n) are a hypothesis of the theorem.

### RetentionProofs

For any number of workers, rows, files and batch sizes, from `RetentionAssumption`: `TypeCorrect`,
`HistoryAlwaysKept`, `FilesAlwaysKept` and `SelectedRowsWait`. A commit deletes rows that were archived
many steps before, so the invariant follows each worker's transaction: `DeletedAreArchived`, that what
it archived is in an object, and what it deleted is in one or of a table that is not archived, and
`UnlinkedIsArchived` for the file it is about to remove. Objects and archived files only grow, which
is why a crash or a second worker takes none of it away (`OthersKeep`). `RowsAreLockedOnce` is what
SKIP LOCKED gives; with it, `SelectedRowsWait` says that `archive_delete_batch` never ends with its
"Retention row count mismatch": the rows a transaction selected wait for its delete.

### IncrementalStagingProofs

For any writers, events and clock, whenever the table keeps an event at least as long as the topic
(`StagingAssumption`): `NothingPassedOver`, `NewRowsAbove` and `StagedEventsUnique`.

That no row is passed over is not inductive: it needs that a run which has selected has all there is
(`SelectedIsComplete`), and that the rows of an open transaction are above everything committed,
staged or selected (`OpenRowsAreAbove`), which holds because there is one writer at a time
(`OneWriter`). That no event is staged twice needs that every row but an expired one is still in the
table (`GoneIsExpired`), so that the topic no longer has it: this is where the retention periods meet.

The second half of the module is about `TableLocks`, for any number of consumers, retention workers and
readers, from `LocksAssumption`. Its invariant `LocksInv` adds to the types that no two processes hold
locks that conflict (`HeldLocksAgree`), that a transaction holds locks of executed statements only
(`HeldIsExecuted`), that a batch has the table of positions from its first statement on
(`BatchHasPositions`), and that those in the queue have a statement to execute (`WaitersRun`).

- `BatchesAlwaysAlone`: `BatchesAreAlone`, from the first and the third.
- `DeadlocksAreConsumers`: `OnlyConsumersDeadlock`. A process is in a cycle when every set that holds
  those it waits for, and is closed under waiting, holds it too; so it is enough to name one such
  set without it. `Ahead` are the processes that hold a `Strong` lock (ACCESS EXCLUSIVE or SHARE, or any
  but a reader's on the metrics). A worker, dbt, `pg_dump` and whoever is in `Ahead` already wait for
  processes in `Ahead` only, and a worker in `Ahead` has nothing left to wait for, since retention takes
  the metrics last; dbt and `pg_dump` never are in it.
- `WritersAlwaysExclude` closes the composition: what the guards of `Begin`, `DeleteExpired` and
  `Select` in `IncrementalStaging` say of an open transaction is what these locks enforce.

What `InsertAt` and `RemoveAt` of the community modules do to the queue (`InsertAtProperties`,
`RemoveAtProperties`) is proved from the library's theorems on sequences.

### StaticLoadProofs

For any feeds, loads and downloads, from `StaticLoadAssumption`: `LiveIsAlwaysOneFeed`,
`HistoryAlwaysArchived` and `ArchiveAlwaysKept`. The invariant says of each load

- `Holds`: what it knows at each of its steps: a feed it opened is complete, its archive exists, and
  from staging on it has the lock;
- `Replaces`: the rows its transaction deleted are those that are live, since nobody else commits; at
  the commit, those of all tables, because a table that is not in a complete feed is optional;
- `Agrees`: as long as no download wrote to its ZIP, the name, the copy, the archive and the feed are
  one content.

`OthersKeep` shows that a step of one load takes none of this from another.

### MigrationsProofs

For any releases, runners and runs, from `MigrationsAssumption`: `LedgerIsAlwaysTrue`,
`StartedServicesKeepTheirSchema` and `ImplementsReleasedSchema`. What a run may commit follows from
what it read, and `ReadIsCurrent` says that this stays true while it holds the lock; `HandledAreChecked`
that every file it passed is in the ledger with its checksum or comes after all that are; and
`UncheckedAreLegacy` that only legacy rows have no checksum, which is where the assumption about them
enters.

### DelayTrainingProofs

For any trips, stops, lateness and travel time with `Lateness + Travel <= Lookback`, and whatever full
refreshes drop from staging: `LateRowsAlwaysInWindow`, `OneRow`, `LabelsImprove` and `EachRunCatchesUp`.
The window is counted from the newest row of the mart, and a run loads what it selected before the
latest observations came. So the invariant also says what the mart will be after the load: what would
still be wrong then is in the window whether or not the run gets to load (`LoadedRowsAreInWindow`).
The step that matters is an arrival: `ArriveFarIsUnchanged` shows that it changes no row older than
the window.

A full refresh of staging takes the ground from under rows of the mart. `RowsAreMatched` says what
remains: a row still has an observation and a target that match, whether staging has them or not. An
observation whose target is left therefore has a candidate, and a first one (`FirstsExist`).
`RefreshKeepsRows` shows that a row of the feature view all of whose sources are left stays as it was.
`ReplacementIsComplete` is about the second half, the load that replaces the mart: it has a row for
each row whose observation and target are left. `DeltaImproves` says that a row that is loaded has the
target of the row it replaces or an earlier one, and `LabelsAreKept` that
the feature view always has such a row.
`EachRunCatchesUp` is the strongest: what is outside the window is right already, or computed from
what is gone, and what is inside is selected (`SelectionMatches`).

### BackupProofs

For any runs, restores, failures and kills, from `BackupAssumption`: `TypeCorrect`,
`ManifestAlwaysRestorable`, `StatusAlwaysTrue` and `RestoredAlwaysWhole`. A run may write the manifest
because of what it verified several steps before, while others upload and replace the manifest in
between. `RunInv` says what each run knows of its own backup from step to step: that its dump is
whole, that the dump and then the sidecar in S3 are intact, and that neither the manifest nor the
status names the backup before the run put it there, so no run that is still uploading can spoil the
objects they name. `PublishedIsWhole` is what a restore finds, and `RestoresAreWhole` what it has
compared. `LocalKeeps`, `StatusKeeps` and `OthersKeep` are the frame: a step of one run takes nothing
from another.

### Model-checked only

- Liveness, which is out of the prover's reach, as is ENABLED: `EveryMessageBecomesDurable`,
  `LimitedRunEnds`, `NewestIsPublished`, `SignalStops`, `BacklogIsCleared`, `SourceIsLoaded`,
  `TrainingCatchesUp`, `ConsumersGoOn`, `LoadsEnd` and `LoneBackupSucceeds`. For
  one of them the proofs hold the half that is safety: the mart of runs that are fairly repeated ends
  with `TrainingCatchesUp` because of `EachRunCatchesUp`.
- The recursion of 2^n, the hypothesis of `BackoffAlwaysMatches`.

## Findings

1. `ingestion/realtime/producer.py:114`. A cycle ends with a PostgreSQL insert, and the loop does not
   catch `psycopg.Error`: an outage of PostgreSQL ends the producer, although `README.md:428` says
   Redpanda decouples polling from PostgreSQL's availability. Compose restarts it, and each restart
   gets through one cycle; `NewestIsPublished` still holds. Run `producer_outage`.
2. `ingestion/static/load_static_gtfs.py:151`. The ZIP is digested, archived and opened in turn, each
   time from its path, which a download writes in place (`ingestion/static/download_mbta_gtfs.py:29`).
   A load that begins while the download of its day is still writing digests and archives an
   unfinished file, opens the finished one and commits a history row with the checksum and the archive
   of the former; a second download of the day does the same to a load that is under way. But
   `README.md:121` says that the loader preserves the original artifact and records its checksum, and
   `docs/tripupdates-ml-design.md:30` that the archive and the ledger preserve future inputs. The live
   tables are one feed all the same. One run of the DAG downloads before it loads;
   it takes a load or a download that is started beside it. Run `static_download_race`.

Not disagreements with a run of their own, but worth knowing:

- The repeating retention worker does not catch `S3UploadError` (`ingestion/retention.py:164`), a
  `RuntimeError`: a failed upload ends the process, although `--interval-seconds` promises to repeat
  until a signal (`retention.py:150`). Compose restarts it, and `BacklogIsCleared` still holds.
- `NewRowsAreAbove`, on which the incremental model rests, is true only because of the table lock of
  `_ensure_table`. Without that `ALTER TABLE` two writers commit ids out of order and dbt passes over
  a row (the mutant `NeverLocked`).
- Two consumers, one writing a batch and one a dead letter, deadlock over the metrics table: both
  take SHARE for the index and then want ROW EXCLUSIVE. PostgreSQL ends one and it tries again.
- A committed offset can go back. With two consumers the older one commits its batch after the newer
  one; with one consumer, when it is fenced while it holds two messages or more, polls them again and
  commits a batch that ends earlier (batches of two are too small to show it). It replays and loses
  nothing: `CommittedIsDurable` is the property that matters. In a group a stranded commit can also
  leave the reported lag above zero until the next message.
- A backup can be reported as failed because another one replaced the manifest before the
  verification, and the manifest can go back to an older backup; it is always one that can be
  restored. A restore that failed leaves its empty database, and `createdb` refuses the retry.
- The operations check sees the age of the upload, not that of the dump, and the status of the last run
  that could report: a run that was killed is noticed when the manifest is too old.
- A load that was disturbed may archive one content under the checksum of another. Every later load of
  the feed with that checksum then ends with "Archive collision" until an operator removes the file.
  (That is the local archive; the S3 one overwrites the object.)
  A load of an older day that commits last makes the older feed live again.
- Ledger rows without a checksum get that of whatever file has their name; `MigrationsAssumption` says
  that it is the right one, and nothing in the code can tell.
- `docs/ml-training-dataset.md:88` says that a row only uses observations available before its
  prediction. `History` uses event time, so a late observation enters the history of rows that were
  predicted before it was available; `docs/tripupdates-ml-design.md:28` says so. What the model shows
  is that the mart at least agrees with a full refresh in the end.
- `docs/dbt-incremental-processing.md:56` recommends `dbt build --full-refresh` to rebuild all analytics.
  Staging is made again from the raw table, which retention prunes to 14 days, so labelled rows older
  than that leave the mart for good. When a test of staging fails, or the run does, before the mart is
  replaced, rows whose observations or targets are gone stay until the next full refresh of the mart.
- `assert_stg_realtime_source_observations_loaded` can fail after a run that missed nothing, since a writer
  may commit before the test; `docs/docker-runtime.md:191` says so. `SourceIsLoaded` is about the runs
  that follow.
- An observation of a vehicle whose clock is ahead moves the lookback window with it, and a lateness
  above the assumed one leaves rows below the window until a full refresh. So does a change of the
  static timetable, which leaves rows with the features of the old one (the `relationships` test of
  `ml_delay_training.trip_id` then fails).

## Not modelled

- The fields of an event, their parsing and their units: no property depends on them. Two observations
  that get one `event_id` are one event here, as in the table.
- The disk reserve and `fsync` of the local archive, which are failures of a step, and how an S3 upload
  is split. In `Retention` an archive is one effect that happens or not, whichever backend: the steps
  of each are in `StaticLoad` (local) and `Backup` (S3).
- Partial writes of raw payload files, and two payloads in one second.
- `fct_stop_arrival`, `dim_route` and `dim_stop`: they are rebuilt from what is live when each is built
  and keep nothing. Nothing keeps a static load out meanwhile (`dags/transit_static_ingestion.py:39`),
  so marts of two feeds can stand side by side until the next build; no property of the code says
  otherwise.
- Two dbt runs at once: the documents have one at a time, and the models rely on it.
- The service date in the join of the feature view, which `docs/tripupdates-ml-design.md` says is
  missing, and a timetable that changes under the mart (`DelayTraining` has one that does not). Retention
  has no period there: which rows a full refresh finds gone is arbitrary.
- How long a lock is waited for, and time in general outside `Retention`, `IncrementalStaging` and
  `DelayTraining`.
- A topic that drops messages before they are consumed, and replays by hand from the archive.
- The container probes: they compare the age of the newest row with a limit, and
  `docs/docker-runtime.md:88` says what they cannot tell. The archive and operations checks: they
  compare the age of an object and a status with limits. The lag and metrics reports and retention's
  dry run: they read and print. The dashboard: it reads and shows. The settings and the checks of the
  operations scripts: they validate, once, what does not change afterwards. None has a state or steps
  that a property could be about.
