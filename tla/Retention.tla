------------------------------ MODULE Retention ------------------------------
(***************************************************************************)
(* The retention worker of ingestion/retention.py: it archives and deletes *)
(* expired rows, batch by batch, one PostgreSQL transaction for a batch of *)
(* every table, and then archives and unlinks expired raw payload files.   *)
(* Several workers may run: the hourly service and the passes an operator  *)
(* starts by hand.                                                         *)
(*                                                                         *)
(* Time is counted in steps; something is expired when its time is below   *)
(* the cutoff, and the retention periods are folded into the clock.  An    *)
(* object of the archive is the set of rows it holds: its name is a digest *)
(* of its content.  The consumer and the producer that fill the tables and *)
(* the directory, PostgreSQL and the archive's storage are modelled from   *)
(* how the code uses them.                                                 *)
(***************************************************************************)
EXTENDS Integers, FiniteSetsExt

CONSTANTS
    Workers,       \* retention processes
    Backend,       \* archive_backend: "local" or "s3"
    BatchSize,     \* retention_batch_size
    MaxBatches,    \* retention_max_batches of each worker's environment
    MaxRows,       \* bound: rows inserted
    MaxFiles,      \* bound: raw payload files saved
    MaxTime,       \* bound: the clock
    MaxFaults      \* bound: crashes, dropped connections, signals and failures

ASSUME RetentionAssumption ==
    /\ Backend \in {"local", "s3"}
    /\ BatchSize \in Nat \ {0}
    /\ MaxBatches \in [Workers -> Nat \ {0}]
    /\ MaxRows \in Nat
    /\ MaxFiles \in Nat
    /\ MaxTime \in Nat
    /\ MaxFaults \in Nat

VARIABLES
    clock,         \* now
    inserted,      \* history: the rows ever inserted
    present,       \* the rows of the tables, as committed
    objects,       \* the archived batches
    saved,         \* history: the raw payload files ever saved
    raw,           \* the files of the raw directory
    rawArchive,    \* the archived files
    pc,            \* where each worker is
    stop,          \* its shutdown event
    cutoff,        \* the cutoff of its pass over the tables
    table,         \* the table its transaction is at
    batch,         \* the rows it selected there
    deleted,       \* the rows its transaction deleted so far
    batches,       \* the transactions of this pass
    todo,          \* the expired files it listed
    connected,     \* its connection to PostgreSQL is alive
    faults         \* faults so far

dataVars   == <<clock, inserted, saved>>
storeVars  == <<present, objects>>
fileVars   == <<raw, rawArchive>>
txVars     == <<table, batch, deleted, connected>>
passVars   == <<cutoff, batches, todo>>
workerVars == <<pc, stop, txVars, passVars>>
vars       == <<dataVars, storeVars, fileVars, workerVars, faults>>

\* The tables in the order of a transaction; metrics are not archived.
Tables   == {"positions", "deadLetters", "metrics"}
Archived == {"positions", "deadLetters"}

NextTable == [t \in Archived |-> IF t = "positions" THEN "deadLetters" ELSE "metrics"]

Times == 0..MaxTime
Rows  == [table : Tables, id : 1..MaxRows, time : Times]

\* A raw payload file is named by the time it was saved at.
Files == Times

\* "exit" is an exit of main(), "down" that of a killed process.
ControlStates == {"down", "select", "archive", "delete", "commit",
                  "list", "file", "unlink", "wait", "exit"}

TypeOK ==
    /\ clock \in Times
    /\ inserted \subseteq Rows
    /\ present \subseteq inserted
    /\ objects \subseteq SUBSET Rows
    /\ saved \subseteq Files
    /\ raw \subseteq saved
    /\ rawArchive \subseteq saved
    /\ pc \in [Workers -> ControlStates]
    /\ stop \in [Workers -> BOOLEAN]
    /\ cutoff \in [Workers -> Times]
    /\ table \in [Workers -> Tables]
    /\ batch \in [Workers -> SUBSET Rows]
    /\ deleted \in [Workers -> SUBSET Rows]
    /\ batches \in [Workers -> Nat]
    /\ \A w \in Workers : batches[w] < MaxBatches[w]
    /\ todo \in [Workers -> SUBSET Files]
    /\ connected \in [Workers -> BOOLEAN]
    /\ faults \in 0..MaxFaults

Init ==
    /\ clock = 0
    /\ inserted = {}
    /\ present = {}
    /\ objects = {}
    /\ saved = {}
    /\ raw = {}
    /\ rawArchive = {}
    /\ pc = [w \in Workers |-> "down"]
    /\ stop = [w \in Workers |-> FALSE]
    /\ cutoff = [w \in Workers |-> 0]
    /\ table = [w \in Workers |-> "positions"]
    /\ batch = [w \in Workers |-> {}]
    /\ deleted = [w \in Workers |-> {}]
    /\ batches = [w \in Workers |-> 0]
    /\ todo = [w \in Workers |-> {}]
    /\ connected = [w \in Workers |-> FALSE]
    /\ faults = 0

Fault ==
    /\ faults < MaxFaults
    /\ faults' = faults + 1

----------------------------------------------------------------------------
(* The rest of the platform.                                               *)

Tick ==
    /\ clock < MaxTime
    /\ clock' = clock + 1
    /\ UNCHANGED <<inserted, saved, storeVars, fileVars, workerVars, faults>>

\* Until its transaction ends a worker has ROW SHARE or ROW EXCLUSIVE on a
\* table.  The former keeps out an insert of positions, whose _ensure_table
\* wants ACCESS EXCLUSIVE, the latter also the other inserts, which create
\* an index if there is none.
TableLocked(t) ==
    \E w \in Workers :
        /\ connected[w]
        /\ IF t = "positions" THEN pc[w] # "select" \/ table[w] # t
           ELSE \E row \in deleted[w] : row.table = t

\* The consumer inserts a row.  The ingested_at of a position is that of its
\* event, which may be old; the others are stamped when they are written.
Insert(t, time) ==
    /\ Cardinality(inserted) < MaxRows
    /\ ~TableLocked(t)
    /\ t # "positions" => time = clock
    /\ LET row == [table |-> t, id |-> Cardinality(inserted) + 1, time |-> time]
       IN  /\ inserted' = inserted \cup {row}
           /\ present' = present \cup {row}
    /\ UNCHANGED <<clock, saved, objects, fileVars, workerVars, faults>>

\* The producer saves a raw payload.
Save ==
    /\ clock \notin saved
    /\ Cardinality(saved) < MaxFiles
    /\ saved' = saved \cup {clock}
    /\ raw' = raw \cup {clock}
    /\ UNCHANGED <<clock, inserted, storeVars, rawArchive, workerVars, faults>>

----------------------------------------------------------------------------
(* Transactions.                                                           *)

\* The rows a worker's open transaction has locked: those it selected FOR
\* UPDATE, and those it deleted.
Locked(w) == IF connected[w] THEN batch[w] \cup deleted[w] ELSE {}

Begin(w) ==
    /\ pc' = [pc EXCEPT ![w] = "select"]
    /\ table' = [table EXCEPT ![w] = "positions"]
    /\ connected' = [connected EXCEPT ![w] = TRUE]

\* The transaction ends, or is rolled back, and its locks are released.
EndTransaction(w) ==
    /\ batch' = [batch EXCEPT ![w] = {}]
    /\ deleted' = [deleted EXCEPT ![w] = {}]
    /\ connected' = [connected EXCEPT ![w] = FALSE]
    /\ UNCHANGED table

\* An exception leaves the pass: the loop catches OSError, ValueError and
\* psycopg.Error and waits; it does not catch RuntimeError, of which
\* S3UploadError is one.
Caught(w)   == pc' = [pc EXCEPT ![w] = "wait"] /\ EndTransaction(w)
Uncaught(w) == pc' = [pc EXCEPT ![w] = "exit"] /\ EndTransaction(w)

ArchiveError(w) == IF Backend = "s3" THEN Uncaught(w) ELSE Caught(w)

Older(r, s) == r.time < s.time \/ (r.time = s.time /\ r.id < s.id)

\* What the SELECT ... FOR UPDATE SKIP LOCKED of a worker may return.
Eligible(w) ==
    {r \in present : /\ r.table = table[w]
                     /\ r.time < cutoff[w]
                     /\ \A v \in Workers : r \notin Locked(v)}

\* The first n of them, the oldest first.
Oldest(rows, n) == {r \in rows : Cardinality({s \in rows : Older(s, r)}) < n}

\* archive_delete_batch selects; with no row it returns at once.
Select(w) ==
    LET rows == Oldest(Eligible(w), BatchSize)
    IN  /\ pc[w] = "select"
        /\ table[w] \in Archived
        /\ connected[w]
        /\ batch' = [batch EXCEPT ![w] = rows]
        /\ IF rows = {}
           THEN table' = [table EXCEPT ![w] = NextTable[@]] /\ UNCHANGED pc
           ELSE pc' = [pc EXCEPT ![w] = "archive"] /\ UNCHANGED table
        /\ UNCHANGED <<dataVars, storeVars, fileVars, stop, deleted, connected, passVars, faults>>

\* Mutant of Archive: the rows are deleted first.
ArchiveSkipped(w) ==
    /\ pc[w] = "archive"
    /\ pc' = [pc EXCEPT ![w] = "delete"]
    /\ UNCHANGED <<dataVars, storeVars, fileVars, stop, txVars, passVars, faults>>

\* archive_file returns once the object is stored and verified.
Archive(w) ==
    /\ pc[w] = "archive"
    /\ objects' = objects \cup {batch[w]}
    /\ pc' = [pc EXCEPT ![w] = "delete"]
    /\ UNCHANGED <<dataVars, present, fileVars, stop, txVars, passVars, faults>>

\* archive_file raises, before or after the object is stored.
ArchiveFails(w) ==
    /\ pc[w] = "archive"
    /\ Fault
    /\ objects' \in {objects, objects \cup {batch[w]}}
    /\ ArchiveError(w)
    /\ UNCHANGED <<dataVars, present, fileVars, stop, passVars>>

\* The DELETE of the archived rows; had one of them gone, RuntimeError.
Delete(w) ==
    /\ pc[w] = "delete"
    /\ connected[w]
    /\ IF batch[w] \subseteq present
       THEN /\ deleted' = [deleted EXCEPT ![w] = @ \cup batch[w]]
            /\ batch' = [batch EXCEPT ![w] = {}]
            /\ table' = [table EXCEPT ![w] = NextTable[@]]
            /\ pc' = [pc EXCEPT ![w] = "select"]
            /\ UNCHANGED connected
       ELSE Uncaught(w)
    /\ UNCHANGED <<dataVars, storeVars, fileVars, stop, passVars, faults>>

\* Expired metrics are deleted without an archive.
DeleteMetrics(w) ==
    /\ pc[w] = "select"
    /\ table[w] = "metrics"
    /\ connected[w]
    /\ deleted' = [deleted EXCEPT ![w] = @ \cup Oldest(Eligible(w), BatchSize)]
    /\ pc' = [pc EXCEPT ![w] = "commit"]
    /\ UNCHANGED <<dataVars, storeVars, fileVars, stop, table, batch, connected, passVars,
                   faults>>

\* A transaction that deleted nothing is the last one of its pass, and so is
\* the one that retention_max_batches allows.
LastBatch(w) == deleted[w] = {} \/ batches[w] + 1 = MaxBatches[w]

\* The transaction commits, and another one may follow in this pass.
Commit(w) ==
    /\ pc[w] = "commit"
    /\ connected[w]
    /\ present' = present \ deleted[w]
    /\ batch' = [batch EXCEPT ![w] = {}]
    /\ deleted' = [deleted EXCEPT ![w] = {}]
    /\ IF LastBatch(w)
       THEN /\ pc' = [pc EXCEPT ![w] = "list"]
            /\ batches' = [batches EXCEPT ![w] = 0]
            /\ connected' = [connected EXCEPT ![w] = FALSE]
            /\ UNCHANGED table
       ELSE /\ Begin(w)
            /\ batches' = [batches EXCEPT ![w] = @ + 1]
    /\ UNCHANGED <<dataVars, objects, fileVars, stop, cutoff, todo, faults>>

\* The connection is lost after the server committed.
CommitOutcomeLost(w) ==
    /\ pc[w] = "commit"
    /\ connected[w]
    /\ Fault
    /\ present' = present \ deleted[w]
    /\ Caught(w)
    /\ UNCHANGED <<dataVars, objects, fileVars, stop, passVars>>

\* A statement or lock timeout; PostgreSQL rolls the transaction back.
StatementFails(w) ==
    /\ pc[w] \in {"select", "delete", "commit"}
    /\ connected[w]
    /\ Fault
    /\ Caught(w)
    /\ UNCHANGED <<dataVars, storeVars, fileVars, stop, passVars>>

\* PostgreSQL drops the connection: the transaction is rolled back and its
\* locks are free at once; the worker learns it from its next statement, and
\* may be busy with the archive until then.
Disconnect(w) ==
    /\ connected[w]
    /\ Fault
    /\ connected' = [connected EXCEPT ![w] = FALSE]
    /\ UNCHANGED <<dataVars, storeVars, fileVars, pc, stop, table, batch, deleted, passVars>>

Disconnected(w) ==
    /\ pc[w] \in {"select", "delete", "commit"}
    /\ ~connected[w]
    /\ Caught(w)
    /\ UNCHANGED <<dataVars, storeVars, fileVars, stop, passVars, faults>>

----------------------------------------------------------------------------
(* Files: enforce_raw_payload_retention.                                   *)

List(w) ==
    /\ pc[w] = "list"
    /\ todo' = [todo EXCEPT ![w] = {f \in raw : f < clock}]
    /\ pc' = [pc EXCEPT ![w] = "file"]
    /\ UNCHANGED <<dataVars, storeVars, fileVars, stop, txVars, cutoff, batches, faults>>

\* The next file is archived.  When it is gone, stat raises OSError or, if
\* it went later, archive_file its own error.
ArchiveFile(w) ==
    /\ pc[w] = "file"
    /\ todo[w] # {}
    /\ IF Min(todo[w]) \in raw
       THEN /\ rawArchive' = rawArchive \cup {Min(todo[w])}
            /\ pc' = [pc EXCEPT ![w] = "unlink"]
            /\ UNCHANGED txVars
       ELSE (Caught(w) \/ ArchiveError(w)) /\ UNCHANGED rawArchive
    /\ UNCHANGED <<dataVars, storeVars, raw, stop, passVars, faults>>

\* Mutant of ArchiveFileFails: the exception is swallowed.
ArchiveFileFailsGoesOn(w) ==
    /\ pc[w] = "file"
    /\ todo[w] # {}
    /\ Fault
    /\ pc' = [pc EXCEPT ![w] = "unlink"]
    /\ UNCHANGED <<dataVars, storeVars, fileVars, stop, txVars, passVars>>

\* archive_file raises, before or after the file is archived.
ArchiveFileFails(w) ==
    /\ pc[w] = "file"
    /\ todo[w] # {}
    /\ Fault
    /\ rawArchive' \in {rawArchive, rawArchive \cup ({Min(todo[w])} \cap raw)}
    /\ ArchiveError(w)
    /\ UNCHANGED <<dataVars, storeVars, raw, stop, passVars>>

Unlink(w) ==
    /\ pc[w] = "unlink"
    /\ raw' = raw \ {Min(todo[w])}
    /\ IF Min(todo[w]) \in raw
       THEN /\ todo' = [todo EXCEPT ![w] = @ \ {Min(@)}]
            /\ pc' = [pc EXCEPT ![w] = "file"]
            /\ UNCHANGED txVars
       ELSE Caught(w) /\ UNCHANGED todo
    /\ UNCHANGED <<dataVars, storeVars, rawArchive, stop, cutoff, batches, faults>>

FilesDone(w) ==
    /\ pc[w] = "file"
    /\ todo[w] = {}
    /\ pc' = [pc EXCEPT ![w] = "wait"]
    /\ UNCHANGED <<dataVars, storeVars, fileVars, stop, txVars, passVars, faults>>

----------------------------------------------------------------------------
(* The process: main.                                                      *)

\* Mutant of Pass: the cutoff is that of the first pass.
PassKeepsCutoff(w) ==
    /\ Begin(w)
    /\ cutoff' = [cutoff EXCEPT ![w] = IF pc[w] = "wait" THEN @ ELSE clock]
    /\ batches' = [batches EXCEPT ![w] = 0]
    /\ todo' = [todo EXCEPT ![w] = {}]
    /\ UNCHANGED <<batch, deleted>>

\* A pass of enforce_retention begins.
Pass(w) ==
    /\ Begin(w)
    /\ cutoff' = [cutoff EXCEPT ![w] = clock]
    /\ batches' = [batches EXCEPT ![w] = 0]
    /\ todo' = [todo EXCEPT ![w] = {}]
    /\ UNCHANGED <<batch, deleted>>

\* Compose, or an operator, starts the process.
Start(w) ==
    /\ pc[w] \in {"down", "exit"}
    /\ Pass(w)
    /\ stop' = [stop EXCEPT ![w] = FALSE]
    /\ UNCHANGED <<dataVars, storeVars, fileVars, faults>>

\* The interval is over: another pass, or the end after a signal.
Wait(w) ==
    /\ pc[w] = "wait"
    /\ IF stop[w] THEN pc' = [pc EXCEPT ![w] = "exit"] /\ UNCHANGED <<txVars, passVars>>
       ELSE Pass(w)
    /\ UNCHANGED <<dataVars, storeVars, fileVars, stop, faults>>

\* SIGTERM or SIGINT.
Signal(w) ==
    /\ pc[w] \notin {"down", "exit"}
    /\ ~stop[w]
    /\ Fault
    /\ stop' = [stop EXCEPT ![w] = TRUE]
    /\ UNCHANGED <<dataVars, storeVars, fileVars, pc, txVars, passVars>>

\* The process is killed; PostgreSQL rolls its transaction back.
Crash(w) ==
    /\ pc[w] \notin {"down", "exit"}
    /\ Fault
    /\ pc' = [pc EXCEPT ![w] = "down"]
    /\ EndTransaction(w)
    /\ UNCHANGED <<dataVars, storeVars, fileVars, stop, passVars>>

----------------------------------------------------------------------------

\* What a worker does when nothing fails.
Work(w) ==
    \/ Start(w) \/ Wait(w)
    \/ Select(w) \/ Archive(w) \/ Delete(w) \/ DeleteMetrics(w) \/ Commit(w)
    \/ Disconnected(w)
    \/ List(w) \/ ArchiveFile(w) \/ Unlink(w) \/ FilesDone(w)

Failure(w) ==
    \/ Signal(w) \/ Crash(w) \/ Disconnect(w)
    \/ ArchiveFails(w) \/ StatementFails(w) \/ CommitOutcomeLost(w) \/ ArchiveFileFails(w)

Next ==
    \/ Tick \/ Save
    \/ \E t \in Tables, time \in 0..clock : Insert(t, time)
    \/ \E w \in Workers : Work(w) \/ Failure(w)

Spec == Init /\ [][Next]_vars

\* Fairness.  A worker that is not blocked goes on and is started again after
\* an exit; the failures stop in the end.  Time need not pass.
FairSpec == Spec /\ \A w \in Workers : WF_vars(Work(w))

----------------------------------------------------------------------------
(* Properties.                                                             *)

InArchive(row) == \E object \in objects : row \in object

\* No history is lost: a position or a dead letter that was ever inserted is
\* still in its table or in an archived object, whatever crashes, dropped
\* connections and lost outcomes interrupted which workers.
HistoryIsKept ==
    \A row \in inserted : row.table \in Archived => row \in present \/ InArchive(row)

\* The same of raw payload files: one is unlinked only after it was archived.
FilesAreKept == saved \subseteq raw \cup rawArchive

\* The backlog is cleared: once nothing is inserted, every expired row leaves
\* its table, whatever the batch sizes and the failures before.
BacklogIsCleared == []<>(\A row \in present : row.time >= clock)

=============================================================================
