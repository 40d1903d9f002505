----------------------------- MODULE TableLocks -----------------------------
(***************************************************************************)
(* The table locks of the realtime tables.  No statement of the code asks  *)
(* for one, but the statements take them, and keep them until their        *)
(* transaction ends: _ensure_table begins each batch with ALTER TABLE, the *)
(* other _ensure functions create indexes, retention deletes in three      *)
(* tables, dbt and pg_dump read.                                           *)
(*                                                                         *)
(* PostgreSQL grants a lock that conflicts with none another transaction   *)
(* holds, or waits for already, and aborts a transaction of a cycle of     *)
(* waits.  Row locks are those of Retention; tables are taken to exist,    *)
(* since migrations create them.                                           *)
(*                                                                         *)
(* The names of this module differ from those of IncrementalStaging, since *)
(* IncrementalStagingProofs relates the two and extends both.              *)
(***************************************************************************)
EXTENDS Integers, SequencesExt

CONSTANTS
    Consumers,     \* processes of consumer.py
    Workers,       \* processes of retention.py
    Readers        \* dbt runs and pg_dump

Processes == Consumers \cup Workers \cup Readers

ASSUME LocksAssumption ==
    Consumers \cap (Workers \cup Readers) = {} /\ Workers \cap Readers = {}

VARIABLES
    kind,          \* the transaction each process is in, or "none"
    next,          \* the index of its next statement
    held,          \* the locks it holds
    queue          \* the processes that wait for a lock, in order

lockVars == <<kind, next, held, queue>>

Tables == {"positions", "deadLetters", "metrics"}
Modes  == {"accessShare", "rowShare", "rowExclusive", "share", "accessExclusive"}

\* PostgreSQL's conflict table, for these modes.
ConflictsWith ==
    [accessShare     |-> {"accessExclusive"},
     rowShare        |-> {"accessExclusive"},
     rowExclusive    |-> {"share", "accessExclusive"},
     share           |-> {"rowExclusive", "accessExclusive"},
     accessExclusive |-> Modes]

Kinds == {"batch", "deadLetter", "retention", "dbt", "dump"}

KindsOf(p) == IF p \in Consumers THEN {"batch", "deadLetter"}
              ELSE IF p \in Workers THEN {"retention"} ELSE {"dbt", "dump"}

\* The index and the row of the metric.
Metric == <<[table |-> "metrics", mode |-> "share"],
            [table |-> "metrics", mode |-> "rowExclusive"]>>

\* Mutant of Batch: there is no ALTER TABLE.
BatchOfRows == <<[table |-> "positions", mode |-> "rowExclusive"]>> \o Metric

\* insert_vehicle_positions_with_metric: ALTER TABLE comes first.
Batch == <<[table |-> "positions", mode |-> "accessExclusive"]>> \o Metric

\* insert_dead_letter_with_metric: CREATE INDEX, INSERT.
DeadLetter == <<[table |-> "deadLetters", mode |-> "share"],
                [table |-> "deadLetters", mode |-> "rowExclusive"]>> \o Metric

\* Mutant of Retention: the metrics are pruned first.
RetentionMetricsFirst == <<
    [table |-> "metrics", mode |-> "rowExclusive"],
    [table |-> "positions", mode |-> "rowShare"],
    [table |-> "positions", mode |-> "rowExclusive"],
    [table |-> "deadLetters", mode |-> "rowShare"],
    [table |-> "deadLetters", mode |-> "rowExclusive"]>>

\* A batch of enforce_postgres_retention: SELECT FOR UPDATE and DELETE in two
\* tables, DELETE in the third.
Retention == <<
    [table |-> "positions", mode |-> "rowShare"],
    [table |-> "positions", mode |-> "rowExclusive"],
    [table |-> "deadLetters", mode |-> "rowShare"],
    [table |-> "deadLetters", mode |-> "rowExclusive"],
    [table |-> "metrics", mode |-> "rowExclusive"]>>

\* The query of stg_realtime_vehicle_positions.
Query == <<[table |-> "positions", mode |-> "accessShare"]>>

\* pg_dump locks every table before it reads one.
Dump == <<[table |-> "positions", mode |-> "accessShare"],
          [table |-> "deadLetters", mode |-> "accessShare"],
          [table |-> "metrics", mode |-> "accessShare"]>>

Statements == [batch |-> Batch, deadLetter |-> DeadLetter, retention |-> Retention,
               dbt |-> Query, dump |-> Dump]

Locks == [table : Tables, mode : Modes]

LocksTypeOK ==
    /\ kind \in [Processes -> Kinds \cup {"none"}]
    /\ next \in [Processes -> 1..6]
    /\ held \in [Processes -> SUBSET Locks]
    /\ \A p \in Processes : kind[p] = "none" => held[p] = {} /\ next[p] = 1
    /\ queue \in Seq(Processes) /\ IsInjective(queue)
    /\ \A p \in ToSet(queue) : kind[p] # "none"

LocksInit ==
    /\ kind = [p \in Processes |-> "none"]
    /\ next = [p \in Processes |-> 1]
    /\ held = [p \in Processes |-> {}]
    /\ queue = <<>>

----------------------------------------------------------------------------

Done(p)   == next[p] > Len(Statements[kind[p]])
Wanted(p) == Statements[kind[p]][next[p]]

Conflict(lock, other) ==
    lock.table = other.table /\ lock.mode \in ConflictsWith[other.mode]

Running(p) == kind[p] # "none" /\ ~Done(p)
Waiting(p) == p \in ToSet(queue)

\* q holds a lock that conflicts with the one p wants.
Blocks(q, p) == q # p /\ \E lock \in held[q] : Conflict(lock, Wanted(p))

\* Where a process is in the queue, or would be put: in front of the first
\* one that waits for it.
Place(p) ==
    IF Waiting(p) THEN CHOOSE i \in 1..Len(queue) : queue[i] = p
    ELSE Min({i \in 1..Len(queue) : Blocks(p, queue[i])} \cup {Len(queue) + 1})

\* q is in front of p and wants a lock that conflicts with p's.
Precedes(q, p) ==
    /\ Waiting(q)
    /\ Conflict(Wanted(q), Wanted(p))
    /\ Place(q) < Place(p)

MustWait(p) == \E q \in Processes : Blocks(q, p) \/ Precedes(q, p)

\* p is in a cycle of waits: whatever set holds those p waits for, those they
\* wait for, and so on, holds p.
Deadlocked(p) ==
    /\ Waiting(p)
    /\ LET waits == {e \in Processes \X Processes : Waiting(e[1]) /\ Blocks(e[2], e[1])}
       IN  \A set \in SUBSET Processes :
              (\A e \in waits : e[1] \in set \cup {p} => e[2] \in set) => p \in set

\* The queue once p waits no longer.
QueueWithout(p) == IF Waiting(p) THEN RemoveAt(queue, Place(p)) ELSE queue

BeginTransaction(p, k) ==
    /\ kind[p] = "none"
    /\ k \in KindsOf(p)
    /\ kind' = [kind EXCEPT ![p] = k]
    /\ UNCHANGED <<next, held, queue>>

\* A statement waits for its lock.
Enqueue(p) ==
    /\ Running(p)
    /\ ~Waiting(p)
    /\ MustWait(p)
    /\ queue' = InsertAt(queue, Place(p), p)
    /\ UNCHANGED <<kind, next, held>>

\* A statement gets its lock and is executed.
Execute(p) ==
    /\ Running(p)
    /\ ~MustWait(p)
    /\ held' = [held EXCEPT ![p] = @ \cup {Wanted(p)}]
    /\ next' = [next EXCEPT ![p] = @ + 1]
    /\ queue' = QueueWithout(p)
    /\ UNCHANGED kind

\* archive_delete_batch found no row and deletes nothing.
SkipDelete(p) ==
    /\ kind[p] = "retention"
    /\ Running(p)
    /\ ~Waiting(p)
    /\ Wanted(p).mode = "rowExclusive"
    /\ Wanted(p).table # "metrics"
    /\ next' = [next EXCEPT ![p] = @ + 1]
    /\ UNCHANGED <<kind, held, queue>>

\* Mutant of EndTransaction: the connection is not closed.
EndKeepsLocks(p) ==
    /\ kind' = [kind EXCEPT ![p] = "none"]
    /\ next' = [next EXCEPT ![p] = 1]
    /\ queue' = QueueWithout(p)
    /\ UNCHANGED held

\* "with connect()" ends: the transaction is committed or rolled back and its
\* locks are released.  After an error a consumer tries again.
EndTransaction(p) ==
    /\ kind' = [kind EXCEPT ![p] = "none"]
    /\ next' = [next EXCEPT ![p] = 1]
    /\ held' = [held EXCEPT ![p] = {}]
    /\ queue' = QueueWithout(p)

CommitTransaction(p) ==
    /\ kind[p] # "none"
    /\ Done(p)
    /\ EndTransaction(p)

\* deadlock_timeout: a transaction in a cycle gets an error.
DetectDeadlock(p) ==
    /\ Deadlocked(p)
    /\ EndTransaction(p)

\* lock_timeout, which retention sets to two seconds.
LockTimeout(p) ==
    /\ kind[p] = "retention"
    /\ Waiting(p)
    /\ EndTransaction(p)

\* Any other error, or the end of the process.
Fail(p) ==
    /\ kind[p] # "none"
    /\ EndTransaction(p)

Proceed(p) == Enqueue(p) \/ Execute(p) \/ CommitTransaction(p) \/ DetectDeadlock(p)

LocksNext ==
    \E p \in Processes :
        \/ (\E k \in Kinds : BeginTransaction(p, k))
        \/ Proceed(p) \/ SkipDelete(p) \/ LockTimeout(p) \/ Fail(p)

LocksSpec == LocksInit /\ [][LocksNext]_lockVars

\* Fairness: a statement that can run does, one that cannot waits in the
\* queue, and a deadlock is detected.  Nothing obliges a process to begin, or
\* to fail.
FairLocksSpec == LocksSpec /\ \A p \in Processes : WF_lockVars(Proceed(p))

----------------------------------------------------------------------------
(* Properties.                                                             *)

\* Between the first statement of a batch and its commit nobody else inserts
\* positions, deletes or reads them.  IncrementalStaging rests on this.
BatchesAreAlone ==
    \A p, q \in Processes :
        /\ p # q
        /\ kind[p] = "batch"
        /\ next[p] > 1
        => \A lock \in held[q] : lock.table # "positions"

\* Only transactions that are retried get into a deadlock: those of consumers,
\* never a backup, a dbt run or a retention batch that waits for the archive.
OnlyConsumersDeadlock == \A p \in Processes : Deadlocked(p) => p \in Consumers

\* A consumer waits for no lock for ever, whether a backup, dbt, retention or
\* another consumer has it: each of its transactions ends.
ConsumersGoOn == \A p \in Consumers : kind[p] # "none" ~> kind[p] = "none"

============================================================================
