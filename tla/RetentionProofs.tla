--------------------------- MODULE RetentionProofs --------------------------
(***************************************************************************)
(* Proofs about Retention: type correctness, that no history and no raw    *)
(* payload is lost, and that no two workers hold the same row, for any     *)
(* number of workers, batch sizes, crashes and dropped connections.        *)
(***************************************************************************)
EXTENDS Retention, FiniteSetTheorems, TLAPS

----------------------------------------------------------------------------
(* The inductive invariant.  HistoryIsKept is not inductive: a commit      *)
(* deletes what the transaction archived several steps before, and what a  *)
(* worker may delete depends on what the others have locked.               *)

\* The states in which a worker has no transaction.
OutsideStates == {"down", "list", "file", "unlink", "wait", "exit"}

\* A transaction deletes rows that are in the archive.
DeletedAreArchived(w) ==
    /\ pc[w] \in {"archive", "delete"} => table[w] \in Archived
    /\ pc[w] = "delete" => batch[w] \in objects
    /\ \A row \in deleted[w] : row.table \in Archived => InArchive(row)

\* A file is unlinked when it is in the archive.
UnlinkedIsArchived(w) ==
    pc[w] = "unlink" => Min(todo[w]) \in rawArchive

WorkerInv(w) ==
    /\ pc[w] \in OutsideStates => batch[w] = {} /\ deleted[w] = {} /\ ~connected[w]
    /\ Locked(w) \subseteq present
    /\ DeletedAreArchived(w)
    /\ UnlinkedIsArchived(w)

\* SKIP LOCKED: no two transactions hold the same row.
RowsAreLockedOnce ==
    \A v, w \in Workers : v # w => Locked(v) \cap Locked(w) = {}

IInv ==
    /\ TypeOK
    /\ IsFiniteSet(inserted)
    /\ HistoryIsKept
    /\ FilesAreKept
    /\ RowsAreLockedOnce
    /\ \A w \in Workers : WorkerInv(w)

----------------------------------------------------------------------------
(* Lemmas.                                                                 *)

LEMMA InitEstablishesIInv == Init => IInv
<1> SUFFICES ASSUME Init PROVE IInv
    OBVIOUS
<1>1. TypeOK
    BY RetentionAssumption DEF Init, TypeOK, Times, Tables, Files, ControlStates
<1>2. IsFiniteSet(inserted)
    BY FS_EmptySet DEF Init
<1>3. HistoryIsKept /\ FilesAreKept
    BY DEF Init, HistoryIsKept, FilesAreKept
<1>4. RowsAreLockedOnce
    BY DEF Init, RowsAreLockedOnce, Locked
<1>5. ASSUME NEW w \in Workers PROVE WorkerInv(w)
    BY DEF Init, WorkerInv, Locked, DeletedAreArchived, UnlinkedIsArchived, OutsideStates
<1> QED BY <1>1, <1>2, <1>3, <1>4, <1>5 DEF IInv

LEMMA StutterKeepsIInv ==
    ASSUME IInv, UNCHANGED vars
    PROVE  IInv'
BY DEF IInv, TypeOK, HistoryIsKept, FilesAreKept, RowsAreLockedOnce, WorkerInv, Locked,
       DeletedAreArchived, UnlinkedIsArchived, InArchive, vars, dataVars, storeVars, fileVars,
       workerVars, txVars, passVars

\* An object stays in the archive.
LEMMA InArchiveStays ==
    ASSUME objects \subseteq objects', NEW row, InArchive(row)
    PROVE  InArchive(row)'
BY DEF InArchive

\* The steps of a worker leave the others as they are.
OthersUnchanged(w) ==
    \A v \in Workers \ {w} :
        /\ pc'[v] = pc[v] /\ table'[v] = table[v] /\ batch'[v] = batch[v]
        /\ deleted'[v] = deleted[v] /\ connected'[v] = connected[v] /\ todo'[v] = todo[v]

LEMMA OthersKeep ==
    ASSUME IInv, NEW w \in Workers, NEW v \in Workers \ {w}, OthersUnchanged(w),
           objects \subseteq objects', rawArchive \subseteq rawArchive',
           \A row \in present : row \in present' \/ row \in Locked(w)
    PROVE  WorkerInv(v)' /\ Locked(v)' = Locked(v)
<1>1. WorkerInv(v)
    BY DEF IInv
<1>2. /\ pc'[v] = pc[v] /\ table'[v] = table[v] /\ batch'[v] = batch[v]
      /\ deleted'[v] = deleted[v] /\ connected'[v] = connected[v] /\ todo'[v] = todo[v]
    BY DEF OthersUnchanged
<1>3. Locked(v)' = Locked(v)
    BY <1>2 DEF Locked
<1>4. Locked(v) \subseteq present'
    BY <1>1 DEF IInv, RowsAreLockedOnce, WorkerInv
<1>5. DeletedAreArchived(v)'
    BY <1>1, <1>2, InArchiveStays DEF WorkerInv, DeletedAreArchived
<1>6. UnlinkedIsArchived(v)'
    BY <1>1, <1>2 DEF WorkerInv, UnlinkedIsArchived
<1> QED BY <1>1, <1>2, <1>3, <1>4, <1>5, <1>6 DEF WorkerInv

\* What a step of a worker has to show: it inserts and saves nothing, what it
\* takes from a table it had locked, and what it locks nobody else had.
LEMMA WorkerStep ==
    ASSUME IInv, NEW w \in Workers, OthersUnchanged(w), TypeOK', WorkerInv(w)',
           inserted' = inserted, saved' = saved,
           objects \subseteq objects', rawArchive \subseteq rawArchive',
           \A row \in present : row \in present' \/ (row \in deleted[w] /\ connected[w]),
           \A f \in raw : f \in raw' \/ f \in rawArchive',
           \A v \in Workers \ {w} : Locked(w)' \cap Locked(v) = {}
    PROVE  IInv'
<1>1. \A row \in present : row \in present' \/ row \in Locked(w)
    BY DEF Locked
<1>2. \A v \in Workers \ {w} : WorkerInv(v)' /\ Locked(v)' = Locked(v)
    BY <1>1, OthersKeep
<1>3. RowsAreLockedOnce'
    BY <1>2 DEF IInv, RowsAreLockedOnce
<1>4. HistoryIsKept'
    <2> SUFFICES ASSUME NEW row \in inserted, row.table \in Archived
                 PROVE  row \in present' \/ InArchive(row)'
        BY DEF HistoryIsKept
    <2>1. row \in present \/ InArchive(row)
        BY DEF IInv, HistoryIsKept
    <2>2. row \in deleted[w] => InArchive(row)
        BY DEF IInv, WorkerInv, DeletedAreArchived
    <2> QED BY <2>1, <2>2, InArchiveStays
<1>5. FilesAreKept'
    BY DEF IInv, FilesAreKept
<1> QED BY <1>2, <1>3, <1>4, <1>5 DEF IInv

\* A transaction that ends has nothing locked, and changed no table, or its
\* commit went through.
LEMMA EndKeepsIInv ==
    ASSUME IInv, NEW w \in Workers, NEW s \in {"down", "wait", "exit"},
           pc' = [pc EXCEPT ![w] = s], EndTransaction(w),
           UNCHANGED <<dataVars, stop, passVars, raw>>,
           faults' \in 0..MaxFaults,
           objects \subseteq objects', objects' \subseteq SUBSET Rows,
           rawArchive \subseteq rawArchive', rawArchive' \subseteq saved,
           present' = present \/ (connected[w] /\ present' = present \ deleted[w])
    PROVE  IInv'
<1>1. TypeOK'
    BY DEF IInv, TypeOK, EndTransaction, dataVars, passVars, ControlStates
<1>2. OthersUnchanged(w)
    BY DEF IInv, TypeOK, OthersUnchanged, EndTransaction, passVars
<1>3. /\ pc'[w] = s /\ batch'[w] = {} /\ deleted'[w] = {} /\ ~connected'[w]
    BY DEF IInv, TypeOK, EndTransaction
<1>4. WorkerInv(w)' /\ Locked(w)' = {}
    BY <1>3 DEF WorkerInv, Locked, DeletedAreArchived, UnlinkedIsArchived
<1>5. \A row \in present : row \in present' \/ (row \in deleted[w] /\ connected[w])
    OBVIOUS
<1>6. inserted' = inserted /\ saved' = saved /\ raw' = raw
    BY DEF dataVars
<1>7. \A v \in Workers \ {w} : Locked(w)' \cap Locked(v) = {}
    BY <1>4
<1> QED BY <1>1, <1>2, <1>4, <1>5, <1>6, <1>7, WorkerStep

----------------------------------------------------------------------------
(* The failures.                                                           *)

LEMMA FaultType ==
    ASSUME IInv, Fault
    PROVE  faults' \in 0..MaxFaults
BY RetentionAssumption DEF IInv, TypeOK, Fault

\* A worker learns that its connection, a statement or the archive failed, or
\* is killed.
LEMMA FailuresKeepIInv ==
    ASSUME IInv, NEW w \in Workers,
           \/ ArchiveFails(w) \/ StatementFails(w) \/ CommitOutcomeLost(w)
           \/ ArchiveFileFails(w) \/ Crash(w) \/ Disconnected(w)
    PROVE  IInv'
<1> USE FaultType DEF Caught, Uncaught, ArchiveError, dataVars, storeVars, fileVars, passVars
<1>t. /\ objects \subseteq SUBSET Rows /\ batch[w] \subseteq Rows /\ rawArchive \subseteq saved
      /\ raw \subseteq saved /\ faults \in 0..MaxFaults
    BY DEF IInv, TypeOK
<1>1. CASE ArchiveFails(w)
    <2>1. objects \subseteq objects' /\ objects' \subseteq SUBSET Rows
        BY <1>1, <1>t DEF ArchiveFails
    <2> QED BY <1>1, <1>t, <2>1, EndKeepsIInv DEF ArchiveFails
<1>2. CASE StatementFails(w)
    BY <1>2, <1>t, EndKeepsIInv DEF StatementFails
<1>3. CASE CommitOutcomeLost(w)
    BY <1>3, <1>t, EndKeepsIInv DEF CommitOutcomeLost
<1>4. CASE ArchiveFileFails(w)
    <2>1. rawArchive \subseteq rawArchive' /\ rawArchive' \subseteq saved
        BY <1>4, <1>t DEF ArchiveFileFails
    <2> QED BY <1>4, <1>t, <2>1, EndKeepsIInv DEF ArchiveFileFails
<1>5. CASE Crash(w)
    BY <1>5, <1>t, EndKeepsIInv DEF Crash
<1>6. CASE Disconnected(w)
    BY <1>6, <1>t, EndKeepsIInv DEF Disconnected
<1> QED BY <1>1, <1>2, <1>3, <1>4, <1>5, <1>6

\* The connection is dropped: the locks are free before the worker knows.
LEMMA DisconnectKeepsIInv ==
    ASSUME IInv, NEW w \in Workers, Disconnect(w)
    PROVE  IInv'
<1> USE DEF Disconnect, dataVars, storeVars, fileVars, passVars
<1>1. TypeOK'
    BY FaultType DEF IInv, TypeOK
<1>2. OthersUnchanged(w)
    BY DEF IInv, TypeOK, OthersUnchanged
<1>3. Locked(w)' = {}
    BY DEF IInv, TypeOK, Locked
<1>4. WorkerInv(w)'
    BY <1>3 DEF IInv, WorkerInv, DeletedAreArchived, UnlinkedIsArchived, InArchive, TypeOK
<1> QED BY <1>1, <1>2, <1>3, <1>4, WorkerStep

LEMMA SignalKeepsIInv ==
    ASSUME IInv, NEW w \in Workers, Signal(w)
    PROVE  IInv'
BY FaultType DEF Signal, IInv, TypeOK, HistoryIsKept, FilesAreKept, RowsAreLockedOnce,
       WorkerInv, Locked, DeletedAreArchived, UnlinkedIsArchived, InArchive, dataVars,
       storeVars, fileVars, txVars, passVars

----------------------------------------------------------------------------
(* Transactions.                                                           *)

\* The rows a statement may take are in its table, committed and locked by
\* nobody.
LEMMA OldestAreEligible ==
    ASSUME NEW w \in Workers, NEW n
    PROVE  /\ Oldest(Eligible(w), n) \subseteq present
           /\ \A r \in Oldest(Eligible(w), n) :
                 r.table = table[w] /\ \A v \in Workers : r \notin Locked(v)
BY DEF Oldest, Eligible

\* A transaction begins, with nothing locked.
LEMMA PassKeepsIInv ==
    ASSUME IInv, NEW w \in Workers, pc[w] \in {"down", "exit", "wait"}, Pass(w),
           UNCHANGED <<dataVars, storeVars, fileVars, faults>>,
           stop' \in [Workers -> BOOLEAN]
    PROVE  IInv'
<1> USE DEF Pass, Begin, dataVars, storeVars, fileVars
<1>1. TypeOK'
    <2>1. \A v \in Workers : MaxBatches[v] \in Nat \ {0}
        BY RetentionAssumption
    <2>2. /\ cutoff' \in [Workers -> Times] /\ todo' \in [Workers -> SUBSET Files]
          /\ batches' \in [Workers -> Nat]
          /\ \A v \in Workers : batches'[v] < MaxBatches[v]
        BY <2>1 DEF IInv, TypeOK
    <2>3. /\ pc' \in [Workers -> ControlStates] /\ table' \in [Workers -> Tables]
          /\ connected' \in [Workers -> BOOLEAN]
        BY DEF IInv, TypeOK, ControlStates, Tables
    <2> QED BY <2>2, <2>3 DEF IInv, TypeOK
<1>2. OthersUnchanged(w)
    BY DEF IInv, TypeOK, OthersUnchanged
<1>3. /\ pc'[w] = "select" /\ batch'[w] = {} /\ deleted'[w] = {}
    BY DEF IInv, TypeOK, WorkerInv, OutsideStates
<1>4. WorkerInv(w)' /\ Locked(w)' = {}
    BY <1>3 DEF WorkerInv, Locked, DeletedAreArchived, UnlinkedIsArchived, OutsideStates
<1> QED BY <1>1, <1>2, <1>4, WorkerStep

LEMMA StartAndWaitKeepIInv ==
    ASSUME IInv, NEW w \in Workers, Start(w) \/ Wait(w)
    PROVE  IInv'
<1>1. CASE Start(w)
    BY <1>1, PassKeepsIInv DEF Start, IInv, TypeOK
<1>2. CASE Wait(w) /\ ~stop[w]
    BY <1>2, PassKeepsIInv DEF Wait, IInv, TypeOK
<1>3. CASE Wait(w) /\ stop[w]
    BY <1>3 DEF Wait, IInv, TypeOK, ControlStates, HistoryIsKept, FilesAreKept,
       RowsAreLockedOnce, WorkerInv, Locked, DeletedAreArchived, UnlinkedIsArchived,
       InArchive, OutsideStates, dataVars, storeVars, fileVars, txVars, passVars
<1> QED BY <1>1, <1>2, <1>3

LEMMA SelectKeepsIInv ==
    ASSUME IInv, NEW w \in Workers, Select(w)
    PROVE  IInv'
<1> DEFINE rows == Oldest(Eligible(w), BatchSize)
<1> USE DEF dataVars, storeVars, fileVars, passVars
<1>0. /\ batch' = [batch EXCEPT ![w] = rows]
      /\ table[w] \in Archived /\ connected[w] /\ pc[w] = "select"
      /\ \/ table' = [table EXCEPT ![w] = NextTable[@]] /\ UNCHANGED pc
         \/ pc' = [pc EXCEPT ![w] = "archive"] /\ UNCHANGED table
      /\ UNCHANGED <<dataVars, storeVars, fileVars, stop, deleted, connected, passVars, faults>>
    BY DEF Select
<1>1. rows \subseteq present /\ \A r \in rows : \A v \in Workers : r \notin Locked(v)
    BY OldestAreEligible
<1> HIDE DEF rows
<1>2. TypeOK'
    <2>1. rows \in SUBSET Rows
        BY <1>1 DEF IInv, TypeOK
    <2> QED BY <1>0, <2>1 DEF IInv, TypeOK, ControlStates, NextTable, Tables, Archived
<1>3. OthersUnchanged(w)
    BY <1>0 DEF IInv, TypeOK, OthersUnchanged
<1>4. Locked(w)' = rows \cup deleted[w] /\ deleted[w] \subseteq Locked(w)
    BY <1>0 DEF IInv, TypeOK, Locked
<1>5. WorkerInv(w)'
    BY <1>0, <1>1, <1>4 DEF IInv, TypeOK, WorkerInv, DeletedAreArchived, UnlinkedIsArchived,
       InArchive, OutsideStates
<1>6. \A v \in Workers \ {w} : Locked(w)' \cap Locked(v) = {}
    BY <1>1, <1>4 DEF IInv, RowsAreLockedOnce
<1> QED BY <1>0, <1>2, <1>3, <1>5, <1>6, WorkerStep

LEMMA ArchiveKeepsIInv ==
    ASSUME IInv, NEW w \in Workers, Archive(w)
    PROVE  IInv'
<1> USE DEF Archive, dataVars, fileVars, passVars, txVars
<1>1. TypeOK'
    BY DEF IInv, TypeOK, ControlStates
<1>2. OthersUnchanged(w)
    BY DEF IInv, TypeOK, OthersUnchanged
<1>3. Locked(w)' = Locked(w)
    BY DEF Locked
<1>4. WorkerInv(w)'
    BY <1>3 DEF IInv, TypeOK, WorkerInv, DeletedAreArchived, UnlinkedIsArchived, InArchive,
       OutsideStates
<1> QED BY <1>1, <1>2, <1>3, <1>4, WorkerStep DEF IInv, RowsAreLockedOnce

LEMMA DeleteKeepsIInv ==
    ASSUME IInv, NEW w \in Workers, Delete(w)
    PROVE  IInv'
<1> USE DEF dataVars, storeVars, fileVars, passVars
<1>1. CASE ~(batch[w] \subseteq present)
    BY <1>1, EndKeepsIInv DEF Delete, Uncaught, IInv, TypeOK
<1>2. CASE batch[w] \subseteq present
    <2>0. /\ deleted' = [deleted EXCEPT ![w] = @ \cup batch[w]]
          /\ batch' = [batch EXCEPT ![w] = {}]
          /\ table' = [table EXCEPT ![w] = NextTable[@]]
          /\ pc' = [pc EXCEPT ![w] = "select"]
          /\ UNCHANGED <<dataVars, storeVars, fileVars, stop, connected, passVars, faults>>
          /\ pc[w] = "delete" /\ connected[w]
        BY <1>2 DEF Delete
    <2>1. TypeOK'
        BY <2>0 DEF IInv, TypeOK, ControlStates, WorkerInv, DeletedAreArchived, NextTable,
           Archived, Tables
    <2>2. OthersUnchanged(w)
        BY <2>0 DEF IInv, TypeOK, OthersUnchanged
    <2>3. Locked(w)' = Locked(w)
        BY <2>0 DEF IInv, TypeOK, Locked
    <2>4. batch[w] \in objects
        BY <2>0 DEF IInv, WorkerInv, DeletedAreArchived
    <2>5. WorkerInv(w)'
        BY <2>0, <2>3, <2>4 DEF IInv, TypeOK, WorkerInv, DeletedAreArchived,
           UnlinkedIsArchived, InArchive, OutsideStates
    <2> QED BY <2>0, <2>1, <2>2, <2>3, <2>5, WorkerStep DEF IInv, RowsAreLockedOnce
<1> QED BY <1>1, <1>2

LEMMA DeleteMetricsKeepsIInv ==
    ASSUME IInv, NEW w \in Workers, DeleteMetrics(w)
    PROVE  IInv'
<1> DEFINE rows == Oldest(Eligible(w), BatchSize)
<1> USE DEF dataVars, storeVars, fileVars, passVars
<1>0. /\ deleted' = [deleted EXCEPT ![w] = @ \cup rows]
      /\ pc' = [pc EXCEPT ![w] = "commit"]
      /\ pc[w] = "select" /\ connected[w] /\ table[w] = "metrics"
      /\ UNCHANGED <<dataVars, storeVars, fileVars, stop, table, batch, connected, passVars,
                     faults>>
    BY DEF DeleteMetrics
<1>1. /\ rows \subseteq present
      /\ \A r \in rows : r.table = "metrics" /\ \A v \in Workers : r \notin Locked(v)
    BY <1>0, OldestAreEligible
<1> HIDE DEF rows
<1>2. TypeOK'
    <2>1. rows \in SUBSET Rows
        BY <1>1 DEF IInv, TypeOK
    <2> QED BY <1>0, <2>1 DEF IInv, TypeOK, ControlStates
<1>3. OthersUnchanged(w)
    BY <1>0 DEF IInv, TypeOK, OthersUnchanged
<1>4. Locked(w)' = Locked(w) \cup rows /\ deleted'[w] = deleted[w] \cup rows
    BY <1>0 DEF IInv, TypeOK, Locked
<1>5. WorkerInv(w)'
    BY <1>0, <1>1, <1>4 DEF IInv, TypeOK, WorkerInv, DeletedAreArchived, UnlinkedIsArchived,
       InArchive, OutsideStates, Archived
<1>6. \A v \in Workers \ {w} : Locked(w)' \cap Locked(v) = {}
    BY <1>1, <1>4 DEF IInv, RowsAreLockedOnce
<1> QED BY <1>0, <1>2, <1>3, <1>5, <1>6, WorkerStep

LEMMA CommitKeepsIInv ==
    ASSUME IInv, NEW w \in Workers, Commit(w)
    PROVE  IInv'
<1> USE DEF dataVars, fileVars, Begin
<1>0. /\ present' = present \ deleted[w]
      /\ batch' = [batch EXCEPT ![w] = {}]
      /\ deleted' = [deleted EXCEPT ![w] = {}]
      /\ pc[w] = "commit" /\ connected[w]
      /\ UNCHANGED <<dataVars, objects, fileVars, stop, cutoff, todo, faults>>
    BY DEF Commit
<1>1. TypeOK' /\ pc'[w] \in {"list", "select"} /\ (pc'[w] = "list" => ~connected'[w])
    <2>1. /\ batches' \in [Workers -> Nat]
          /\ \A v \in Workers : batches'[v] < MaxBatches[v]
          /\ table' \in [Workers -> Tables]
        <3>0. \A v \in Workers : MaxBatches[v] \in Nat \ {0}
            BY RetentionAssumption
        <3>1. CASE LastBatch(w)
            BY <3>0, <3>1 DEF Commit, IInv, TypeOK
        <3>2. CASE ~LastBatch(w)
            <4>1. batches[w] \in Nat /\ batches[w] + 1 < MaxBatches[w]
                BY <3>0, <3>2 DEF LastBatch, IInv, TypeOK
            <4> QED BY <3>2, <4>1 DEF Commit, IInv, TypeOK, Tables
        <3> QED BY <3>1, <3>2
    <2>2. /\ pc' \in [Workers -> ControlStates] /\ connected' \in [Workers -> BOOLEAN]
          /\ pc'[w] \in {"list", "select"} /\ (pc'[w] = "list" => ~connected'[w])
        BY DEF Commit, IInv, TypeOK, ControlStates
    <2>3. present' \subseteq inserted /\ batch' \in [Workers -> SUBSET Rows]
          /\ deleted' \in [Workers -> SUBSET Rows]
        BY <1>0 DEF IInv, TypeOK
    <2> QED BY <1>0, <2>1, <2>2, <2>3 DEF IInv, TypeOK
<1>2. OthersUnchanged(w)
    BY DEF Commit, IInv, TypeOK, OthersUnchanged
<1>3. Locked(w)' = {}
    BY <1>0 DEF IInv, TypeOK, Locked
<1>4. WorkerInv(w)'
    BY <1>0, <1>1, <1>3 DEF IInv, TypeOK, WorkerInv, DeletedAreArchived, UnlinkedIsArchived,
       OutsideStates
<1> QED BY <1>0, <1>1, <1>2, <1>3, <1>4, WorkerStep

----------------------------------------------------------------------------
(* Files.                                                                  *)

LEMMA FilesKeepIInv ==
    ASSUME IInv, NEW w \in Workers,
           List(w) \/ ArchiveFile(w) \/ Unlink(w) \/ FilesDone(w)
    PROVE  IInv'
<1> USE DEF dataVars, storeVars, passVars
<1> DEFINE file == Min(todo[w])
<1>1. CASE List(w) \/ FilesDone(w)
    <2> USE DEF List, FilesDone, fileVars, txVars
    <2>1. TypeOK'
        BY <1>1 DEF IInv, TypeOK, ControlStates
    <2>2. OthersUnchanged(w) /\ Locked(w)' = Locked(w)
        BY <1>1 DEF IInv, TypeOK, OthersUnchanged, Locked
    <2>3. WorkerInv(w)'
        BY <1>1, <2>2 DEF IInv, TypeOK, WorkerInv, DeletedAreArchived, UnlinkedIsArchived,
           InArchive, OutsideStates
    <2> QED BY <1>1, <2>1, <2>2, <2>3, WorkerStep DEF IInv, RowsAreLockedOnce
<1>2. CASE ArchiveFile(w) /\ file \in raw
    <2>0. /\ pc[w] = "file" /\ pc' = [pc EXCEPT ![w] = "unlink"]
          /\ rawArchive' = rawArchive \cup {file}
          /\ UNCHANGED <<txVars, dataVars, storeVars, raw, stop, passVars, faults>>
        BY <1>2 DEF ArchiveFile
    <2>h. file \in raw
        BY <1>2
    <2> HIDE DEF file
    <2> USE DEF txVars
    <2>1. TypeOK'
        BY <2>0, <2>h DEF IInv, TypeOK, ControlStates
    <2>2. OthersUnchanged(w) /\ Locked(w)' = Locked(w)
        BY <2>0 DEF IInv, TypeOK, OthersUnchanged, Locked
    <2>3. UnlinkedIsArchived(w)'
        BY <2>0 DEF UnlinkedIsArchived, file
    <2>4. WorkerInv(w)'
        BY <2>0, <2>2, <2>3 DEF IInv, TypeOK, WorkerInv, DeletedAreArchived, InArchive,
           OutsideStates
    <2> QED BY <2>0, <2>1, <2>2, <2>4, WorkerStep DEF IInv, RowsAreLockedOnce
<1>3. CASE Unlink(w) /\ file \in raw
    <2>0. /\ pc[w] = "unlink" /\ pc' = [pc EXCEPT ![w] = "file"]
          /\ raw' = raw \ {file}
          /\ todo' = [todo EXCEPT ![w] = @ \ {file}]
          /\ UNCHANGED <<txVars, dataVars, storeVars, rawArchive, stop, cutoff, batches, faults>>
        BY <1>3 DEF Unlink, IInv, TypeOK
    <2>1. file \in rawArchive
        BY <2>0 DEF IInv, WorkerInv, UnlinkedIsArchived
    <2> HIDE DEF file
    <2> USE DEF txVars
    <2>2. TypeOK'
        BY <2>0 DEF IInv, TypeOK, ControlStates
    <2>3. OthersUnchanged(w) /\ Locked(w)' = Locked(w)
        BY <2>0 DEF IInv, TypeOK, OthersUnchanged, Locked
    <2>4. WorkerInv(w)'
        BY <2>0, <2>3 DEF IInv, TypeOK, WorkerInv, DeletedAreArchived, UnlinkedIsArchived,
           InArchive, OutsideStates
    <2> QED BY <2>0, <2>1, <2>2, <2>3, <2>4, WorkerStep DEF IInv, RowsAreLockedOnce
<1>4. CASE ArchiveFile(w) /\ file \notin raw
    BY <1>4, EndKeepsIInv DEF ArchiveFile, Caught, ArchiveError, Uncaught, IInv, TypeOK
<1>5. CASE Unlink(w) /\ file \notin raw
    <2>1. raw' = raw
        BY <1>5 DEF Unlink
    <2> QED BY <1>5, <2>1, EndKeepsIInv DEF Unlink, Caught, IInv, TypeOK
<1> QED BY <1>1, <1>2, <1>3, <1>4, <1>5

----------------------------------------------------------------------------
(* The rest of the platform.                                               *)

LEMMA InsertKeepsIInv ==
    ASSUME IInv, NEW t \in Tables, NEW time \in 0..clock, Insert(t, time)
    PROVE  IInv'
<1> DEFINE row == [table |-> t, id |-> Cardinality(inserted) + 1, time |-> time]
<1> USE DEF workerVars, txVars, passVars, fileVars
<1>1. Cardinality(inserted) \in Nat /\ Cardinality(inserted) < MaxRows
    BY FS_CardinalityType DEF IInv, Insert
<1>2. row \in Rows
    BY <1>1, RetentionAssumption DEF IInv, TypeOK, Rows, Times
<1>3. /\ inserted' = inserted \cup {row} /\ present' = present \cup {row}
      /\ UNCHANGED <<clock, saved, objects, fileVars, workerVars, faults>>
    BY DEF Insert
<1> HIDE DEF row
<1>4. TypeOK'
    BY <1>2, <1>3 DEF IInv, TypeOK
<1>5. IsFiniteSet(inserted')
    BY <1>3, FS_AddElement DEF IInv
<1>6. HistoryIsKept' /\ FilesAreKept'
    BY <1>3 DEF IInv, HistoryIsKept, FilesAreKept, InArchive
<1>7. RowsAreLockedOnce' /\ \A w \in Workers : WorkerInv(w)'
    BY <1>3 DEF IInv, RowsAreLockedOnce, WorkerInv, Locked, DeletedAreArchived,
       UnlinkedIsArchived, InArchive
<1> QED BY <1>4, <1>5, <1>6, <1>7 DEF IInv

LEMMA TickAndSaveKeepIInv ==
    ASSUME IInv, Tick \/ Save
    PROVE  IInv'
<1> USE DEF workerVars, txVars, passVars, storeVars
<1>1. TypeOK'
    <2>1. CASE Tick
        BY <2>1, RetentionAssumption DEF Tick, IInv, TypeOK, Times, fileVars
    <2>2. CASE Save
        BY <2>2 DEF Save, IInv, TypeOK, Files
    <2> QED BY <2>1, <2>2
<1>2. /\ UNCHANGED <<inserted, storeVars, workerVars, rawArchive, faults>>
      /\ saved' \subseteq raw' \cup rawArchive
    BY DEF Tick, Save, IInv, FilesAreKept, fileVars
<1>3. HistoryIsKept' /\ FilesAreKept'
    BY <1>2 DEF IInv, HistoryIsKept, FilesAreKept, InArchive
<1>4. RowsAreLockedOnce' /\ \A w \in Workers : WorkerInv(w)'
    BY <1>2 DEF IInv, RowsAreLockedOnce, WorkerInv, Locked, DeletedAreArchived,
       UnlinkedIsArchived, InArchive
<1> QED BY <1>1, <1>2, <1>3, <1>4 DEF IInv

LEMMA NextKeepsIInv == IInv /\ [Next]_vars => IInv'
<1> SUFFICES ASSUME IInv, [Next]_vars PROVE IInv'
    OBVIOUS
<1>1. ASSUME NEW w \in Workers, Work(w) PROVE IInv'
    BY <1>1, StartAndWaitKeepIInv, SelectKeepsIInv, ArchiveKeepsIInv, DeleteKeepsIInv,
       DeleteMetricsKeepsIInv, CommitKeepsIInv, FailuresKeepIInv, FilesKeepIInv DEF Work
<1>2. ASSUME NEW w \in Workers, Failure(w) PROVE IInv'
    BY <1>2, SignalKeepsIInv, DisconnectKeepsIInv, FailuresKeepIInv DEF Failure
<1> QED BY <1>1, <1>2, InsertKeepsIInv, TickAndSaveKeepIInv, StutterKeepsIInv DEF Next

----------------------------------------------------------------------------
(* The theorems.                                                           *)

\* The inductive invariant: what each transaction deletes is in the archive,
\* and is locked by it alone.
THEOREM InvariantHolds == Spec => []IInv
BY InitEstablishesIInv, NextKeepsIInv, PTL DEF Spec

\* The type invariant of the retention workers.
THEOREM TypeCorrect == Spec => []TypeOK
<1>1. IInv => TypeOK
    BY DEF IInv
<1> QED BY <1>1, InvariantHolds, PTL

\* A position or a dead letter that was ever inserted is in its table or in an
\* archived object.
THEOREM HistoryAlwaysKept == Spec => []HistoryIsKept
<1>1. IInv => HistoryIsKept
    BY DEF IInv
<1> QED BY <1>1, InvariantHolds, PTL

\* A raw payload file is unlinked only after it was archived.
THEOREM FilesAlwaysKept == Spec => []FilesAreKept
<1>1. IInv => FilesAreKept
    BY DEF IInv
<1> QED BY <1>1, InvariantHolds, PTL

\* The RuntimeError of archive_delete_batch ("Retention row count mismatch") is
\* never raised: the rows a live transaction selected are in the table until
\* it deletes them, since no other transaction takes one of them.
RowsWait == \A w \in Workers : connected[w] => batch[w] \subseteq present

THEOREM SelectedRowsWait == Spec => [](RowsWait /\ RowsAreLockedOnce)
<1>1. IInv => RowsWait /\ RowsAreLockedOnce
    BY DEF IInv, WorkerInv, Locked, RowsWait
<1> QED BY <1>1, InvariantHolds, PTL

=============================================================================
