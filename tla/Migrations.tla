----------------------------- MODULE Migrations -----------------------------
(***************************************************************************)
(* The migration runner (scripts/migrate_database.py), which Compose runs  *)
(* once before the services of a release start.  A run is one transaction  *)
(* under an advisory lock: it reads the ledger schema_migrations, refuses  *)
(* to downgrade, checks every applied file against its checksum, executes  *)
(* the files that are not applied yet, each with its ledger row, and       *)
(* commits.  Runs of different releases may overlap and may die.           *)
(*                                                                         *)
(* A version is the stem of a file name; they are numbered in their order. *)
(* A file's content stands for its checksum.  A release gives each version *)
(* its content, or Absent.  PostgreSQL is modelled from how the code uses  *)
(* it.                                                                     *)
(***************************************************************************)
EXTENDS Integers

CONSTANTS
    Runners,       \* processes that run migrate_database
    NoRunner,      \* nobody
    Versions,      \* the versions, numbered in their order
    Contents,      \* the contents of migration files
    Releases,      \* the releases that may be deployed
    Legacy,        \* the migrations of a database older than the checksums
    Absent,        \* no such version
    NoChecksum,    \* the NULL checksum of a legacy row
    MaxRuns,       \* bound: runs started
    MaxFaults      \* bound: failures and crashes

Schemas == [Versions -> Contents \cup {Absent}]

Present(s) == {v \in Versions : s[v] # Absent}

Empty == [v \in Versions |-> Absent]

\* Rows without a checksum are trusted to be the file of that name.
ASSUME MigrationsAssumption ==
    /\ NoRunner \notin Runners
    /\ Versions \subseteq Nat
    /\ Absent \notin Contents
    /\ NoChecksum \notin Contents \cup {Absent}
    /\ Releases \subseteq Schemas
    /\ Legacy \in Schemas
    /\ \A release \in Releases, v \in Versions :
          Legacy[v] # Absent /\ release[v] # Absent => release[v] = Legacy[v]
    /\ MaxRuns \in Nat
    /\ MaxFaults \in Nat

VARIABLES
    schema,        \* the migrations executed, as committed
    ledger,        \* the checksums of schema_migrations, as committed
    lock,          \* the holder of the advisory lock
    pc,            \* where each run is
    release,       \* the release it belongs to
    applied,       \* the ledger as it read it
    handled,       \* the versions it has checked or executed
    started,       \* the releases whose services may start
    runs,          \* runs so far (for the bound)
    faults         \* faults so far (for the bound)

databaseVars == <<schema, ledger>>
runnerVars   == <<release, applied, handled>>
vars         == <<databaseVars, lock, pc, runnerVars, started, runs, faults>>

Ledgers == [Versions -> Contents \cup {Absent, NoChecksum}]

TypeOK ==
    /\ schema \in Schemas
    /\ ledger \in Ledgers
    /\ lock \in Runners \cup {NoRunner}
    /\ pc \in [Runners -> {"idle", "lock", "read", "files"}]
    /\ release \in [Runners -> Releases \cup {Empty}]
    /\ applied \in [Runners -> Ledgers]
    /\ handled \in [Runners -> SUBSET Versions]
    /\ started \subseteq Releases
    /\ runs \in Nat
    /\ faults \in Nat

\* A new database, or one whose rows have no checksum yet.
Init ==
    /\ schema \in {Empty, Legacy}
    /\ ledger = [v \in Versions |-> IF schema[v] = Absent THEN Absent ELSE NoChecksum]
    /\ lock = NoRunner
    /\ pc = [m \in Runners |-> "idle"]
    /\ release = [m \in Runners |-> Empty]
    /\ applied = [m \in Runners |-> Empty]
    /\ handled = [m \in Runners |-> {}]
    /\ started = {}
    /\ runs = 0
    /\ faults = 0

Fault ==
    /\ faults < MaxFaults
    /\ faults' = faults + 1

Goto(m, state) == pc' = [pc EXCEPT ![m] = state]

\* The process ends, and its transaction and lock with it.
End(m) ==
    /\ Goto(m, "idle")
    /\ release' = [release EXCEPT ![m] = Empty]
    /\ applied' = [applied EXCEPT ![m] = Empty]
    /\ handled' = [handled EXCEPT ![m] = {}]
    /\ lock' = IF lock = m THEN NoRunner ELSE lock

\* A release is deployed: Compose runs its migrate service.
Start(m) ==
    /\ pc[m] = "idle"
    /\ runs < MaxRuns
    /\ runs' = runs + 1
    /\ release' \in {[release EXCEPT ![m] = r] : r \in Releases}
    /\ Goto(m, "lock")
    /\ UNCHANGED <<databaseVars, lock, applied, handled, started, faults>>

\* Mutant of Lock: no advisory lock.
LockSkipped(m) ==
    /\ pc[m] = "lock"
    /\ Goto(m, "read")
    /\ UNCHANGED <<databaseVars, lock, runnerVars, started, runs, faults>>

\* pg_advisory_xact_lock waits for the other runs, up to lock_timeout.
Lock(m) ==
    /\ pc[m] = "lock"
    /\ lock = NoRunner
    /\ lock' = m
    /\ Goto(m, "read")
    /\ UNCHANGED <<databaseVars, runnerVars, started, runs, faults>>

\* The ledger is read; a version this release does not have is a downgrade.
Read(m) ==
    /\ pc[m] = "read"
    /\ IF Present(ledger) \subseteq Present(release[m])
       THEN /\ applied' = [applied EXCEPT ![m] = ledger]
            /\ Goto(m, "files")
            /\ UNCHANGED <<lock, release, handled>>
       ELSE End(m)
    /\ UNCHANGED <<databaseVars, started, runs, faults>>

\* The files are taken in the order of their versions.
NextFile(m, v) ==
    /\ pc[m] = "files"
    /\ v \in Present(release[m]) \ handled[m]
    /\ \A u \in Present(release[m]) \ handled[m] : v <= u

\* Mutant of Acceptable: applied files are not checked.
AnyApplied(m, v) ==
    applied[m][v] # Absent \/ \A u \in Present(applied[m]) : v >= u

\* An applied file has the recorded checksum or there is none; a new file
\* comes after every applied one.
Acceptable(m, v) ==
    IF applied[m][v] # Absent
    THEN applied[m][v] \in {NoChecksum, release[m][v]}
    ELSE \A u \in Present(applied[m]) : v >= u

\* An applied file gets its checksum; a new one is executed, and its row
\* inserted, in a savepoint of the transaction.
File(m, v) ==
    /\ NextFile(m, v)
    /\ IF Acceptable(m, v)
       THEN /\ handled' = [handled EXCEPT ![m] = @ \cup {v}]
            /\ UNCHANGED <<lock, pc, release, applied>>
       ELSE End(m)
    /\ UNCHANGED <<databaseVars, started, runs, faults>>

\* What the tables are once the transaction has committed.
Committed(m) ==
    /\ schema' = [v \in Versions |->
                    IF v \in handled[m] /\ applied[m][v] = Absent THEN release[m][v]
                                                                 ELSE schema[v]]
    /\ ledger' = [v \in Versions |-> IF v \in handled[m] THEN release[m][v] ELSE ledger[v]]

\* The run succeeds, and the services of its release start.
Commit(m) ==
    /\ pc[m] = "files"
    /\ handled[m] = Present(release[m])
    /\ Committed(m)
    /\ started' = started \cup {release[m]}
    /\ End(m)
    /\ UNCHANGED <<runs, faults>>

\* The connection is lost after the commit: the run reports a failure.
CommitOutcomeLost(m) ==
    /\ pc[m] = "files"
    /\ handled[m] = Present(release[m])
    /\ Fault
    /\ Committed(m)
    /\ End(m)
    /\ UNCHANGED <<started, runs>>

\* Mutant of Fail: the migrations are executed outside of the transaction.
FailAutocommitted(m) ==
    /\ pc[m] # "idle"
    /\ Fault
    /\ schema' = [v \in Versions |->
                    IF v \in handled[m] /\ applied[m][v] = Absent THEN release[m][v]
                                                                 ELSE schema[v]]
    /\ End(m)
    /\ UNCHANGED <<ledger, started, runs>>

\* A migration's SQL, the lock timeout or the process fails.
Fail(m) ==
    /\ pc[m] # "idle"
    /\ Fault
    /\ End(m)
    /\ UNCHANGED <<databaseVars, started, runs>>

Run(m) ==
    \/ Start(m) \/ Lock(m) \/ Read(m)
    \/ (\E v \in Versions : File(m, v))
    \/ Commit(m) \/ CommitOutcomeLost(m) \/ Fail(m)

Next == \E m \in Runners : Run(m)

Spec == Init /\ [][Next]_vars

----------------------------------------------------------------------------
(* Properties.                                                             *)

\* The ledger tells the truth: it has a row for exactly the migrations that
\* were executed, and the checksum in it is that of what was executed.
LedgerIsTrue ==
    \A v \in Versions :
        /\ ledger[v] = Absent <=> schema[v] = Absent
        /\ ledger[v] # NoChecksum => ledger[v] = schema[v]

\* The services of a release start only when each of its migrations has been
\* executed as that release has it, and no later run, of whatever release,
\* takes that away from them.
ServicesFindTheirSchema ==
    \A r \in started : \A v \in Present(r) : schema[v] = r[v]

\* The schema moves from release to release as a whole, whatever releases are
\* deployed at the same time, in any order, and wherever their runs die.
Released == INSTANCE ReleasedSchema

UpgradesOnly == Released!Spec

============================================================================
