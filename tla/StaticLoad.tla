----------------------------- MODULE StaticLoad -----------------------------
(***************************************************************************)
(* The load of the static GTFS feed (ingestion/static/load_static_gtfs.py):*)
(* the downloaded ZIP is archived, its tables are staged and validated,    *)
(* and one transaction under an advisory lock replaces the live tables and *)
(* adds a row to raw.static_load_history.  Several loads may run at once:  *)
(* the daily DAG and its retries, and those an operator starts by hand.    *)
(*                                                                         *)
(* The ZIP is named by its day and written in place: a second download of  *)
(* a day changes it under the loads that read it, and each of their steps  *)
(* reads it anew.  Its content is the number of a feed, or Torn while a    *)
(* download writes it.  The server may still have the feed of the download *)
(* before, but never goes back to an older one.                            *)
(*                                                                         *)
(* A table is the set of the feeds its rows come from.  PostgreSQL is READ *)
(* COMMITTED: a DELETE removes the rows committed before it, and no        *)
(* others.  It and the DAG are modelled from how the code uses them.  The  *)
(* archive is the local one.                                               *)
(***************************************************************************)
EXTENDS Integers, Sequences, FiniteSetsExt

CONSTANTS
    Loaders,       \* load processes
    NoLoader,      \* nobody
    Tables,        \* the tables of GTFS_TABLES
    Optional,      \* calendar and calendar_dates
    TablesIn,      \* the tables of each feed, numbered from 1
    Invalid,       \* feeds with a bad header or an empty required table
    Torn,          \* a file that is not written to its end
    None,          \* no content
    MaxDays,       \* bound: days, and so ZIP files
    MaxDownloads,  \* bound: downloads begun
    MaxLoads,      \* bound: loads started
    MaxFaults      \* bound: failures and crashes

Feeds == DOMAIN TablesIn

\* What a file may contain; its SHA-256 stands for it.
Contents == Feeds \cup {Torn}

ASSUME StaticLoadAssumption ==
    /\ NoLoader \notin Loaders
    /\ Optional \subseteq Tables
    /\ TablesIn \in Seq(SUBSET Tables)
    /\ Invalid \subseteq Feeds
    /\ Torn \notin Nat
    /\ None \notin Nat \cup {Torn}
    /\ MaxDays \in Nat
    /\ MaxDownloads \in Nat
    /\ MaxLoads \in Nat
    /\ MaxFaults \in Nat

VARIABLES
    zips,          \* the content of the ZIP of each day
    served,        \* the feed the server had at the last download
    archive,       \* the content of static/<name>.zip in the archive, or None
    live,          \* the rows of every live table, as committed
    history,       \* raw.static_load_history, with what each row loaded
    lock,          \* the holder of the advisory lock
    pc,            \* where each load is
    zip,           \* the day whose ZIP it reads, or 0
    name,          \* the checksum it names the archived file by
    checksum,      \* the checksum archive_file computed
    feed,          \* the feed it loads
    undisturbed,   \* no download wrote to its ZIP while it read it (for properties)
    removed,       \* the rows its transaction deleted from each table
    loaded,        \* the tables its transaction filled
    downloads,     \* downloads begun so far (for the bound)
    loads,         \* loads started so far (for the bound)
    faults         \* faults so far

fileVars     == <<zips, served, archive>>
databaseVars == <<live, history>>
readVars     == <<zip, name, checksum, feed, undisturbed>>
writeVars    == <<removed, loaded>>
counts       == <<downloads, loads, faults>>
vars         == <<fileVars, databaseVars, lock, pc, readVars, writeVars, counts>>

ControlStates == {"idle", "archive", "copy", "link", "open", "lock", "stage",
                  "activate", "commit"}

Rows == [checksum : Contents, feed : Feeds, undisturbed : BOOLEAN]

TypeOK ==
    /\ zips \in Seq(Contents)
    /\ served \in 0..Len(TablesIn)
    /\ archive \in [Contents -> Contents \cup {None}]
    /\ live \in [Tables -> SUBSET Feeds]
    /\ history \in Seq(Rows)
    /\ lock \in Loaders \cup {NoLoader}
    /\ \A l \in Loaders : lock = l => pc[l] \in {"stage", "activate", "commit"}
    /\ pc \in [Loaders -> ControlStates]
    /\ zip \in [Loaders -> 0..Len(zips)]
    /\ name \in [Loaders -> Contents \cup {None}]
    /\ checksum \in [Loaders -> Contents \cup {None}]
    /\ feed \in [Loaders -> Feeds \cup {None}]
    /\ undisturbed \in [Loaders -> BOOLEAN]
    /\ removed \in [Loaders -> [Tables -> SUBSET Feeds]]
    /\ loaded \in [Loaders -> SUBSET Tables]
    /\ downloads \in Nat
    /\ loads \in Nat
    /\ faults \in Nat

Nothing == [t \in Tables |-> {}]

Init ==
    /\ zips = <<>>
    /\ served = 0
    /\ archive = [c \in Contents |-> None]
    /\ live = Nothing
    /\ history = <<>>
    /\ lock = NoLoader
    /\ pc = [l \in Loaders |-> "idle"]
    /\ zip = [l \in Loaders |-> 0]
    /\ name = [l \in Loaders |-> None]
    /\ checksum = [l \in Loaders |-> None]
    /\ feed = [l \in Loaders |-> None]
    /\ undisturbed = [l \in Loaders |-> TRUE]
    /\ removed = [l \in Loaders |-> Nothing]
    /\ loaded = [l \in Loaders |-> {}]
    /\ downloads = 0
    /\ loads = 0
    /\ faults = 0

Fault ==
    /\ faults < MaxFaults
    /\ faults' = faults + 1

Goto(l, state) == pc' = [pc EXCEPT ![l] = state]

\* The process forgets what it read and what its transaction did.
Forget(l) ==
    /\ Goto(l, "idle")
    /\ zip' = [zip EXCEPT ![l] = 0]
    /\ name' = [name EXCEPT ![l] = None]
    /\ checksum' = [checksum EXCEPT ![l] = None]
    /\ feed' = [feed EXCEPT ![l] = None]
    /\ undisturbed' = [undisturbed EXCEPT ![l] = TRUE]
    /\ removed' = [removed EXCEPT ![l] = Nothing]
    /\ loaded' = [loaded EXCEPT ![l] = {}]

\* The load ends, and the lock goes with its transaction.
End(l) == Forget(l) /\ lock' = IF lock = l THEN NoLoader ELSE lock

----------------------------------------------------------------------------
(* The files: download_mbta_gtfs.py, the checksums and the archive.        *)

\* The ZIP of a day changes under the loads that still read it.
WriteZip(day, content) ==
    /\ zips' = [zips EXCEPT ![day] = content]
    /\ undisturbed' = [l \in Loaders |-> undisturbed[l] /\ zip[l] # day]

\* A download begins, on a new day or again on the same one, by the DAG or by
\* hand: write_bytes empties the file first.
BeginDownload ==
    /\ downloads < MaxDownloads
    /\ downloads' = downloads + 1
    /\ \/ Len(zips) < MaxDays /\ zips' = Append(zips, Torn) /\ UNCHANGED undisturbed
       \/ zips # <<>> /\ WriteZip(Len(zips), Torn)
    /\ UNCHANGED <<served, archive, databaseVars, lock, pc, zip, name, checksum, feed,
                   writeVars, loads, faults>>

\* It is written to the end; one that dies before leaves the file torn.
EndDownload ==
    /\ zips # <<>>
    /\ zips[Len(zips)] = Torn
    /\ served' \in {served, served + 1} \cap Feeds
    /\ WriteZip(Len(zips), served')
    /\ UNCHANGED <<archive, databaseVars, lock, pc, zip, name, checksum, feed, writeVars,
                   counts>>

\* latest_static_zip picks the newest ZIP, whose checksum names its archive.
Start(l) ==
    /\ pc[l] = "idle"
    /\ zips # <<>>
    /\ loads < MaxLoads
    /\ loads' = loads + 1
    /\ zip' = [zip EXCEPT ![l] = Len(zips)]
    /\ name' = [name EXCEPT ![l] = zips[Len(zips)]]
    /\ Goto(l, "archive")
    /\ UNCHANGED <<fileVars, databaseVars, lock, checksum, feed, undisturbed, writeVars,
                   downloads, faults>>

\* The file a load reads, as it is now.
Read(l) == zips[zip[l]]

\* Mutant of Archive: a file of that name is taken for the same one.
ArchiveTrustsName(l) ==
    /\ pc[l] = "archive"
    /\ IF archive[name[l]] = None
       THEN Goto(l, "copy") /\ checksum' = [checksum EXCEPT ![l] = Read(l)]
       ELSE Goto(l, "open") /\ UNCHANGED checksum
    /\ UNCHANGED <<fileVars, databaseVars, lock, zip, name, feed, undisturbed, writeVars,
                   counts>>

\* Mutant of Archive: a collision is tried again until there is none.
ArchiveRetried(l) ==
    /\ pc[l] = "archive"
    /\ archive[name[l]] \in {None, Read(l)}
    /\ checksum' = [checksum EXCEPT ![l] = IF archive[name[l]] = None THEN Read(l) ELSE @]
    /\ Goto(l, IF archive[name[l]] = None THEN "copy" ELSE "open")
    /\ UNCHANGED <<fileVars, databaseVars, lock, zip, name, feed, undisturbed, writeVars,
                   counts>>

\* archive_file computes its own checksum; a file of that name that has
\* another one is a collision, which ends the load.
Archive(l) ==
    /\ pc[l] = "archive"
    /\ \/ /\ archive[name[l]] = None
          /\ checksum' = [checksum EXCEPT ![l] = Read(l)]
          /\ Goto(l, "copy")
          /\ UNCHANGED <<lock, zip, name, feed, undisturbed, writeVars>>
       \/ /\ archive[name[l]] = Read(l)
          /\ Goto(l, "open")
          /\ UNCHANGED <<lock, readVars, writeVars>>
       \/ archive[name[l]] \notin {None, Read(l)} /\ End(l)
    /\ UNCHANGED <<fileVars, databaseVars, counts>>

\* The file is copied; the copy and the file must have the checksum.
Copy(l) ==
    /\ pc[l] = "copy"
    /\ IF Read(l) = checksum[l]
       THEN Goto(l, "link") /\ UNCHANGED <<lock, readVars, writeVars>>
       ELSE End(l)
    /\ UNCHANGED <<fileVars, databaseVars, counts>>

\* Mutant of Linked: os.replace.
Replaced(l) == [archive EXCEPT ![name[l]] = checksum[l]]

\* os.link gives the copy its name and replaces nothing.
Linked(l) == [archive EXCEPT ![name[l]] = IF @ = None THEN checksum[l] ELSE @]

\* A file another load linked meanwhile must be the same one.
Link(l) ==
    /\ pc[l] = "link"
    /\ archive' = Linked(l)
    /\ IF archive'[name[l]] = checksum[l]
       THEN /\ Goto(l, "open")
            /\ checksum' = [checksum EXCEPT ![l] = None]
            /\ UNCHANGED <<lock, zip, name, feed, undisturbed, writeVars>>
       ELSE End(l)
    /\ UNCHANGED <<zips, served, databaseVars, counts>>

----------------------------------------------------------------------------
(* The load: load_static_gtfs and its transaction.                         *)

\* A feed needs the required tables and one of the calendars.
Complete(f) ==
    /\ Tables \ Optional \subseteq TablesIn[f]
    /\ Optional \cap TablesIn[f] # {}

\* The ZIP is opened, what it holds by now; a torn one has no directory.
Open(l) ==
    /\ pc[l] = "open"
    /\ IF Read(l) # Torn /\ Complete(Read(l))
       THEN /\ feed' = [feed EXCEPT ![l] = Read(l)]
            /\ Goto(l, "lock")
            /\ UNCHANGED <<lock, zip, name, checksum, undisturbed, writeVars>>
       ELSE End(l)
    /\ UNCHANGED <<fileVars, databaseVars, counts>>

\* Mutant of Lock: no advisory lock.
LockSkipped(l) ==
    /\ pc[l] = "lock"
    /\ Goto(l, "stage")
    /\ UNCHANGED <<fileVars, databaseVars, lock, readVars, writeVars, counts>>

\* pg_advisory_xact_lock waits for other loads, up to lock_timeout.
Lock(l) ==
    /\ pc[l] = "lock"
    /\ lock = NoLoader
    /\ lock' = l
    /\ Goto(l, "stage")
    /\ UNCHANGED <<fileVars, databaseVars, readVars, writeVars, counts>>

\* Every table is copied from the ZIP to a stage table and validated.  A ZIP
\* that changed since it was opened fails its entries' headers or CRCs.  After
\* that it is read no more.
Stage(l) ==
    /\ pc[l] = "stage"
    /\ IF Read(l) # feed[l] \/ feed[l] \in Invalid
       THEN End(l)
       ELSE /\ Goto(l, "activate")
            /\ zip' = [zip EXCEPT ![l] = 0]
            /\ UNCHANGED <<lock, name, checksum, feed, undisturbed, writeVars>>
    /\ UNCHANGED <<fileVars, databaseVars, counts>>

\* The live tables are emptied and filled from their stage tables, one by one.
Activate(l) ==
    /\ pc[l] = "activate"
    /\ loaded[l] # TablesIn[feed[l]]
    /\ LET t == CHOOSE u \in TablesIn[feed[l]] \ loaded[l] : TRUE
       IN  /\ removed' = [removed EXCEPT ![l][t] = live[t]]
           /\ loaded' = [loaded EXCEPT ![l] = @ \cup {t}]
    /\ UNCHANGED <<fileVars, databaseVars, lock, pc, readVars, counts>>

\* After all of them, a calendar that is not in the feed is emptied.
ClearOptional(l) ==
    /\ pc[l] = "activate"
    /\ loaded[l] = TablesIn[feed[l]]
    /\ removed' = [removed EXCEPT ![l] = [t \in Tables |->
                      IF t \in Optional \ loaded[l] THEN live[t] ELSE @[t]]]
    /\ Goto(l, "commit")
    /\ UNCHANGED <<fileVars, databaseVars, lock, readVars, loaded, counts>>

\* The history row, with the checksum that names the archive, is inserted and
\* the transaction commits.  The same happens when the connection is lost
\* after that, but the process reports a failure.
Commit(l) ==
    /\ pc[l] = "commit"
    /\ live' = [t \in Tables |-> (live[t] \ removed[l][t])
                                   \cup (IF t \in loaded[l] THEN {feed[l]} ELSE {})]
    /\ history' = Append(history, [checksum |-> name[l], feed |-> feed[l],
                                   undisturbed |-> undisturbed[l]])
    /\ End(l)
    /\ UNCHANGED <<fileVars, counts>>

\* A statement, the archive (after it linked the copy, or before), a lock
\* timeout or the process fails.
Fail(l) ==
    /\ pc[l] # "idle"
    /\ Fault
    /\ archive' \in {archive, IF pc[l] = "link" THEN Linked(l) ELSE archive}
    /\ End(l)
    /\ UNCHANGED <<zips, served, databaseVars, downloads, loads>>

Load(l) ==
    \/ Start(l) \/ Archive(l) \/ Copy(l) \/ Link(l) \/ Open(l)
    \/ Lock(l) \/ Stage(l) \/ Activate(l) \/ ClearOptional(l) \/ Commit(l)

Next ==
    \/ BeginDownload \/ EndDownload
    \/ \E l \in Loaders : Load(l) \/ Fail(l)

Spec == Init /\ [][Next]_vars

\* Fairness: a load that began goes on; the lock is held for a bounded time.
FairSpec ==
    /\ Spec
    /\ \A l \in Loaders : WF_vars(pc[l] # "idle" /\ Load(l)) /\ SF_vars(Lock(l))

----------------------------------------------------------------------------
(* Properties.                                                             *)

FeedRows(f) == [t \in Tables |-> IF t \in TablesIn[f] THEN {f} ELSE {}]

\* At every moment the live tables are exactly one feed, that of the newest
\* history row, a complete and valid one, all tables of it and no row of
\* another one: however loads overlap, fail or crash and whatever the ZIP they
\* read becomes.
LiveIsOneFeed ==
    IF history = <<>> THEN live = Nothing
    ELSE LET newest == history[Len(history)].feed
         IN  /\ live = FeedRows(newest)
             /\ Complete(newest)
             /\ newest \notin Invalid

ArchivedAs(row) == archive[row.checksum]

\* The archive file a history row names exists, and if no download wrote to the
\* ZIP while the load read it, that file is the feed the load made live: also
\* when the archive has something else under its name, which a load that was
\* disturbed left there.
HistoryIsArchived ==
    \A i \in 1..Len(history) :
        /\ ArchivedAs(history[i]) # None
        /\ history[i].undisturbed => ArchivedAs(history[i]) = history[i].feed

\* What README.md says of the loader, that it preserves the original artifact
\* and records its checksum, and docs/tripupdates-ml-design.md of the ledger,
\* that it preserves the inputs: what is archived under the path of a history
\* row is the feed that row loaded.  It is not when a download, the first of its
\* day or a later one, writes the ZIP while the load reads it.
RowsNameTheirFeed ==
    \A i \in 1..Len(history) : ArchivedAs(history[i]) = history[i].feed

\* An archived file is never replaced, whatever two loads that saw different
\* contents under one name do.
ArchiveIsKept == [][\A c \in Contents : archive[c] # None => archive'[c] = archive[c]]_vars

\* No load waits for ever: each one ends, whoever holds the lock.
LoadsEnd == \A l \in Loaders : pc[l] # "idle" ~> pc[l] = "idle"

============================================================================
