------------------------------- MODULE Backup -------------------------------
(***************************************************************************)
(* PostgreSQL backups (scripts/postgres_backup.py): a dump is written to a *)
(* .partial file, listed by pg_restore, renamed to .dump, given a SHA-256  *)
(* sidecar and uploaded to S3 with it; the latest-success manifest comes   *)
(* last and the status file after it.  The daily timer's run and one       *)
(* started by hand may overlap.  A restore goes into a new database.       *)
(*                                                                         *)
(* A backup is a number; its file name is the time it was started at, so   *)
(* no two share one.  pg_dump, pg_restore, S3 and the operator who copies  *)
(* a dump are modelled from how the code uses them.                        *)
(***************************************************************************)
EXTENDS Integers, FiniteSets

CONSTANTS
    Runs,          \* processes of "backup": the timer's and one by hand
    Names,         \* names of restore targets
    MaxBackups,    \* bound: backups started
    MaxFaults      \* bound: failures and kills

ASSUME BackupAssumption ==
    /\ MaxBackups \in Nat \ {0}
    /\ MaxFaults \in Nat

Backups == 1..MaxBackups

VARIABLES
    started,       \* backups started so far
    file,          \* the local file of each backup
    whole,         \* the backups whose file holds the complete dump
    sidecars,      \* the local SHA-256 sidecars
    objects,       \* the dumps and sidecars in S3, and whether they are intact
    manifest,      \* the backup latest-success.json names, 0 for none
    status,        \* the status file: the backup it reports, 0 for a failure
    pc,            \* where each run is
    backup,        \* the backup it makes
    databases,     \* the restore targets
    faults         \* faults so far

localVars  == <<started, file, whole, sidecars>>
s3Vars     == <<objects, manifest>>
runVars    == <<pc, backup>>
vars       == <<localVars, s3Vars, status, runVars, databases, faults>>

\* What a run uploads, where it uploads and verifies each, and where it goes
\* after that.
Uploads == {"dump", "sidecar", "manifest"}
PutAt   == [dump |-> "putDump", sidecar |-> "putSidecar", manifest |-> "putManifest"]
HeadAt  == [dump |-> "headDump", sidecar |-> "headSidecar", manifest |-> "headManifest"]
AfterIt == [dump |-> "putSidecar", sidecar |-> "putManifest", manifest |-> "success"]

ControlStates ==
    {"idle", "pgDump", "list", "rename", "writeSidecar", "putDump", "headDump",
     "putSidecar", "headSidecar", "putManifest", "headManifest", "success",
     "uploadFailed", "failed"}

Databases == [is : {"absent", "empty"}]
                 \cup [is : {"loading", "loaded"}, of : Backups, intact : BOOLEAN]

TypeOK ==
    /\ started \in 0..MaxBackups
    /\ file \in [Backups -> {"none", "partial", "dump"}]
    /\ whole \subseteq Backups
    /\ sidecars \subseteq Backups
    /\ objects \in [Backups -> [{"dump", "sidecar"} -> {"none", "intact", "altered"}]]
    /\ manifest \in 0..MaxBackups
    /\ status \in 0..MaxBackups
    /\ pc \in [Runs -> ControlStates]
    /\ backup \in [Runs -> 0..MaxBackups]
    /\ \A q, r \in Runs : q # r /\ backup[q] = backup[r] => backup[q] = 0
    /\ databases \in [Names -> Databases]
    /\ faults \in 0..MaxFaults

Init ==
    /\ started = 0
    /\ file = [b \in Backups |-> "none"]
    /\ whole = {}
    /\ sidecars = {}
    /\ objects = [b \in Backups |-> [o \in {"dump", "sidecar"} |-> "none"]]
    /\ manifest = 0
    /\ status = 0
    /\ pc = [r \in Runs |-> "idle"]
    /\ backup = [r \in Runs |-> 0]
    /\ databases = [n \in Names |-> [is |-> "absent"]]
    /\ faults = 0

Fault ==
    /\ faults < MaxFaults
    /\ faults' = faults + 1

Goto(r, state) == pc' = [pc EXCEPT ![r] = state]

----------------------------------------------------------------------------
(* backup.                                                                 *)

\* The timer, or an operator, starts a run; it creates the .partial file.
Start(r) ==
    /\ pc[r] = "idle"
    /\ started < MaxBackups
    /\ started' = started + 1
    /\ file' = [file EXCEPT ![started + 1] = "partial"]
    /\ backup' = [backup EXCEPT ![r] = started + 1]
    /\ Goto(r, "pgDump")
    /\ UNCHANGED <<whole, sidecars, s3Vars, status, databases, faults>>

\* Mutant of PgDump: a .partial file is taken for the sign of a run at work.
PgDumpAlone(r) ==
    /\ pc[r] = "pgDump"
    /\ \A b \in Backups \ {backup[r]} : file[b] # "partial"
    /\ whole' = whole \cup {backup[r]}
    /\ Goto(r, "list")
    /\ UNCHANGED <<started, file, sidecars, s3Vars, status, backup, databases, faults>>

\* pg_dump exits with 0.
PgDump(r) ==
    /\ pc[r] = "pgDump"
    /\ whole' = whole \cup {backup[r]}
    /\ Goto(r, "list")
    /\ UNCHANGED <<started, file, sidecars, s3Vars, status, backup, databases, faults>>

\* pg_restore --list reads the table of contents at the head of the dump.
List(r) ==
    /\ pc[r] = "list"
    /\ Goto(r, "rename")
    /\ UNCHANGED <<localVars, s3Vars, status, backup, databases, faults>>

\* The dump is digested and published.
Rename(r) ==
    /\ pc[r] = "rename"
    /\ file' = [file EXCEPT ![backup[r]] = "dump"]
    /\ Goto(r, "writeSidecar")
    /\ UNCHANGED <<started, whole, sidecars, s3Vars, status, backup, databases, faults>>

WriteSidecar(r) ==
    /\ pc[r] = "writeSidecar"
    /\ sidecars' = sidecars \cup {backup[r]}
    /\ Goto(r, "putDump")
    /\ UNCHANGED <<started, file, whole, s3Vars, status, backup, databases, faults>>

\* S3 has the object from now on; what was stored may differ from the file.
\* A manifest that was altered names no backup.
Stored(r, u, how) ==
    IF u = "manifest"
    THEN /\ manifest' = IF how = "intact" THEN backup[r] ELSE 0
         /\ UNCHANGED objects
    ELSE /\ objects' = [objects EXCEPT ![backup[r]][u] = how]
         /\ UNCHANGED manifest

Put(r, u) ==
    /\ pc[r] = PutAt[u]
    /\ Stored(r, u, "intact")
    /\ Goto(r, HeadAt[u])
    /\ UNCHANGED <<localVars, status, backup, databases, faults>>

PutAltered(r, u) ==
    /\ pc[r] = PutAt[u]
    /\ Fault
    /\ Stored(r, u, "altered")
    /\ Goto(r, HeadAt[u])
    /\ UNCHANGED <<localVars, status, backup, databases>>

\* What HeadObject, or the object's own bytes, show to be what was uploaded.
\* Another run may have replaced the manifest meanwhile.
AsUploaded(r, u) ==
    IF u = "manifest" THEN manifest = backup[r] ELSE objects[backup[r]][u] = "intact"

\* Mutant of Head: an upload that returns is taken for good.
HeadUnchecked(r, u) ==
    /\ pc[r] = HeadAt[u]
    /\ Goto(r, AfterIt[u])
    /\ UNCHANGED <<localVars, s3Vars, status, backup, databases, faults>>

Head(r, u) ==
    /\ pc[r] = HeadAt[u]
    /\ Goto(r, IF AsUploaded(r, u) THEN AfterIt[u] ELSE "uploadFailed")
    /\ UNCHANGED <<localVars, s3Vars, status, backup, databases, faults>>

\* The run is over; "finally" removes the .partial file, if it is one.
End(r) ==
    /\ file' = [file EXCEPT ![backup[r]] = IF @ = "partial" THEN "none" ELSE @]
    /\ Goto(r, "idle")
    /\ backup' = [backup EXCEPT ![r] = 0]
    /\ UNCHANGED <<started, whole, sidecars>>

\* write_status replaces the status file in one step.
WriteStatus(b) == status' = b

\* The success is written to the status file and the run ends.
Succeed(r) ==
    /\ pc[r] = "success"
    /\ WriteStatus(backup[r])
    /\ End(r)
    /\ UNCHANGED <<s3Vars, databases, faults>>

----------------------------------------------------------------------------
(* Failures.                                                               *)

\* pg_dump fails and leaves a part of the dump.
PgDumpFails(r) ==
    /\ pc[r] = "pgDump"
    /\ Fault
    /\ Goto(r, "failed")
    /\ UNCHANGED <<localVars, s3Vars, status, backup, databases>>

\* pg_restore --list, the rename, the sidecar or the status file fails.
LocalFails(r) ==
    /\ pc[r] \in {"list", "rename", "writeSidecar", "success"}
    /\ Fault
    /\ Goto(r, "failed")
    /\ UNCHANGED <<localVars, s3Vars, status, backup, databases>>

\* Mutant of UploadFails: the exception is logged, and the run goes on.
UploadFailsGoesOn(r, u) ==
    /\ pc[r] \in {PutAt[u], HeadAt[u]}
    /\ Fault
    /\ Goto(r, AfterIt[u])
    /\ UNCHANGED <<localVars, s3Vars, status, backup, databases>>

\* An upload or its verification raises.
UploadFails(r, u) ==
    /\ pc[r] \in {PutAt[u], HeadAt[u]}
    /\ Fault
    /\ Goto(r, "uploadFailed")
    /\ UNCHANGED <<localVars, s3Vars, status, backup, databases>>

\* upload_backup writes the failure to the status file and raises again.
ReportUpload(r) ==
    /\ pc[r] = "uploadFailed"
    /\ WriteStatus(0)
    /\ Goto(r, "failed")
    /\ UNCHANGED <<localVars, s3Vars, backup, databases, faults>>

\* main writes it once more, and the process exits with the error.
ReportFailure(r) ==
    /\ pc[r] = "failed"
    /\ WriteStatus(0)
    /\ End(r)
    /\ UNCHANGED <<s3Vars, databases, faults>>

\* The process is killed (TimeoutStartSec, a reboot): nothing is removed.
Kill(r) ==
    /\ pc[r] # "idle"
    /\ Fault
    /\ Goto(r, "idle")
    /\ backup' = [backup EXCEPT ![r] = 0]
    /\ UNCHANGED <<localVars, s3Vars, status, databases>>

----------------------------------------------------------------------------
(* restore.                                                                *)

\* A dump and its sidecar that an operator can get at, here or from S3.
Obtainable(b) ==
    \/ file[b] = "dump" /\ b \in sidecars
    \/ objects[b]["dump"] # "none" /\ objects[b]["sidecar"] = "intact"

\* Mutant of DigestMatches: the sidecar is not read.
DigestIgnored(intact) == intact \in BOOLEAN

\* restore compares the digest of its copy with the sidecar.
DigestMatches(intact) == intact

\* createdb refuses a database that exists.
CreateDatabase(n, b, intact) ==
    /\ Obtainable(b)
    /\ DigestMatches(intact)
    /\ databases[n].is = "absent"
    /\ databases' = [databases EXCEPT ![n] = [is |-> "loading", of |-> b, intact |-> intact]]
    /\ UNCHANGED <<localVars, s3Vars, status, runVars, faults>>

\* pg_restore loads everything in one transaction.
LoadDatabase(n) ==
    /\ databases[n].is = "loading"
    /\ databases' = [databases EXCEPT ![n].is = "loaded"]
    /\ UNCHANGED <<localVars, s3Vars, status, runVars, faults>>

\* It fails or is killed, and the new database stays empty.
LoadFails(n) ==
    /\ databases[n].is = "loading"
    /\ Fault
    /\ databases' = [databases EXCEPT ![n] = [is |-> "empty"]]
    /\ UNCHANGED <<localVars, s3Vars, status, runVars>>

----------------------------------------------------------------------------

Upload(r) == \E u \in Uploads : Put(r, u) \/ Head(r, u)

Run(r) ==
    \/ Start(r) \/ PgDump(r) \/ List(r) \/ Rename(r) \/ WriteSidecar(r)
    \/ Upload(r) \/ Succeed(r) \/ ReportUpload(r) \/ ReportFailure(r)

Failure(r) ==
    \/ PgDumpFails(r) \/ LocalFails(r) \/ Kill(r)
    \/ (\E u \in Uploads : PutAltered(r, u) \/ UploadFails(r, u))

Restore ==
    \E n \in Names :
        \/ (\E b \in Backups, intact \in BOOLEAN : CreateDatabase(n, b, intact))
        \/ LoadDatabase(n)
        \/ LoadFails(n)

Next == Restore \/ \E r \in Runs : Run(r) \/ Failure(r)

Spec == Init /\ [][Next]_vars

\* Fairness: the timer starts runs, and a run that is not killed goes on.
FairSpec == Spec /\ \A r \in Runs : WF_vars(Run(r))

----------------------------------------------------------------------------
(* Properties.                                                             *)

InS3(b) ==
    /\ b \in whole
    /\ objects[b]["dump"] = "intact"
    /\ objects[b]["sidecar"] = "intact"

\* The manifest, from which an operator learns of the last good backup, names
\* one whose complete dump and sidecar are in S3, however runs overlap, fail
\* and are killed.
ManifestIsRestorable == manifest # 0 => InS3(manifest)

\* What the status file reports as a success is in S3, complete and unaltered,
\* long after the report too: also when the manifest names another backup by
\* then, or none, and the runs after it failed, overlapped or were killed.
StatusIsTrue == status # 0 => InS3(status)

\* A restored database holds a dump that is complete and unaltered.
RestoredIsWhole ==
    \A n \in Names :
        databases[n].is = "loaded" => databases[n].intact /\ databases[n].of \in whole

\* Nothing an earlier run left behind, a .partial file, an altered object or
\* a replaced manifest, is in the way of a later one: a backup that begins
\* alone, when the faults are over, is a success and the manifest names it.
LoneBackup(r) ==
    /\ pc[r] = "pgDump"
    /\ backup[r] = MaxBackups
    /\ faults = MaxFaults
    /\ \A q \in Runs \ {r} : pc[q] = "idle"

LoneBackupSucceeds ==
    \A r \in Runs : LoneBackup(r) ~> (status = MaxBackups /\ manifest = MaxBackups)

============================================================================
