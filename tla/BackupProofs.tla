---------------------------- MODULE BackupProofs ----------------------------
(***************************************************************************)
(* Proofs about Backup: type correctness, that the manifest and the status *)
(* file name backups which are complete in S3, and that a restored         *)
(* database holds a complete dump, for any number of runs, restores,       *)
(* failures and kills.                                                     *)
(***************************************************************************)
EXTENDS Backup, TLAPS

----------------------------------------------------------------------------
(* The inductive invariant.  ManifestIsRestorable is not inductive: that a *)
(* run may write the manifest depends on what it verified before, and that *)
(* the manifest and the status stay true on no run uploading those backups *)
(* again.                                                                  *)

\* What a run knows of its own backup at each step.
DumpedStates  == {"list", "rename", "writeSidecar", "putDump", "headDump", "putSidecar",
                  "headSidecar", "putManifest", "headManifest", "success"}
CheckedDump   == {"putSidecar", "headSidecar", "putManifest", "headManifest", "success"}
CheckedBoth   == {"putManifest", "headManifest", "success"}
AfterManifest == {"headManifest", "success", "uploadFailed", "failed"}

RunInv(r) ==
    /\ IF pc[r] = "idle" THEN backup[r] = 0 ELSE backup[r] \in 1..started
    /\ pc[r] \in DumpedStates => backup[r] \in whole
    /\ pc[r] \in CheckedDump => objects[backup[r]]["dump"] = "intact"
    /\ pc[r] \in CheckedBoth => objects[backup[r]]["sidecar"] = "intact"
    /\ pc[r] # "idle" /\ manifest = backup[r] => pc[r] \in AfterManifest
    /\ pc[r] # "idle" => status # backup[r]

\* A published dump and a stored one are complete.
PublishedIsWhole ==
    \A b \in Backups :
        file[b] = "dump" \/ objects[b]["dump"] # "none" => b \in whole

\* A restore that has begun compared the digest of a complete dump.
RestoresAreWhole ==
    \A n \in Names :
        databases[n].is \in {"loading", "loaded"} =>
            databases[n].intact /\ databases[n].of \in whole

IInv ==
    /\ TypeOK
    /\ manifest <= started
    /\ status <= started
    /\ ManifestIsRestorable
    /\ StatusIsTrue
    /\ \A r \in Runs : RunInv(r)
    /\ PublishedIsWhole
    /\ RestoresAreWhole

----------------------------------------------------------------------------
(* Lemmas.                                                                 *)

LEMMA InitEstablishesIInv == Init => IInv
<1> SUFFICES ASSUME Init PROVE IInv
    OBVIOUS
<1>1. TypeOK
    BY BackupAssumption DEF Init, TypeOK, Databases, ControlStates, Backups
<1>2. /\ ManifestIsRestorable /\ manifest <= started
      /\ StatusIsTrue /\ status <= started
    BY DEF Init, ManifestIsRestorable, StatusIsTrue
<1>3. ASSUME NEW r \in Runs PROVE RunInv(r)
    BY DEF Init, RunInv, DumpedStates, CheckedDump, CheckedBoth
<1>4. PublishedIsWhole /\ RestoresAreWhole
    BY DEF Init, PublishedIsWhole, RestoresAreWhole
<1> QED BY <1>1, <1>2, <1>3, <1>4 DEF IInv

LEMMA StutterKeepsIInv ==
    ASSUME IInv, UNCHANGED vars
    PROVE  IInv'
BY DEF IInv, TypeOK, ManifestIsRestorable, StatusIsTrue, InS3, RunInv, PublishedIsWhole,
       RestoresAreWhole, vars, localVars, s3Vars, runVars

\* The types a proof about run r needs.
LEMMA RunTypes ==
    ASSUME IInv, NEW r \in Runs
    PROVE  /\ started \in Nat /\ manifest \in Nat /\ status \in Nat
           /\ pc[r] \in ControlStates
           /\ backup[r] \in Nat
           /\ pc[r] # "idle" => backup[r] \in Backups
           /\ \A q \in Runs \ {r} : pc[r] # "idle" => backup[q] # backup[r]
<1>1. pc[r] # "idle" => backup[r] # 0
    BY DEF IInv, TypeOK, RunInv
<1> QED BY <1>1, BackupAssumption DEF IInv, TypeOK, Backups

\* What a step of run r leaves true of another run: r changes nothing but
\* objects of its own backup and the manifest, and no two runs share a backup.
LEMMA OthersKeep ==
    ASSUME IInv, NEW r \in Runs, NEW q \in Runs \ {r},
           pc'[q] = pc[q], backup'[q] = backup[q],
           started' \in Nat, started <= started', whole \subseteq whole',
           \A b \in Backups : b # backup[r] => objects'[b] = objects[b],
           manifest' = manifest \/ manifest' = 0 \/ (pc[r] # "idle" /\ manifest' = backup[r]),
           \/ status' = status \/ status' = 0
           \/ pc[r] # "idle" /\ status' = backup[r],
           pc[r] = "idle" => objects' = objects
    PROVE  RunInv(q)'
<1>1. RunInv(q)
    BY DEF IInv
<1>2. started \in Nat /\ backup[q] \in Nat
    BY RunTypes
<1>3. ASSUME pc[q] # "idle" PROVE backup[q] \in Backups /\ objects'[backup[q]] = objects[backup[q]]
    BY <1>3, RunTypes
<1>4. ASSUME pc[q] # "idle", manifest' = backup[q] PROVE manifest = backup[q]
    <2>1. backup[q] # 0
        BY <1>1, <1>4 DEF RunInv
    <2> QED BY <1>4, <2>1, RunTypes
<1>5. ASSUME pc[q] # "idle" PROVE status' # backup[q]
    <2>1. backup[q] # 0 /\ status # backup[q]
        BY <1>1, <1>5, <1>2 DEF RunInv
    <2> QED BY <1>5, <2>1, RunTypes
<1> QED BY <1>1, <1>2, <1>3, <1>4, <1>5 DEF RunInv, DumpedStates, CheckedDump, CheckedBoth

\* The manifest stays restorable when no object it needs is touched.
LEMMA ManifestKeeps ==
    ASSUME IInv, whole \subseteq whole', manifest' = manifest,
           manifest # 0 => objects'[manifest] = objects[manifest]
    PROVE  ManifestIsRestorable'
BY DEF IInv, ManifestIsRestorable, InS3

\* So does what the status file says.
LEMMA StatusKeeps ==
    ASSUME IInv, whole \subseteq whole', status' = status,
           status # 0 => objects'[status] = objects[status]
    PROVE  StatusIsTrue'
BY DEF IInv, StatusIsTrue, InS3

----------------------------------------------------------------------------
(* The steps of a run on local files.                                      *)

LEMMA StartKeepsIInv ==
    ASSUME IInv, NEW r \in Runs, Start(r)
    PROVE  IInv'
<1> USE DEF Start, Goto
<1>1. TypeOK'
    <2>1. \A q \in Runs : backup[q] # started + 1
        BY DEF IInv, TypeOK, RunInv
    <2> QED BY <2>1, BackupAssumption DEF IInv, TypeOK, s3Vars, Backups, ControlStates
<1>2. ManifestIsRestorable' /\ manifest' <= started'
    BY RunTypes, ManifestKeeps DEF s3Vars, IInv
<1>3. RunInv(r)'
    BY RunTypes DEF IInv, RunInv, TypeOK, s3Vars, DumpedStates, CheckedDump, CheckedBoth
<1>4. ASSUME NEW q \in Runs \ {r} PROVE RunInv(q)'
    BY <1>4, RunTypes, OthersKeep DEF IInv, TypeOK, s3Vars
<1>5. PublishedIsWhole' /\ RestoresAreWhole'
    BY DEF IInv, TypeOK, PublishedIsWhole, RestoresAreWhole, s3Vars, Backups
<1>6. StatusIsTrue' /\ status' <= started'
    BY RunTypes, StatusKeeps DEF s3Vars, IInv
<1> QED BY <1>1, <1>2, <1>3, <1>4, <1>5, <1>6 DEF IInv

\* A step of run r that leaves the objects, the manifest and the set of
\* backups as they are: only what r knows of its own backup is at stake.
LEMMA LocalKeeps ==
    ASSUME IInv, NEW r \in Runs, TypeOK', RunInv(r)',
           pc' = [pc EXCEPT ![r] = pc'[r]], backup' = [backup EXCEPT ![r] = backup'[r]],
           UNCHANGED <<started, objects, manifest>>,
           \/ status' = status \/ status' = 0
           \/ pc[r] = "success" /\ status' = backup[r],
           whole \subseteq whole',
           \A b \in Backups : file'[b] = "dump" /\ file[b] # "dump" => b \in whole,
           UNCHANGED databases
    PROVE  IInv'
<1>1. ManifestIsRestorable' /\ manifest' <= started'
    BY ManifestKeeps DEF IInv
<1>2. ASSUME NEW q \in Runs \ {r} PROVE RunInv(q)'
    <2>1. pc'[q] = pc[q] /\ backup'[q] = backup[q]
        BY <1>2 DEF IInv, TypeOK
    <2> QED BY <2>1, RunTypes, OthersKeep DEF IInv
<1>3. PublishedIsWhole' /\ RestoresAreWhole'
    BY DEF IInv, PublishedIsWhole, RestoresAreWhole
<1>4. StatusIsTrue' /\ status' <= started'
    <2>1. CASE status' \in {0, status}
        BY <2>1, RunTypes, StatusKeeps DEF IInv, StatusIsTrue
    <2>2. CASE pc[r] = "success" /\ status' = backup[r]
        <3>1. InS3(backup[r]) /\ backup[r] \in 1..started
            BY <2>2 DEF IInv, RunInv, InS3, DumpedStates, CheckedDump, CheckedBoth
        <3> QED BY <2>2, <3>1, RunTypes DEF StatusIsTrue, InS3
    <2> QED BY <2>1, <2>2
<1> QED BY <1>1, <1>2, <1>3, <1>4 DEF IInv

\* The steps of a run that write no object, and its failures.
LEMMA LocalStepsKeepIInv ==
    ASSUME IInv, NEW r \in Runs,
           \/ PgDump(r) \/ List(r) \/ Rename(r) \/ WriteSidecar(r)
           \/ PgDumpFails(r) \/ LocalFails(r) \/ ReportUpload(r)
           \/ \E u \in Uploads : Head(r, u) \/ UploadFails(r, u)
    PROVE  IInv'
<1> USE RunTypes DEF localVars, s3Vars, runVars, Goto, ControlStates, RunInv,
        DumpedStates, CheckedDump, CheckedBoth, AfterManifest
<1>1. CASE PgDump(r)
    <2>1. TypeOK'
        BY <1>1 DEF IInv, TypeOK, PgDump
    <2>2. RunInv(r)'
        BY <1>1 DEF IInv, TypeOK, PgDump
    <2>3. /\ pc' = [pc EXCEPT ![r] = pc'[r]] /\ backup' = [backup EXCEPT ![r] = backup'[r]]
          /\ UNCHANGED <<started, objects, manifest, databases>>
          /\ status' \in {0, status} /\ whole \subseteq whole'
          /\ \A b \in Backups : file'[b] = "dump" /\ file[b] # "dump" => b \in whole
        BY <1>1 DEF IInv, TypeOK, PgDump
    <2> HIDE DEF RunInv
    <2> QED BY <2>1, <2>2, <2>3, LocalKeeps
<1>2. CASE List(r)
    <2>1. TypeOK'
        BY <1>2 DEF IInv, TypeOK, List
    <2>2. RunInv(r)'
        BY <1>2 DEF IInv, TypeOK, List
    <2>3. /\ pc' = [pc EXCEPT ![r] = pc'[r]] /\ backup' = [backup EXCEPT ![r] = backup'[r]]
          /\ UNCHANGED <<started, objects, manifest, databases>>
          /\ status' \in {0, status} /\ whole \subseteq whole'
          /\ \A b \in Backups : file'[b] = "dump" /\ file[b] # "dump" => b \in whole
        BY <1>2 DEF IInv, TypeOK, List
    <2> HIDE DEF RunInv
    <2> QED BY <2>1, <2>2, <2>3, LocalKeeps
<1>3. CASE Rename(r)
    <2>1. TypeOK'
        BY <1>3 DEF IInv, TypeOK, Rename
    <2>2. RunInv(r)'
        BY <1>3 DEF IInv, TypeOK, Rename
    <2>3. \A b \in Backups : file'[b] = "dump" /\ file[b] # "dump" => b \in whole
        BY <1>3 DEF IInv, TypeOK, Rename
    <2>4. /\ pc' = [pc EXCEPT ![r] = pc'[r]] /\ backup' = [backup EXCEPT ![r] = backup'[r]]
          /\ UNCHANGED <<started, objects, manifest, status, whole, databases>>
        BY <1>3 DEF IInv, TypeOK, Rename
    <2> HIDE DEF RunInv
    <2> QED BY <2>1, <2>2, <2>3, <2>4, LocalKeeps
<1>4. CASE WriteSidecar(r)
    <2>1. TypeOK'
        BY <1>4 DEF IInv, TypeOK, WriteSidecar
    <2>2. RunInv(r)'
        BY <1>4 DEF IInv, TypeOK, WriteSidecar
    <2>3. /\ pc' = [pc EXCEPT ![r] = pc'[r]] /\ backup' = [backup EXCEPT ![r] = backup'[r]]
          /\ UNCHANGED <<started, objects, manifest, databases>>
          /\ status' \in {0, status} /\ whole \subseteq whole'
          /\ \A b \in Backups : file'[b] = "dump" /\ file[b] # "dump" => b \in whole
        BY <1>4 DEF IInv, TypeOK, WriteSidecar
    <2> HIDE DEF RunInv
    <2> QED BY <2>1, <2>2, <2>3, LocalKeeps
<1>5. CASE PgDumpFails(r) \/ LocalFails(r) \/ ReportUpload(r)
    <2> USE DEF PgDumpFails, LocalFails, ReportUpload, WriteStatus, Fault
    <2>1. TypeOK'
        BY <1>5, BackupAssumption DEF IInv, TypeOK
    <2>2. RunInv(r)'
        BY <1>5 DEF IInv, TypeOK
    <2>3. /\ pc' = [pc EXCEPT ![r] = pc'[r]] /\ backup' = [backup EXCEPT ![r] = backup'[r]]
          /\ UNCHANGED <<started, objects, manifest, databases>>
          /\ status' \in {0, status} /\ whole \subseteq whole'
          /\ \A b \in Backups : file'[b] = "dump" /\ file[b] # "dump" => b \in whole
        BY <1>5 DEF IInv, TypeOK
    <2> HIDE DEF RunInv
    <2> QED BY <2>1, <2>2, <2>3, LocalKeeps
<1>6. ASSUME NEW u \in Uploads, Head(r, u) PROVE IInv'
    <2> USE DEF Uploads, HeadAt, AfterIt, AsUploaded
    <2>1. TypeOK'
        BY <1>6 DEF IInv, TypeOK, Head
    <2>2. RunInv(r)'
        BY <1>6 DEF IInv, TypeOK, Head
    <2>3. /\ pc' = [pc EXCEPT ![r] = pc'[r]] /\ backup' = [backup EXCEPT ![r] = backup'[r]]
          /\ UNCHANGED <<started, objects, manifest, databases>>
          /\ status' \in {0, status} /\ whole \subseteq whole'
          /\ \A b \in Backups : file'[b] = "dump" /\ file[b] # "dump" => b \in whole
        BY <1>6 DEF IInv, TypeOK, Head
    <2> HIDE DEF RunInv
    <2> QED BY <2>1, <2>2, <2>3, LocalKeeps
<1>7. ASSUME NEW u \in Uploads, UploadFails(r, u) PROVE IInv'
    <2> USE DEF Uploads, PutAt, HeadAt, UploadFails, Fault
    <2>1. TypeOK'
        BY <1>7, BackupAssumption DEF IInv, TypeOK
    <2>2. RunInv(r)'
        BY <1>7 DEF IInv, TypeOK
    <2>3. /\ pc' = [pc EXCEPT ![r] = pc'[r]] /\ backup' = [backup EXCEPT ![r] = backup'[r]]
          /\ UNCHANGED <<started, objects, manifest, databases>>
          /\ status' \in {0, status} /\ whole \subseteq whole'
          /\ \A b \in Backups : file'[b] = "dump" /\ file[b] # "dump" => b \in whole
        BY <1>7 DEF IInv, TypeOK
    <2> HIDE DEF RunInv
    <2> QED BY <2>1, <2>2, <2>3, LocalKeeps
<1> QED BY <1>1, <1>2, <1>3, <1>4, <1>5, <1>6, <1>7

\* A step that ends a run, with what it reports.
LEMMA EndKeepsIInv ==
    ASSUME IInv, NEW r \in Runs, Succeed(r) \/ ReportFailure(r)
    PROVE  IInv'
<1> USE RunTypes
<1>1. /\ pc[r] \in {"success", "failed"}
      /\ status' = 0 \/ (pc[r] = "success" /\ status' = backup[r])
      /\ file' = [file EXCEPT ![backup[r]] = IF @ = "partial" THEN "none" ELSE @]
      /\ pc' = [pc EXCEPT ![r] = "idle"] /\ backup' = [backup EXCEPT ![r] = 0]
      /\ UNCHANGED <<started, whole, sidecars, objects, manifest, databases, faults>>
    BY DEF Succeed, ReportFailure, End, WriteStatus, Goto, s3Vars
<1>2. TypeOK'
    <2>1. file' \in [Backups -> {"none", "partial", "dump"}]
        BY <1>1 DEF IInv, TypeOK
    <2>2. backup' \in [Runs -> 0..MaxBackups] /\ status' \in 0..MaxBackups
        BY <1>1, BackupAssumption DEF IInv, TypeOK
    <2>3. \A q, s \in Runs : q # s /\ backup'[q] = backup'[s] => backup'[q] = 0
        BY <1>1 DEF IInv, TypeOK
    <2> QED BY <1>1, <2>1, <2>2, <2>3 DEF IInv, TypeOK, ControlStates
<1>3. RunInv(r)'
    BY <1>1 DEF IInv, TypeOK, RunInv, DumpedStates, CheckedDump, CheckedBoth
<1>4. \A b \in Backups : file'[b] = "dump" => file[b] = "dump"
    BY <1>1 DEF IInv, TypeOK
<1>5. /\ pc' = [pc EXCEPT ![r] = pc'[r]] /\ backup' = [backup EXCEPT ![r] = backup'[r]]
      /\ \A b \in Backups : file'[b] = "dump" /\ file[b] # "dump" => b \in whole
    BY <1>1, <1>4 DEF IInv, TypeOK
<1> QED BY <1>1, <1>2, <1>3, <1>5, LocalKeeps

LEMMA KillKeepsIInv ==
    ASSUME IInv, NEW r \in Runs, Kill(r)
    PROVE  IInv'
<1> USE RunTypes DEF Kill, Goto, Fault, localVars, s3Vars
<1>1. TypeOK'
    BY BackupAssumption DEF IInv, TypeOK, ControlStates
<1>2. RunInv(r)'
    BY DEF IInv, TypeOK, RunInv, DumpedStates, CheckedDump, CheckedBoth
<1> QED BY <1>1, <1>2, LocalKeeps DEF IInv, TypeOK

----------------------------------------------------------------------------
(* The steps that write to S3.                                             *)

\* An upload of the dump or the sidecar: the manifest does not name this
\* backup yet.
LEMMA PutObjectKeepsIInv ==
    ASSUME IInv, NEW r \in Runs, NEW u \in {"dump", "sidecar"}, Put(r, u) \/ PutAltered(r, u)
    PROVE  IInv'
<1> USE RunTypes
<1>1. PICK how \in {"intact", "altered"} : Stored(r, u, how)
    BY DEF Put, PutAltered
<1>2. /\ pc[r] \in {"putDump", "putSidecar"} /\ pc[r] = PutAt[u]
      /\ pc' = [pc EXCEPT ![r] = HeadAt[u]]
      /\ UNCHANGED <<localVars, status, backup, databases>>
      /\ faults' \in 0..MaxFaults
    BY BackupAssumption DEF IInv, TypeOK, Put, PutAltered, PutAt, HeadAt, Goto, Fault
<1>3. /\ objects' = [objects EXCEPT ![backup[r]] = [@ EXCEPT ![u] = how]]
      /\ UNCHANGED manifest
    BY <1>1 DEF Stored
<1>4. /\ backup[r] \in Backups /\ backup[r] \in whole
      /\ manifest # backup[r] /\ status # backup[r]
    BY <1>2 DEF IInv, RunInv, DumpedStates, AfterManifest
<1>5. objects' \in [Backups -> [{"dump", "sidecar"} -> {"none", "intact", "altered"}]]
    BY <1>3, <1>4 DEF IInv, TypeOK
<1>6. \A b \in Backups : b # backup[r] => objects'[b] = objects[b]
    BY <1>3 DEF IInv, TypeOK
<1>7. TypeOK'
    BY <1>2, <1>3, <1>5 DEF IInv, TypeOK, localVars, HeadAt, ControlStates
<1>8. ManifestIsRestorable' /\ manifest' <= started'
    <2>1. manifest # 0 => manifest \in Backups
        BY BackupAssumption DEF IInv, TypeOK, Backups
    <2> QED BY <1>2, <1>3, <1>4, <1>6, <2>1, ManifestKeeps DEF IInv, localVars
<1>9. RunInv(r)'
    <2>1. u = "sidecar" => objects'[backup[r]]["dump"] = "intact"
        BY <1>2, <1>3, <1>4 DEF IInv, TypeOK, RunInv, CheckedDump, PutAt
    <2> QED
        BY <1>2, <1>3, <1>4, <2>1 DEF IInv, TypeOK, RunInv, localVars, HeadAt, DumpedStates,
            CheckedDump, CheckedBoth
<1>10. ASSUME NEW q \in Runs \ {r} PROVE RunInv(q)'
    BY <1>2, <1>3, <1>6, <1>10, OthersKeep DEF IInv, TypeOK, localVars
<1>11. PublishedIsWhole' /\ RestoresAreWhole'
    BY <1>2, <1>3, <1>4, <1>6 DEF IInv, PublishedIsWhole, RestoresAreWhole, localVars
<1>12. StatusIsTrue' /\ status' <= started'
    <2>1. status # 0 => status \in Backups
        BY BackupAssumption DEF IInv, TypeOK, Backups
    <2> QED BY <1>2, <1>3, <1>4, <1>6, <2>1, StatusKeeps DEF IInv, localVars
<1> QED BY <1>7, <1>8, <1>9, <1>10, <1>11, <1>12 DEF IInv

\* The manifest is written when both objects were verified.
LEMMA PutManifestKeepsIInv ==
    ASSUME IInv, NEW r \in Runs, Put(r, "manifest") \/ PutAltered(r, "manifest")
    PROVE  IInv'
<1> USE RunTypes
<1>1. /\ manifest' \in {0, backup[r]}
      /\ UNCHANGED <<objects, localVars, status, backup, databases>>
      /\ pc[r] = "putManifest"
      /\ pc' = [pc EXCEPT ![r] = "headManifest"]
      /\ faults' \in 0..MaxFaults
    BY BackupAssumption DEF IInv, TypeOK, Put, PutAltered, Stored, PutAt, HeadAt, Goto, Fault
<1>2. /\ backup[r] \in Backups /\ backup[r] \in whole /\ backup[r] <= started
      /\ objects[backup[r]]["dump"] = "intact" /\ objects[backup[r]]["sidecar"] = "intact"
    BY <1>1 DEF IInv, RunInv, DumpedStates, CheckedDump, CheckedBoth
<1>3. TypeOK'
    BY <1>1, BackupAssumption DEF IInv, TypeOK, localVars, ControlStates
<1>4. ManifestIsRestorable' /\ manifest' <= started'
    BY <1>1, <1>2 DEF ManifestIsRestorable, InS3, localVars
<1>5. RunInv(r)'
    BY <1>1, <1>2 DEF IInv, TypeOK, RunInv, localVars, DumpedStates, CheckedDump, CheckedBoth,
       AfterManifest
<1>6. ASSUME NEW q \in Runs \ {r} PROVE RunInv(q)'
    BY <1>1, <1>6, OthersKeep DEF IInv, TypeOK, localVars
<1>7. PublishedIsWhole' /\ RestoresAreWhole'
    BY <1>1 DEF IInv, PublishedIsWhole, RestoresAreWhole, localVars
<1>8. StatusIsTrue' /\ status' <= started'
    BY <1>1, StatusKeeps DEF IInv, localVars
<1> QED BY <1>3, <1>4, <1>5, <1>6, <1>7, <1>8 DEF IInv

----------------------------------------------------------------------------
(* The steps of a restore.                                                 *)

LEMMA RestoreKeepsIInv ==
    ASSUME IInv, Restore
    PROVE  IInv'
<1>1. PICK n \in Names :
          \/ \E b \in Backups, intact \in BOOLEAN : CreateDatabase(n, b, intact)
          \/ LoadDatabase(n)
          \/ LoadFails(n)
    BY DEF Restore
<1>2. UNCHANGED <<localVars, s3Vars, status, runVars>> /\ faults' \in 0..MaxFaults
    BY <1>1, BackupAssumption DEF IInv, TypeOK, CreateDatabase, LoadDatabase, LoadFails, Fault
<1>3. /\ databases' \in [Names -> Databases]
      /\ databases'[n].is \in {"loading", "loaded"} =>
             databases'[n].intact /\ databases'[n].of \in whole
      /\ \A m \in Names : m # n => databases'[m] = databases[m]
    <2>1. ASSUME NEW b \in Backups, NEW intact \in BOOLEAN, CreateDatabase(n, b, intact)
          PROVE  <1>3!:
        <3>1. b \in whole /\ intact
            BY <2>1 DEF IInv, PublishedIsWhole, CreateDatabase, Obtainable, DigestMatches
        <3>2. [is |-> "loading", of |-> b, intact |-> intact] \in Databases
            BY DEF Databases
        <3> QED BY <2>1, <3>1, <3>2 DEF IInv, TypeOK, CreateDatabase
    <2>2. CASE LoadDatabase(n)
        <3>1. /\ databases[n].intact /\ databases[n].of \in whole
              /\ databases[n] \in Databases
            BY <2>2 DEF IInv, TypeOK, RestoresAreWhole, LoadDatabase
        <3>2. databases[n] \in [is : {"loading", "loaded"}, of : Backups, intact : BOOLEAN]
            BY <2>2, <3>1 DEF Databases, LoadDatabase
        <3>3. [databases[n] EXCEPT !.is = "loaded"] \in Databases
            BY <3>2 DEF Databases
        <3> QED BY <2>2, <3>1, <3>2, <3>3 DEF IInv, TypeOK, LoadDatabase
    <2>3. CASE LoadFails(n)
        <3>1. [is |-> "empty"] \in Databases
            BY DEF Databases
        <3> QED BY <2>3, <3>1 DEF IInv, TypeOK, LoadFails
    <2> QED BY <1>1, <2>1, <2>2, <2>3
<1>4. TypeOK'
    BY <1>2, <1>3 DEF IInv, TypeOK, localVars, s3Vars, runVars
<1>5. RestoresAreWhole'
    BY <1>2, <1>3 DEF IInv, RestoresAreWhole, localVars
<1>6. /\ ManifestIsRestorable' /\ manifest' <= started' /\ PublishedIsWhole'
      /\ StatusIsTrue' /\ status' <= started'
      /\ \A r \in Runs : RunInv(r)'
    BY <1>2 DEF IInv, ManifestIsRestorable, StatusIsTrue, InS3, PublishedIsWhole, RunInv,
       localVars, s3Vars, runVars
<1> QED BY <1>4, <1>5, <1>6 DEF IInv

LEMMA NextKeepsIInv == IInv /\ [Next]_vars => IInv'
<1> SUFFICES ASSUME IInv, [Next]_vars PROVE IInv'
    OBVIOUS
<1>1. ASSUME NEW r \in Runs, Run(r) \/ Failure(r) PROVE IInv'
    <2>1. ASSUME NEW u \in Uploads, Put(r, u) \/ PutAltered(r, u) PROVE IInv'
        BY <2>1, PutObjectKeepsIInv, PutManifestKeepsIInv DEF Uploads
    <2> QED
        BY <1>1, <2>1, StartKeepsIInv, LocalStepsKeepIInv, EndKeepsIInv, KillKeepsIInv
        DEF Run, Failure, Upload
<1> QED BY <1>1, RestoreKeepsIInv, StutterKeepsIInv DEF Next

----------------------------------------------------------------------------
(* The theorems.                                                           *)

\* The inductive invariant: what each run knows of its backup at every step.
THEOREM InvariantHolds == Spec => []IInv
BY InitEstablishesIInv, NextKeepsIInv, PTL DEF Spec

\* The type invariant; no two runs make the same backup.
THEOREM TypeCorrect == Spec => []TypeOK
<1>1. IInv => TypeOK
    BY DEF IInv
<1> QED BY <1>1, InvariantHolds, PTL

\* The latest-success manifest names a backup whose complete dump and sidecar
\* are in S3, however many runs overlap, fail and are killed.
THEOREM ManifestAlwaysRestorable == Spec => []ManifestIsRestorable
<1>1. IInv => ManifestIsRestorable
    BY DEF IInv
<1> QED BY <1>1, InvariantHolds, PTL

\* The success that the status file reports is of a backup whose complete dump
\* and sidecar are in S3, whatever other runs did since.
THEOREM StatusAlwaysTrue == Spec => []StatusIsTrue
<1>1. IInv => StatusIsTrue
    BY DEF IInv
<1> QED BY <1>1, InvariantHolds, PTL

\* A restored database holds a complete and unaltered dump.
THEOREM RestoredAlwaysWhole == Spec => []RestoredIsWhole
<1>1. IInv => RestoredIsWhole
    BY DEF IInv, RestoresAreWhole, RestoredIsWhole
<1> QED BY <1>1, InvariantHolds, PTL

=============================================================================
