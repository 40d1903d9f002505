-------------------------- MODULE MigrationsProofs --------------------------
(***************************************************************************)
(* Proofs about Migrations: type correctness, that the ledger tells the    *)
(* truth, that started services keep their schema, and that the runner     *)
(* implements ReleasedSchema; for any releases and any number of runs.     *)
(***************************************************************************)
EXTENDS Migrations, TLAPS

----------------------------------------------------------------------------
(* The inductive invariant.  What a run may commit follows from what it    *)
(* read, which stays true because the lock keeps the other runs out.       *)

LockIsHeld(m) == pc[m] \in {"read", "files"} => lock = m

ReleaseIsKnown(m) == pc[m] # "idle" => release[m] \in Releases

\* What the run read is still the ledger, and its release has all of it.
ReadIsCurrent(m) ==
    pc[m] = "files" =>
        /\ applied[m] = ledger
        /\ Present(ledger) \subseteq Present(release[m])

HandledAreChecked(m) ==
    /\ pc[m] # "files" => handled[m] = {}
    /\ handled[m] \subseteq Present(release[m])
    /\ \A v \in handled[m] : Acceptable(m, v)

\* Only legacy migrations have no checksum.
UncheckedAreLegacy ==
    \A v \in Versions : ledger[v] = NoChecksum => schema[v] = Legacy[v]

RunnerInv(m) ==
    /\ LockIsHeld(m)
    /\ ReleaseIsKnown(m)
    /\ ReadIsCurrent(m)
    /\ HandledAreChecked(m)

\* The part of TypeOK that is about the runs.
RunnerTypes ==
    /\ lock \in Runners \cup {NoRunner}
    /\ pc \in [Runners -> {"idle", "lock", "read", "files"}]
    /\ release \in [Runners -> Releases \cup {Empty}]
    /\ applied \in [Runners -> Ledgers]
    /\ handled \in [Runners -> SUBSET Versions]

IInv ==
    /\ TypeOK
    /\ LedgerIsTrue
    /\ ServicesFindTheirSchema
    /\ UncheckedAreLegacy
    /\ \A m \in Runners : RunnerInv(m)

----------------------------------------------------------------------------
(* The steps that change no table.                                         *)

LEMMA InitIInv == Init => IInv
<1> USE MigrationsAssumption
<1> SUFFICES ASSUME Init PROVE IInv
    OBVIOUS
<1>1. Empty \in Schemas /\ Empty \in Ledgers /\ Schemas \subseteq Ledgers
    BY DEF Empty, Schemas, Ledgers
<1>2. ledger \in Ledgers
    BY DEF Init, Ledgers
<1>3. TypeOK
    BY <1>1, <1>2 DEF Init, TypeOK
<1>4. LedgerIsTrue /\ UncheckedAreLegacy
    <2> SUFFICES ASSUME NEW v \in Versions
                 PROVE /\ ledger[v] = Absent <=> schema[v] = Absent
                       /\ ledger[v] # NoChecksum => ledger[v] = schema[v]
                       /\ ledger[v] = NoChecksum => schema[v] = Legacy[v]
        BY DEF LedgerIsTrue, UncheckedAreLegacy
    <2>1. ledger[v] = IF schema[v] = Absent THEN Absent ELSE NoChecksum
        BY DEF Init
    <2>2. schema = Empty \/ schema = Legacy
        BY DEF Init
    <2>3. Empty[v] = Absent
        BY DEF Empty
    <2> QED BY <2>1, <2>2, <2>3
<1>5. ServicesFindTheirSchema
    BY DEF Init, ServicesFindTheirSchema
<1>6. \A m \in Runners : RunnerInv(m)
    BY DEF Init, RunnerInv, LockIsHeld, ReleaseIsKnown, ReadIsCurrent, HandledAreChecked
<1> QED BY <1>3, <1>4, <1>5, <1>6 DEF IInv

\* A run that ends changes nothing for the others.
LEMMA EndKeeps ==
    ASSUME IInv, NEW m \in Runners, End(m)
    PROVE  /\ RunnerTypes'
           /\ RunnerInv(m)'
           /\ \A n \in Runners \ {m} :
                 /\ pc'[n] = pc[n] /\ release'[n] = release[n]
                 /\ applied'[n] = applied[n] /\ handled'[n] = handled[n]
                 /\ lock = n => lock' = n
<1> USE DEF IInv, TypeOK
<1>1. Empty \in Ledgers /\ Present(Empty) = {}
    BY DEF Empty, Ledgers, Present
<1>2. RunnerTypes'
    BY <1>1 DEF RunnerTypes, End, Goto
<1>3. RunnerInv(m)'
    BY <1>1 DEF End, Goto, RunnerInv, LockIsHeld, ReleaseIsKnown, ReadIsCurrent,
                HandledAreChecked
<1>4. ASSUME NEW n \in Runners \ {m}
      PROVE  /\ pc'[n] = pc[n] /\ release'[n] = release[n]
             /\ applied'[n] = applied[n] /\ handled'[n] = handled[n]
             /\ lock = n => lock' = n
    BY DEF End, Goto
<1> QED BY <1>2, <1>3, <1>4

\* A run that is left alone keeps its invariant, if the ledger stays.
LEMMA OthersKeep ==
    ASSUME NEW n \in Runners, RunnerInv(n), pc'[n] = pc[n], release'[n] = release[n],
           applied'[n] = applied[n], handled'[n] = handled[n], lock = n => lock' = n,
           pc[n] = "files" => ledger' = ledger
    PROVE  RunnerInv(n)'
<1>1. \A v : Acceptable(n, v)' <=> Acceptable(n, v)
    BY DEF Acceptable, Present
<1> QED BY <1>1 DEF RunnerInv, LockIsHeld, ReleaseIsKnown, ReadIsCurrent, HandledAreChecked,
                    Present

\* Each step of a run keeps what holds of the runs, if the ledger stays.
LEMMA RunnersKept ==
    ASSUME IInv, NEW m \in Runners, Run(m), UNCHANGED databaseVars
    PROVE  RunnerTypes' /\ \A n \in Runners : RunnerInv(n)'
<1> USE MigrationsAssumption DEF databaseVars
<1>0. RunnerInv(m)
    BY DEF IInv
<1>1. SUFFICES /\ RunnerTypes' /\ RunnerInv(m)'
               /\ \A n \in Runners \ {m} :
                     /\ pc'[n] = pc[n] /\ release'[n] = release[n]
                     /\ applied'[n] = applied[n] /\ handled'[n] = handled[n]
                     /\ lock = n => lock' = n
    BY OthersKeep DEF IInv
<1>2. CASE End(m)
    BY <1>2, EndKeeps
<1> USE DEF IInv, TypeOK
<1>3. CASE Start(m)
    <2>1. PICK r \in Releases : release' = [release EXCEPT ![m] = r]
        BY <1>3 DEF Start
    <2>2. handled[m] = {}
        BY <1>0, <1>3 DEF Start, RunnerInv, HandledAreChecked
    <2>3. RunnerTypes'
        BY <1>3, <2>1 DEF RunnerTypes, Start, Goto
    <2>4. RunnerInv(m)'
        BY <1>0, <1>3, <2>1, <2>2 DEF Start, Goto, RunnerInv, LockIsHeld, ReleaseIsKnown,
           ReadIsCurrent, HandledAreChecked
    <2> QED BY <1>3, <2>1, <2>3, <2>4 DEF Start, Goto
<1>4. CASE Lock(m)
    <2>1. handled[m] = {}
        BY <1>0, <1>4 DEF Lock, RunnerInv, HandledAreChecked
    <2>2. RunnerTypes'
        BY <1>4 DEF RunnerTypes, Lock, Goto, runnerVars
    <2>3. RunnerInv(m)'
        BY <1>0, <1>4, <2>1 DEF Lock, Goto, runnerVars, RunnerInv, LockIsHeld, ReleaseIsKnown,
           ReadIsCurrent, HandledAreChecked
    <2> QED BY <1>4, <2>2, <2>3 DEF Lock, Goto, runnerVars
<1>5. CASE Read(m) /\ ~End(m)
    <2>1. handled[m] = {}
        BY <1>0, <1>5 DEF Read, RunnerInv, HandledAreChecked
    <2>2. RunnerTypes'
        BY <1>5 DEF RunnerTypes, Read, Goto
    <2>3. RunnerInv(m)'
        BY <1>0, <1>5, <2>1 DEF Read, Goto, RunnerInv, LockIsHeld, ReleaseIsKnown,
           ReadIsCurrent, HandledAreChecked, Present
    <2> QED BY <1>5, <2>2, <2>3 DEF Read, Goto
<1>6. ASSUME NEW v \in Versions, File(m, v), ~End(m)
      PROVE  /\ RunnerTypes' /\ RunnerInv(m)'
             /\ \A n \in Runners \ {m} :
                   /\ pc'[n] = pc[n] /\ release'[n] = release[n]
                   /\ applied'[n] = applied[n] /\ handled'[n] = handled[n]
                   /\ lock = n => lock' = n
    <2>1. /\ handled' = [handled EXCEPT ![m] = @ \cup {v}]
          /\ UNCHANGED <<lock, pc, release, applied>>
          /\ Acceptable(m, v) /\ v \in Present(release[m]) /\ pc[m] = "files"
        BY <1>6 DEF File, NextFile
    <2>2. RunnerTypes'
        BY <2>1 DEF RunnerTypes
    <2>3. \A u : Acceptable(m, u)' <=> Acceptable(m, u)
        BY <2>1 DEF Acceptable, Present
    <2>4. RunnerInv(m)'
        BY <1>0, <2>1, <2>3 DEF RunnerInv, LockIsHeld, ReleaseIsKnown, ReadIsCurrent,
           HandledAreChecked, Present
    <2> QED BY <2>1, <2>2, <2>4
<1> QED BY <1>2, <1>3, <1>4, <1>5, <1>6 DEF Run, Commit, CommitOutcomeLost, Fail

----------------------------------------------------------------------------
(* The commit.                                                             *)

\* A run that commits turns the schema into that of its release, which extends
\* the one before.
LEMMA CommitUpgrades ==
    ASSUME IInv, NEW m \in Runners, pc[m] = "files", handled[m] = Present(release[m]),
           Committed(m)
    PROVE  /\ schema' = release[m]
           /\ ledger' = release[m]
           /\ release[m] \in Releases
           /\ Released!Extends(release[m], schema)
<1> USE MigrationsAssumption
<1>1. /\ release[m] \in Releases /\ release[m] \in Schemas
      /\ applied[m] = ledger
      /\ Present(ledger) \subseteq Present(release[m])
      /\ \A v \in Present(release[m]) : Acceptable(m, v)
    BY DEF IInv, RunnerInv, ReleaseIsKnown, ReadIsCurrent, HandledAreChecked
<1>2. schema \in Schemas /\ ledger \in Ledgers
    BY DEF IInv, TypeOK
<1>3. Present(schema) = Present(ledger)
    BY DEF IInv, LedgerIsTrue, Present
<1>4. ASSUME NEW v \in Present(ledger) PROVE schema[v] = release[m][v]
    <2>1. v \in Versions /\ v \in Present(release[m]) /\ release[m][v] # Absent
        BY <1>1 DEF Present
    <2>2. ledger[v] \in {NoChecksum, release[m][v]}
        BY <1>1, <2>1 DEF Acceptable, Present
    <2>3. CASE ledger[v] = NoChecksum
        <3>1. schema[v] = Legacy[v]
            BY <2>1, <2>3 DEF IInv, UncheckedAreLegacy
        <3>2. schema[v] # Absent
            BY <1>3 DEF Present
        <3> QED BY <1>1, <2>1, <3>1, <3>2
    <2>4. CASE ledger[v] # NoChecksum
        BY <2>1, <2>2, <2>4 DEF IInv, LedgerIsTrue
    <2> QED BY <2>3, <2>4
<1>5. ASSUME NEW v \in Versions PROVE schema'[v] = release[m][v] /\ ledger'[v] = release[m][v]
    BY <1>1, <1>2, <1>3, <1>4 DEF Committed, Present, Schemas
<1>6. schema' = release[m] /\ ledger' = release[m]
    BY <1>1, <1>5 DEF Committed, Schemas
<1>7. \A v \in Present(schema) : release[m][v] = schema[v]
    BY <1>3, <1>4
<1>8. ASSUME NEW v \in Present(release[m]) \ Present(schema), NEW u \in Present(schema)
      PROVE  u < v
    <2>1. v >= u
        BY <1>1, <1>3 DEF Acceptable, Present
    <2>2. v # u /\ u \in Nat /\ v \in Nat
        BY DEF Present
    <2> QED BY <2>1, <2>2
<1> QED BY <1>1, <1>6, <1>7, <1>8 DEF Released!Extends, Released!Present, Present

\* A commit keeps the invariant.
LEMMA CommitKeeps ==
    ASSUME IInv, NEW m \in Runners, Commit(m) \/ CommitOutcomeLost(m)
    PROVE  IInv'
<1> USE MigrationsAssumption
<1>1. /\ pc[m] = "files" /\ handled[m] = Present(release[m]) /\ Committed(m) /\ End(m)
      /\ started' \in {started, started \cup {release[m]}}
      /\ runs' = runs /\ faults' \in Nat
    BY DEF Commit, CommitOutcomeLost, Fault, IInv, TypeOK
<1>2. /\ schema' = release[m] /\ ledger' = release[m] /\ release[m] \in Releases
      /\ Released!Extends(release[m], schema)
    BY <1>1, CommitUpgrades
<1>3. release[m] \in Schemas /\ Schemas \subseteq Ledgers
    BY <1>2 DEF Schemas, Ledgers
<1>4. RunnerTypes' /\ RunnerInv(m)'
    BY <1>1, EndKeeps
<1>5. TypeOK'
    BY <1>1, <1>2, <1>3, <1>4 DEF IInv, TypeOK, RunnerTypes
<1>6. LedgerIsTrue' /\ UncheckedAreLegacy'
    BY <1>2, <1>3 DEF LedgerIsTrue, UncheckedAreLegacy, Schemas
<1>7. ServicesFindTheirSchema'
    <2> SUFFICES ASSUME NEW r \in started', NEW v \in Present(r) PROVE schema'[v] = r[v]
        BY DEF ServicesFindTheirSchema, Present
    <2>1. CASE r = release[m]
        BY <1>2, <2>1
    <2>2. CASE r \in started
        <3>1. schema[v] = r[v] /\ v \in Versions /\ r[v] # Absent
            BY <2>2 DEF IInv, ServicesFindTheirSchema, Present
        <3> QED BY <1>2, <3>1 DEF Released!Extends, Released!Present
    <2> QED BY <1>1, <2>1, <2>2
<1>8. ASSUME NEW n \in Runners \ {m} PROVE RunnerInv(n)'
    <2>1. pc[n] # "files" /\ RunnerInv(n)
        BY <1>1 DEF IInv, RunnerInv, LockIsHeld
    <2> QED BY <1>1, <2>1, EndKeeps, OthersKeep
<1> QED BY <1>4, <1>5, <1>6, <1>7, <1>8 DEF IInv

----------------------------------------------------------------------------
(* The theorems.                                                           *)

\* The steps of a run that commit nothing.
LEMMA QuietStep ==
    ASSUME IInv, NEW m \in Runners, Run(m), UNCHANGED <<databaseVars, started>>
    PROVE  IInv'
<1>1. RunnerTypes' /\ \A n \in Runners : RunnerInv(n)'
    BY RunnersKept
<1>2. /\ schema' \in Schemas /\ ledger' \in Ledgers /\ started' \subseteq Releases
      /\ LedgerIsTrue' /\ ServicesFindTheirSchema' /\ UncheckedAreLegacy'
    BY DEF IInv, TypeOK, databaseVars, LedgerIsTrue, ServicesFindTheirSchema,
           UncheckedAreLegacy, Present
<1>3. runs' \in Nat /\ faults' \in Nat
    BY DEF IInv, TypeOK, Run, Start, Lock, Read, File, Commit, CommitOutcomeLost, Fail, Fault
<1> QED BY <1>1, <1>2, <1>3 DEF IInv, TypeOK, RunnerTypes

\* The inductive invariant holds in every reachable state.
THEOREM InvariantHolds == Spec => []IInv
<1>1. IInv /\ [Next]_vars => IInv'
    <2> SUFFICES ASSUME IInv, [Next]_vars PROVE IInv'
        OBVIOUS
    <2>1. CASE Next
        <3>1. PICK m \in Runners : Run(m)
            BY <2>1 DEF Next
        <3>2. Commit(m) \/ CommitOutcomeLost(m) \/ UNCHANGED <<databaseVars, started>>
            BY <3>1 DEF Run, Start, Lock, Read, File, Fail
        <3> QED BY <3>1, <3>2, CommitKeeps, QuietStep
    <2>2. CASE UNCHANGED vars
        <3>1. \A n \in Runners : RunnerInv(n)'
            BY <2>2, OthersKeep DEF IInv, vars, databaseVars, runnerVars
        <3> QED BY <2>2, <3>1 DEF IInv, TypeOK, vars, databaseVars, runnerVars, LedgerIsTrue,
                ServicesFindTheirSchema, UncheckedAreLegacy, Present
    <2> QED BY <2>1, <2>2
<1> QED BY <1>1, InitIInv, PTL DEF Spec

\* The type invariant of the migration runner.
THEOREM TypeCorrect == Spec => []TypeOK
<1>1. IInv => TypeOK
    BY DEF IInv
<1> QED BY <1>1, InvariantHolds, PTL

\* The ledger records exactly what was executed, whatever runs overlap or die.
THEOREM LedgerIsAlwaysTrue == Spec => []LedgerIsTrue
<1>1. IInv => LedgerIsTrue
    BY DEF IInv
<1> QED BY <1>1, InvariantHolds, PTL

\* Services that started keep the schema of their release.
THEOREM StartedServicesKeepTheirSchema == Spec => []ServicesFindTheirSchema
<1>1. IInv => ServicesFindTheirSchema
    BY DEF IInv
<1> QED BY <1>1, InvariantHolds, PTL

\* The runner implements ReleasedSchema: whole upgrades, in order.
THEOREM ImplementsReleasedSchema == Spec => UpgradesOnly
<1>1. Init => Released!Init
    BY DEF Init, Released!Init, Empty, Released!Empty
<1>2. IInv /\ [Next]_vars => [Released!Next]_schema
    <2> SUFFICES ASSUME IInv, Next PROVE Released!Next \/ UNCHANGED schema
        BY DEF vars, databaseVars
    <2>1. PICK m \in Runners : Run(m)
        BY DEF Next
    <2>2. CASE Commit(m) \/ CommitOutcomeLost(m)
        BY <2>2, CommitUpgrades DEF Commit, CommitOutcomeLost, Released!Next, Released!Upgrade
    <2>3. CASE UNCHANGED databaseVars
        BY <2>3 DEF databaseVars
    <2> QED BY <2>1, <2>2, <2>3 DEF Run, Start, Lock, Read, File, Fail
<1> QED BY <1>1, <1>2, InvariantHolds, PTL DEF Spec, UpgradesOnly, Released!Spec

============================================================================
