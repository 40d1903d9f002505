-------------------------- MODULE StaticLoadProofs --------------------------
(***************************************************************************)
(* Proofs about StaticLoad: for any feeds, loads and downloads, the live   *)
(* tables are one valid feed, the archive of a history row is kept, and it *)
(* has the feed of the row when no download disturbed the load.            *)
(***************************************************************************)
EXTENDS StaticLoad, SequenceTheorems, TLAPS

----------------------------------------------------------------------------
(* The inductive invariant: what a load knows at each of its steps.        *)

Reading    == {"archive", "copy", "link", "open", "lock", "stage"}
Archived   == {"open", "lock", "stage", "activate", "commit"}
Opened     == {"lock", "stage", "activate", "commit"}
Locked     == {"stage", "activate", "commit"}
Activating == {"activate", "commit"}

\* What holds of every load.
Holds(l) ==
    /\ pc[l] # "idle" => name[l] \in Contents
    /\ pc[l] \in Reading => zip[l] \in 1..Len(zips)
    /\ pc[l] \in {"copy", "link"} => checksum[l] \in Contents
    /\ pc[l] \in Archived => archive[name[l]] # None
    /\ pc[l] \in Opened => feed[l] \in Feeds /\ Complete(feed[l])
    /\ pc[l] \in Locked => lock = l

\* The load that holds the lock: what it deletes is what is live, as nobody
\* else commits.
Replaces(l) ==
    /\ pc[l] \notin Activating => loaded[l] = {}
    /\ pc[l] \in Activating =>
           /\ feed[l] \notin Invalid
           /\ loaded[l] \subseteq TablesIn[feed[l]]
           /\ \A t \in loaded[l] : removed[l][t] = live[t]
    /\ pc[l] = "commit" =>
           /\ loaded[l] = TablesIn[feed[l]]
           /\ \A t \in Tables : removed[l][t] = live[t]

\* As long as no download wrote to the ZIP, all that is read from it agrees.
Agrees(l) ==
    undisturbed[l] =>
        /\ pc[l] \in Reading => zips[zip[l]] = name[l]
        /\ pc[l] \in {"copy", "link"} => checksum[l] = name[l]
        /\ pc[l] \in Archived => archive[name[l]] = name[l]
        /\ pc[l] \in Opened => feed[l] = name[l]

LoaderInv(l) == Holds(l) /\ Replaces(l) /\ Agrees(l)

IInv ==
    /\ TypeOK
    /\ \A l \in Loaders : LoaderInv(l)
    /\ LiveIsOneFeed
    /\ HistoryIsArchived

----------------------------------------------------------------------------
(* Lemmas.                                                                 *)

LEMMA Constants ==
    /\ Feeds = 1..Len(TablesIn) /\ Len(TablesIn) \in Nat
    /\ \A f \in Feeds : f \in Nat /\ TablesIn[f] \in SUBSET Tables
    /\ Torn \in Contents /\ Torn \notin Feeds
    /\ None \notin Contents
    /\ Feeds \subseteq Contents
<1>1. TablesIn \in Seq(SUBSET Tables)
    BY StaticLoadAssumption
<1>2. Feeds = 1..Len(TablesIn) /\ Len(TablesIn) \in Nat
    BY <1>1, LenProperties DEF Feeds
<1>3. \A f \in Feeds : f \in Nat /\ TablesIn[f] \in SUBSET Tables
    BY <1>1, <1>2, ElementOfSeq
<1> QED BY <1>2, <1>3, StaticLoadAssumption DEF Contents

\* Everything that belongs to another load is as it was.
Frame(l) ==
    \A k \in Loaders \ {l} :
        /\ pc'[k] = pc[k] /\ zip'[k] = zip[k] /\ name'[k] = name[k]
        /\ checksum'[k] = checksum[k] /\ feed'[k] = feed[k]
        /\ undisturbed'[k] = undisturbed[k]
        /\ removed'[k] = removed[k] /\ loaded'[k] = loaded[k]

ArchiveKept == \A c \in Contents : archive[c] # None => archive'[c] = archive[c]

\* A step of one load, under its lock if it commits, keeps what holds of another.
LEMMA OthersKeep ==
    ASSUME IInv, NEW l \in Loaders, Frame(l), zips' = zips, ArchiveKept,
           \A k \in Loaders \ {l} : lock = k => lock' = k,
           live' = live \/ lock = l
    PROVE  \A k \in Loaders \ {l} : LoaderInv(k)'
<1> SUFFICES ASSUME NEW k \in Loaders \ {l}
             PROVE  LoaderInv(k)'
    OBVIOUS
<1>1. Holds(k) /\ Replaces(k) /\ Agrees(k)
    BY DEF IInv, LoaderInv
<1>2. /\ pc'[k] = pc[k] /\ zip'[k] = zip[k] /\ name'[k] = name[k]
      /\ checksum'[k] = checksum[k] /\ feed'[k] = feed[k]
      /\ undisturbed'[k] = undisturbed[k]
      /\ removed'[k] = removed[k] /\ loaded'[k] = loaded[k]
    BY DEF Frame
<1>3. pc[k] \in Archived => archive'[name[k]] = archive[name[k]]
    BY <1>1 DEF Holds, ArchiveKept, Archived
<1>4. pc[k] \in Activating => live' = live
    BY <1>1 DEF Holds, Activating, Locked
<1>5. Holds(k)'
    BY <1>1, <1>2, <1>3 DEF Holds, Complete
<1>6. Replaces(k)'
    BY <1>1, <1>2, <1>4 DEF Replaces, Activating
<1>7. Agrees(k)'
    BY <1>1, <1>2, <1>3 DEF Agrees
<1> QED BY <1>5, <1>6, <1>7 DEF LoaderInv

\* What is not written keeps its meaning.
LEMMA DatabaseKeeps ==
    ASSUME IInv, UNCHANGED <<live, history>>, ArchiveKept
    PROVE  LiveIsOneFeed' /\ HistoryIsArchived'
<1>1. LiveIsOneFeed'
    BY DEF IInv, LiveIsOneFeed, FeedRows, Complete, Nothing
<1>2. history \in Seq(Rows)
    BY DEF IInv, TypeOK
<1>3. \A i \in 1..Len(history) : history[i].checksum \in Contents
    <2>1. \A i \in 1..Len(history) : history[i] \in Rows
        BY <1>2, ElementOfSeq
    <2> QED BY <2>1 DEF Rows
<1>4. HistoryIsArchived'
    BY <1>3 DEF IInv, HistoryIsArchived, ArchivedAs, ArchiveKept
<1> QED BY <1>1, <1>4

\* A load that ends leaves nothing of its own behind.
LEMMA EndKeepsIInv ==
    ASSUME IInv, NEW l \in Loaders, End(l), UNCHANGED <<zips, served, live, history>>,
           archive' \in [Contents -> Contents \cup {None}], ArchiveKept,
           downloads' \in Nat, loads' \in Nat, faults' \in Nat
    PROVE  IInv'
<1>1. /\ pc' = [pc EXCEPT ![l] = "idle"] /\ zip' = [zip EXCEPT ![l] = 0]
      /\ name' = [name EXCEPT ![l] = None] /\ checksum' = [checksum EXCEPT ![l] = None]
      /\ feed' = [feed EXCEPT ![l] = None] /\ undisturbed' = [undisturbed EXCEPT ![l] = TRUE]
      /\ removed' = [removed EXCEPT ![l] = Nothing] /\ loaded' = [loaded EXCEPT ![l] = {}]
      /\ lock' = IF lock = l THEN NoLoader ELSE lock
    BY DEF End, Forget, Goto
<1>2. Frame(l)
    BY <1>1 DEF Frame, IInv, TypeOK
<1>3. LoaderInv(l)'
    <2>1. pc'[l] = "idle" /\ loaded'[l] = {}
        BY <1>1 DEF IInv, TypeOK
    <2> QED BY <2>1 DEF LoaderInv, Holds, Replaces, Agrees, Reading, Archived, Opened, Locked,
                        Activating
<1>4. \A k \in Loaders : LoaderInv(k)'
    BY <1>1, <1>2, <1>3, OthersKeep
<1>5. TypeOK'
    <2>1. Nothing \in [Tables -> SUBSET Feeds]
        BY DEF Nothing
    <2>2. /\ pc' \in [Loaders -> ControlStates] /\ name' \in [Loaders -> Contents \cup {None}]
          /\ checksum' \in [Loaders -> Contents \cup {None}]
          /\ feed' \in [Loaders -> Feeds \cup {None}]
          /\ undisturbed' \in [Loaders -> BOOLEAN]
          /\ loaded' \in [Loaders -> SUBSET Tables]
        BY <1>1 DEF IInv, TypeOK, ControlStates
    <2>3. removed' \in [Loaders -> [Tables -> SUBSET Feeds]]
        BY <1>1, <2>1 DEF IInv, TypeOK
    <2>4. zip' \in [Loaders -> 0..Len(zips')]
        <3>1. Len(zips) \in Nat
            BY LenProperties DEF IInv, TypeOK
        <3> QED BY <1>1, <3>1 DEF IInv, TypeOK
    <2>5. /\ lock' \in Loaders \cup {NoLoader}
          /\ \A k \in Loaders : lock' = k => pc'[k] \in {"stage", "activate", "commit"}
        BY <1>1, StaticLoadAssumption DEF IInv, TypeOK
    <2> QED BY <2>2, <2>3, <2>4, <2>5 DEF IInv, TypeOK
<1> QED BY <1>4, <1>5, DatabaseKeeps DEF IInv

LEMMA InitEstablishesIInv ==
    ASSUME Init
    PROVE  IInv
<1>1. Nothing \in [Tables -> SUBSET Feeds]
    BY DEF Nothing
<1>2. <<>> \in Seq(Contents) /\ <<>> \in Seq(Rows) /\ Len(<<>>) = 0
    BY EmptySeq
<1>3. 0 \in 0..Len(TablesIn) /\ 0 \in 0..0
    BY Constants
<1>4. TypeOK
    <2>1. /\ zips \in Seq(Contents) /\ served \in 0..Len(TablesIn) /\ history \in Seq(Rows)
          /\ archive \in [Contents -> Contents \cup {None}]
          /\ live \in [Tables -> SUBSET Feeds]
        BY <1>1, <1>2, <1>3 DEF Init
    <2>2. /\ lock \in Loaders \cup {NoLoader}
          /\ \A l \in Loaders : lock = l => pc[l] \in {"stage", "activate", "commit"}
        BY StaticLoadAssumption DEF Init
    <2>3. /\ pc \in [Loaders -> ControlStates] /\ name \in [Loaders -> Contents \cup {None}]
          /\ checksum \in [Loaders -> Contents \cup {None}]
          /\ feed \in [Loaders -> Feeds \cup {None}]
          /\ loaded \in [Loaders -> SUBSET Tables]
        BY DEF Init, ControlStates
    <2>4. undisturbed \in [Loaders -> BOOLEAN]
        BY DEF Init
    <2>5. removed \in [Loaders -> [Tables -> SUBSET Feeds]]
        BY <1>1 DEF Init
    <2>6. zip \in [Loaders -> 0..Len(zips)]
        BY <1>2, <1>3 DEF Init
    <2> QED BY <2>1, <2>2, <2>3, <2>4, <2>5, <2>6 DEF Init, TypeOK
<1>5. \A l \in Loaders : LoaderInv(l)
    BY DEF Init, LoaderInv, Holds, Replaces, Agrees, Reading, Archived, Opened, Locked, Activating
<1>6. LiveIsOneFeed /\ HistoryIsArchived
    BY <1>2 DEF Init, LiveIsOneFeed, HistoryIsArchived
<1> QED BY <1>4, <1>5, <1>6 DEF IInv

LEMMA StutterKeepsIInv ==
    ASSUME IInv, UNCHANGED vars
    PROVE  IInv'
<1>1. UNCHANGED <<zips, served, archive, live, history, lock, pc, zip, name, checksum, feed,
                  undisturbed, removed, loaded, downloads, loads, faults>>
    BY DEF vars, fileVars, databaseVars, readVars, writeVars, counts
<1>2. TypeOK'
    BY <1>1 DEF IInv, TypeOK
<1>3. \A l \in Loaders : LoaderInv(l)'
    BY <1>1 DEF IInv, LoaderInv, Holds, Replaces, Agrees, Complete
<1>4. LiveIsOneFeed' /\ HistoryIsArchived'
    BY <1>1, DatabaseKeeps DEF ArchiveKept
<1> QED BY <1>2, <1>3, <1>4 DEF IInv

----------------------------------------------------------------------------
(* Downloads.                                                              *)

\* A download takes its ZIP from the loads that read it.
LEMMA WriteZipKeepsIInv ==
    ASSUME IInv, NEW day \in 1..Len(zips), NEW content \in Contents, WriteZip(day, content),
           served' \in 0..Len(TablesIn), downloads' \in Nat,
           UNCHANGED <<archive, databaseVars, lock, pc, zip, name, checksum, feed, writeVars,
                       loads, faults>>
    PROVE  IInv'
<1>1. /\ UNCHANGED <<archive, live, history, lock, pc, zip, name, checksum, feed, removed,
                     loaded, loads, faults>>
      /\ zips' = [zips EXCEPT ![day] = content]
      /\ undisturbed' = [l \in Loaders |-> undisturbed[l] /\ zip[l] # day]
    BY DEF WriteZip, databaseVars, writeVars
<1>2. zips' \in Seq(Contents) /\ Len(zips') = Len(zips)
    BY <1>1, ExceptSeq DEF IInv, TypeOK
<1>3. \A i \in 1..Len(zips) : i # day => zips'[i] = zips[i]
    BY <1>1, <1>2, ExceptSeq DEF IInv, TypeOK
<1>4. TypeOK'
    <2>1. undisturbed' \in [Loaders -> BOOLEAN]
        BY <1>1
    <2>2. zip' \in [Loaders -> 0..Len(zips')]
        BY <1>1, <1>2 DEF IInv, TypeOK
    <2> QED BY <1>1, <1>2, <2>1, <2>2 DEF IInv, TypeOK
<1>5. ASSUME NEW l \in Loaders
      PROVE  LoaderInv(l)'
    <2>1. LoaderInv(l)
        BY DEF IInv
    <2>2. Holds(l)' /\ Replaces(l)'
        BY <1>1, <1>2, <2>1 DEF LoaderInv, Holds, Replaces, Complete
    <2>3. Agrees(l)'
        <3> SUFFICES ASSUME undisturbed'[l]
                     PROVE  /\ pc[l] \in Reading => zips'[zip[l]] = name[l]
                            /\ pc[l] \in {"copy", "link"} => checksum[l] = name[l]
                            /\ pc[l] \in Archived => archive[name[l]] = name[l]
                            /\ pc[l] \in Opened => feed[l] = name[l]
            BY <1>1 DEF Agrees
        <3>1. undisturbed[l] /\ zip[l] # day
            BY <1>1
        <3> QED BY <1>3, <2>1, <3>1 DEF LoaderInv, Agrees, Holds
    <2> QED BY <2>2, <2>3 DEF LoaderInv
<1>6. LiveIsOneFeed' /\ HistoryIsArchived'
    BY <1>1, DatabaseKeeps DEF ArchiveKept
<1> QED BY <1>4, <1>5, <1>6 DEF IInv

LEMMA BeginDownloadKeepsIInv ==
    ASSUME IInv, BeginDownload
    PROVE  IInv'
<1>1. /\ UNCHANGED <<served, archive, live, history, lock, pc, zip, name, checksum, feed,
                     removed, loaded, loads, faults>>
      /\ downloads' \in Nat
    BY DEF BeginDownload, databaseVars, writeVars, IInv, TypeOK
<1>2. zips \in Seq(Contents) /\ Len(zips) \in Nat
    BY LenProperties DEF IInv, TypeOK
<1>3. CASE zips' = Append(zips, Torn) /\ UNCHANGED undisturbed
    <2>1. /\ zips' \in Seq(Contents) /\ Len(zips') = Len(zips) + 1
          /\ \A i \in 1..Len(zips) : zips'[i] = zips[i]
        BY <1>2, <1>3, Constants, AppendProperties
    <2>2. TypeOK'
        <3>1. zip' \in [Loaders -> 0..Len(zips')]
            BY <1>1, <1>2, <2>1 DEF IInv, TypeOK
        <3> QED BY <1>1, <1>3, <2>1, <3>1 DEF IInv, TypeOK
    <2>3. ASSUME NEW l \in Loaders
          PROVE  LoaderInv(l)'
        <3>1. LoaderInv(l)
            BY DEF IInv
        <3>2. pc[l] \in Reading => zip[l] \in 1..Len(zips) /\ zip[l] \in 1..Len(zips')
            BY <1>2, <2>1, <3>1 DEF LoaderInv, Holds
        <3>3. Holds(l)' /\ Replaces(l)'
            BY <1>1, <3>1, <3>2 DEF LoaderInv, Holds, Replaces, Complete
        <3>4. Agrees(l)'
            BY <1>1, <1>3, <2>1, <3>1, <3>2 DEF LoaderInv, Agrees
        <3> QED BY <3>3, <3>4 DEF LoaderInv
    <2>4. LiveIsOneFeed' /\ HistoryIsArchived'
        BY <1>1, DatabaseKeeps DEF ArchiveKept
    <2> QED BY <2>2, <2>3, <2>4 DEF IInv
<1>4. CASE zips # <<>> /\ WriteZip(Len(zips), Torn)
    <2>1. Len(zips) \in 1..Len(zips)
        BY <1>2, <1>4, EmptySeq
    <2>2. served' \in 0..Len(TablesIn)
        BY <1>1 DEF IInv, TypeOK
    <2> QED BY <1>1, <1>4, <2>1, <2>2, Constants, WriteZipKeepsIInv DEF databaseVars, writeVars
<1> QED BY <1>3, <1>4 DEF BeginDownload

LEMMA EndDownloadKeepsIInv ==
    ASSUME IInv, EndDownload
    PROVE  IInv'
<1>1. zips # <<>> /\ served' \in Feeds /\ WriteZip(Len(zips), served')
    BY DEF EndDownload
<1>2. Len(zips) \in 1..Len(zips)
    BY <1>1, LenProperties, EmptySeq DEF IInv, TypeOK
<1>3. served' \in Contents /\ served' \in 0..Len(TablesIn)
    BY <1>1, Constants
<1>4. /\ downloads' \in Nat
      /\ UNCHANGED <<archive, databaseVars, lock, pc, zip, name, checksum, feed, writeVars,
                     loads, faults>>
    BY DEF EndDownload, counts, IInv, TypeOK
<1>5. PICK content \in Contents : content = served'
    BY <1>3
<1>6. WriteZip(Len(zips), content)
    BY <1>1, <1>5 DEF WriteZip
<1> QED BY <1>2, <1>3, <1>4, <1>6, WriteZipKeepsIInv

----------------------------------------------------------------------------
(* The steps of a load.                                                    *)

\* A step that does not commit only has to look after its own load.
LEMMA StepKeepsIInv ==
    ASSUME IInv, NEW l \in Loaders, TypeOK', LoaderInv(l)', Frame(l), ArchiveKept,
           UNCHANGED <<zips, live, history>>,
           \A k \in Loaders \ {l} : lock = k => lock' = k
    PROVE  IInv'
BY OthersKeep, DatabaseKeeps DEF IInv

\* What every load knows, in one fact.
LEMMA Knows ==
    ASSUME IInv, NEW l \in Loaders
    PROVE  /\ Holds(l) /\ Replaces(l) /\ Agrees(l)
           /\ pc[l] \in Reading => Read(l) \in Contents
           /\ zips \in Seq(Contents) /\ Len(zips) \in Nat
<1>1. Holds(l) /\ Replaces(l) /\ Agrees(l)
    BY DEF IInv, LoaderInv
<1>2. zips \in Seq(Contents) /\ Len(zips) \in Nat
    BY LenProperties DEF IInv, TypeOK
<1>3. pc[l] \in Reading => zips[zip[l]] \in Contents
    BY <1>1, <1>2, ElementOfSeq DEF Holds
<1> QED BY <1>1, <1>2, <1>3 DEF Read

LEMMA StartKeepsIInv ==
    ASSUME IInv, NEW l \in Loaders, Start(l)
    PROVE  IInv'
<1>1. /\ pc[l] = "idle" /\ zips # <<>>
      /\ zip' = [zip EXCEPT ![l] = Len(zips)]
      /\ name' = [name EXCEPT ![l] = zips[Len(zips)]]
      /\ pc' = [pc EXCEPT ![l] = "archive"]
      /\ UNCHANGED <<zips, served, archive, live, history, lock, checksum, feed, undisturbed,
                     removed, loaded, downloads, faults>>
      /\ loads' \in Nat
    BY DEF Start, Goto, fileVars, databaseVars, writeVars, IInv, TypeOK
<1>2. Len(zips) \in 1..Len(zips) /\ zips[Len(zips)] \in Contents
    BY <1>1, Knows, EmptySeq, ElementOfSeq
<1>3. TypeOK'
    BY <1>1, <1>2, Knows DEF IInv, TypeOK, ControlStates
<1>4. Frame(l) /\ ArchiveKept
    BY <1>1 DEF Frame, ArchiveKept, IInv, TypeOK
<1>5. pc'[l] = "archive" /\ zip'[l] = Len(zips) /\ name'[l] = zips[Len(zips)]
    BY <1>1 DEF IInv, TypeOK
<1>6. LoaderInv(l)'
    BY <1>1, <1>2, <1>5, Knows DEF LoaderInv, Holds, Replaces, Agrees, Reading, Archived, Opened,
                                   Locked, Activating
<1> QED BY <1>1, <1>3, <1>4, <1>6, StepKeepsIInv

LEMMA ArchiveKeepsIInv ==
    ASSUME IInv, NEW l \in Loaders, Archive(l)
    PROVE  IInv'
<1>1. /\ pc[l] = "archive"
      /\ UNCHANGED <<zips, served, archive, live, history, downloads, loads, faults>>
    BY DEF Archive, fileVars, databaseVars, counts
<1>2. ArchiveKept
    BY <1>1 DEF ArchiveKept
<1>3. /\ Holds(l) /\ Replaces(l) /\ Agrees(l) /\ Read(l) \in Contents
    BY <1>1, Knows DEF Reading
<1>4. CASE End(l)
    BY <1>1, <1>2, <1>4, EndKeepsIInv DEF IInv, TypeOK
<1>5. CASE /\ checksum' = [checksum EXCEPT ![l] = Read(l)]
           /\ pc' = [pc EXCEPT ![l] = "copy"]
           /\ UNCHANGED <<lock, zip, name, feed, undisturbed, removed, loaded>>
    <2>1. TypeOK'
        BY <1>1, <1>3, <1>5 DEF IInv, TypeOK, ControlStates
    <2>2. Frame(l)
        BY <1>5 DEF Frame, IInv, TypeOK
    <2>3. pc'[l] = "copy" /\ checksum'[l] = Read(l)
        BY <1>5 DEF IInv, TypeOK
    <2>4. LoaderInv(l)'
        BY <1>1, <1>3, <1>5, <2>3 DEF LoaderInv, Holds, Replaces, Agrees, Read, Reading, Archived,
                                      Opened, Locked, Activating
    <2> QED BY <1>1, <1>2, <1>5, <2>1, <2>2, <2>4, StepKeepsIInv
<1>6. CASE /\ archive[name[l]] = Read(l)
           /\ pc' = [pc EXCEPT ![l] = "open"]
           /\ UNCHANGED <<lock, zip, name, checksum, feed, undisturbed, removed, loaded>>
    <2>1. TypeOK'
        BY <1>1, <1>6 DEF IInv, TypeOK, ControlStates
    <2>2. Frame(l)
        BY <1>6 DEF Frame, IInv, TypeOK
    <2>3. pc'[l] = "open"
        BY <1>6 DEF IInv, TypeOK
    <2>4. archive[name[l]] # None
        BY <1>3, <1>6, Constants
    <2>5. LoaderInv(l)'
        BY <1>1, <1>3, <1>6, <2>3, <2>4
        DEF LoaderInv, Holds, Replaces, Agrees, Read, Reading, Archived, Opened, Locked, Activating
    <2> QED BY <1>1, <1>2, <1>6, <2>1, <2>2, <2>5, StepKeepsIInv
<1> QED BY <1>4, <1>5, <1>6 DEF Archive, Goto, readVars, writeVars

LEMMA CopyKeepsIInv ==
    ASSUME IInv, NEW l \in Loaders, Copy(l)
    PROVE  IInv'
<1>1. /\ pc[l] = "copy"
      /\ UNCHANGED <<zips, served, archive, live, history, downloads, loads, faults>>
    BY DEF Copy, fileVars, databaseVars, counts
<1>2. ArchiveKept
    BY <1>1 DEF ArchiveKept
<1>3. Holds(l) /\ Replaces(l) /\ Agrees(l)
    BY Knows
<1>4. CASE End(l)
    BY <1>1, <1>2, <1>4, EndKeepsIInv DEF IInv, TypeOK
<1>5. CASE /\ pc' = [pc EXCEPT ![l] = "link"]
           /\ UNCHANGED <<lock, zip, name, checksum, feed, undisturbed, removed, loaded>>
    <2>1. TypeOK'
        BY <1>1, <1>5 DEF IInv, TypeOK, ControlStates
    <2>2. Frame(l)
        BY <1>5 DEF Frame, IInv, TypeOK
    <2>3. pc'[l] = "link"
        BY <1>5 DEF IInv, TypeOK
    <2>4. LoaderInv(l)'
        BY <1>1, <1>3, <1>5, <2>3 DEF LoaderInv, Holds, Replaces, Agrees, Reading, Archived,
                                      Opened, Locked, Activating
    <2> QED BY <1>1, <1>2, <1>5, <2>1, <2>2, <2>4, StepKeepsIInv
<1> QED BY <1>4, <1>5 DEF Copy, Goto, readVars, writeVars

\* os.link writes under a name that has nothing yet.
LEMMA LinkedKeeps ==
    ASSUME IInv, NEW l \in Loaders, pc[l] = "link", archive' = Linked(l)
    PROVE  /\ archive' \in [Contents -> Contents \cup {None}]
           /\ ArchiveKept
           /\ archive'[name[l]] = IF archive[name[l]] = None THEN checksum[l]
                                  ELSE archive[name[l]]
<1>1. name[l] \in Contents /\ checksum[l] \in Contents
    BY Knows DEF Holds
<1> QED BY <1>1 DEF Linked, ArchiveKept, IInv, TypeOK

LEMMA LinkKeepsIInv ==
    ASSUME IInv, NEW l \in Loaders, Link(l)
    PROVE  IInv'
<1>1. /\ pc[l] = "link" /\ archive' = Linked(l)
      /\ UNCHANGED <<zips, served, live, history, downloads, loads, faults>>
    BY DEF Link, databaseVars, counts
<1>2. /\ archive' \in [Contents -> Contents \cup {None}]
      /\ ArchiveKept
    BY <1>1, LinkedKeeps
<1>3. Holds(l) /\ Replaces(l) /\ Agrees(l)
    BY Knows
<1>4. CASE End(l)
    BY <1>1, <1>2, <1>4, EndKeepsIInv DEF IInv, TypeOK
<1>5. CASE /\ archive'[name[l]] = checksum[l]
           /\ pc' = [pc EXCEPT ![l] = "open"]
           /\ checksum' = [checksum EXCEPT ![l] = None]
           /\ UNCHANGED <<lock, zip, name, feed, undisturbed, removed, loaded>>
    <2>1. TypeOK'
        BY <1>1, <1>2, <1>5 DEF IInv, TypeOK, ControlStates
    <2>2. Frame(l)
        BY <1>5 DEF Frame, IInv, TypeOK
    <2>3. pc'[l] = "open"
        BY <1>5 DEF IInv, TypeOK
    <2>4. checksum[l] # None
        BY <1>1, <1>3, Constants DEF Holds
    <2>5. LoaderInv(l)'
        BY <1>1, <1>3, <1>5, <2>3, <2>4
        DEF LoaderInv, Holds, Replaces, Agrees, Reading, Archived, Opened, Locked, Activating
    <2> QED BY <1>1, <1>2, <1>5, <2>1, <2>2, <2>5, StepKeepsIInv
<1> QED BY <1>4, <1>5 DEF Link, Goto, writeVars

LEMMA OpenKeepsIInv ==
    ASSUME IInv, NEW l \in Loaders, Open(l)
    PROVE  IInv'
<1>1. /\ pc[l] = "open"
      /\ UNCHANGED <<zips, served, archive, live, history, downloads, loads, faults>>
    BY DEF Open, fileVars, databaseVars, counts
<1>2. ArchiveKept
    BY <1>1 DEF ArchiveKept
<1>3. Holds(l) /\ Replaces(l) /\ Agrees(l) /\ Read(l) \in Contents
    BY <1>1, Knows DEF Reading
<1>4. CASE End(l)
    BY <1>1, <1>2, <1>4, EndKeepsIInv DEF IInv, TypeOK
<1>5. CASE /\ Read(l) # Torn /\ Complete(Read(l))
           /\ feed' = [feed EXCEPT ![l] = Read(l)]
           /\ pc' = [pc EXCEPT ![l] = "lock"]
           /\ UNCHANGED <<lock, zip, name, checksum, undisturbed, removed, loaded>>
    <2>0. Read(l) \in Feeds
        BY <1>3, <1>5 DEF Contents
    <2>1. TypeOK'
        BY <1>1, <1>5, <2>0 DEF IInv, TypeOK, ControlStates
    <2>2. Frame(l)
        BY <1>5 DEF Frame, IInv, TypeOK
    <2>3. pc'[l] = "lock" /\ feed'[l] = Read(l)
        BY <1>5 DEF IInv, TypeOK
    <2>4. Complete(feed[l])'
        BY <1>5, <2>3 DEF Complete
    <2>5. LoaderInv(l)'
        BY <1>1, <1>3, <1>5, <2>0, <2>3, <2>4
        DEF LoaderInv, Holds, Replaces, Agrees, Read, Reading, Archived, Opened, Locked, Activating
    <2> QED BY <1>1, <1>2, <1>5, <2>1, <2>2, <2>5, StepKeepsIInv
<1> QED BY <1>4, <1>5 DEF Open, Goto, writeVars

LEMMA LockKeepsIInv ==
    ASSUME IInv, NEW l \in Loaders, Lock(l)
    PROVE  IInv'
<1>1. /\ pc[l] = "lock" /\ lock = NoLoader /\ lock' = l
      /\ pc' = [pc EXCEPT ![l] = "stage"]
      /\ UNCHANGED <<zips, served, archive, live, history, zip, name, checksum, feed, undisturbed,
                     removed, loaded, downloads, loads, faults>>
    BY DEF Lock, Goto, fileVars, databaseVars, readVars, writeVars, counts
<1>2. Holds(l) /\ Replaces(l) /\ Agrees(l)
    BY Knows
<1>3. TypeOK'
    BY <1>1 DEF IInv, TypeOK, ControlStates
<1>4. Frame(l) /\ ArchiveKept
    BY <1>1 DEF Frame, ArchiveKept, IInv, TypeOK
<1>5. pc'[l] = "stage"
    BY <1>1 DEF IInv, TypeOK
<1>6. LoaderInv(l)'
    BY <1>1, <1>2, <1>5
    DEF LoaderInv, Holds, Replaces, Agrees, Reading, Archived, Opened, Locked, Activating, Complete
<1>7. \A k \in Loaders \ {l} : lock = k => lock' = k
    BY <1>1, StaticLoadAssumption
<1> QED BY <1>1, <1>3, <1>4, <1>6, <1>7, StepKeepsIInv

LEMMA StageKeepsIInv ==
    ASSUME IInv, NEW l \in Loaders, Stage(l)
    PROVE  IInv'
<1>1. /\ pc[l] = "stage"
      /\ UNCHANGED <<zips, served, archive, live, history, downloads, loads, faults>>
    BY DEF Stage, fileVars, databaseVars, counts
<1>2. ArchiveKept
    BY <1>1 DEF ArchiveKept
<1>3. Holds(l) /\ Replaces(l) /\ Agrees(l)
    BY Knows
<1>4. CASE End(l)
    BY <1>1, <1>2, <1>4, EndKeepsIInv DEF IInv, TypeOK
<1>5. CASE /\ feed[l] \notin Invalid
           /\ pc' = [pc EXCEPT ![l] = "activate"]
           /\ zip' = [zip EXCEPT ![l] = 0]
           /\ UNCHANGED <<lock, name, checksum, feed, undisturbed, removed, loaded>>
    <2>1. TypeOK'
        <3>1. zip' \in [Loaders -> 0..Len(zips')]
            BY <1>1, <1>5, Knows DEF IInv, TypeOK
        <3>2. \A k \in Loaders : lock' = k => pc'[k] \in {"stage", "activate", "commit"}
            BY <1>5 DEF IInv, TypeOK
        <3> QED BY <1>1, <1>5, <3>1, <3>2 DEF IInv, TypeOK, ControlStates
    <2>2. Frame(l)
        BY <1>5 DEF Frame, IInv, TypeOK
    <2>3. pc'[l] = "activate"
        BY <1>5 DEF IInv, TypeOK
    <2>4. LoaderInv(l)'
        BY <1>1, <1>3, <1>5, <2>3
        DEF LoaderInv, Holds, Replaces, Agrees, Reading, Archived, Opened, Locked, Activating,
            Complete
    <2> QED BY <1>1, <1>2, <1>5, <2>1, <2>2, <2>4, StepKeepsIInv
<1> QED BY <1>4, <1>5 DEF Stage, Goto, writeVars

LEMMA ActivateKeepsIInv ==
    ASSUME IInv, NEW l \in Loaders, Activate(l)
    PROVE  IInv'
<1>1. Holds(l) /\ Replaces(l) /\ Agrees(l)
    BY Knows
<1>2. /\ pc[l] = "activate" /\ loaded[l] # TablesIn[feed[l]]
      /\ feed[l] \in Feeds /\ loaded[l] \subseteq TablesIn[feed[l]]
    BY <1>1 DEF Activate, Replaces, Holds, Opened, Activating
<1>3. PICK t : t = CHOOSE u \in TablesIn[feed[l]] \ loaded[l] : TRUE
    OBVIOUS
<1>4. t \in TablesIn[feed[l]] \ loaded[l] /\ t \in Tables
    <2>1. \E u \in TablesIn[feed[l]] \ loaded[l] : TRUE
        BY <1>2
    <2> QED BY <1>2, <1>3, <2>1, Constants
<1>5. /\ removed' = [removed EXCEPT ![l][t] = live[t]]
      /\ loaded' = [loaded EXCEPT ![l] = @ \cup {t}]
      /\ UNCHANGED <<zips, served, archive, live, history, lock, pc, zip, name, checksum, feed,
                     undisturbed, downloads, loads, faults>>
    BY <1>3 DEF Activate, fileVars, databaseVars, readVars, counts
<1>6. TypeOK'
    <2>1. removed' \in [Loaders -> [Tables -> SUBSET Feeds]]
        BY <1>4, <1>5 DEF IInv, TypeOK
    <2>2. loaded' \in [Loaders -> SUBSET Tables]
        BY <1>4, <1>5 DEF IInv, TypeOK
    <2> QED BY <1>5, <2>1, <2>2 DEF IInv, TypeOK
<1>7. Frame(l) /\ ArchiveKept
    BY <1>5 DEF Frame, ArchiveKept, IInv, TypeOK
<1>8. /\ loaded'[l] = loaded[l] \cup {t}
      /\ \A u \in Tables : removed'[l][u] = IF u = t THEN live[t] ELSE removed[l][u]
    BY <1>4, <1>5 DEF IInv, TypeOK
<1>9. Replaces(l)'
    <2>1. \A u \in loaded'[l] : u \in Tables /\ removed'[l][u] = live[u]
        BY <1>1, <1>2, <1>4, <1>8, Constants DEF Replaces, Activating
    <2> QED BY <1>1, <1>2, <1>4, <1>5, <1>8, <2>1 DEF Replaces, Activating
<1>10. Holds(l)' /\ Agrees(l)'
    BY <1>1, <1>5 DEF Holds, Agrees, Complete
<1> QED BY <1>5, <1>6, <1>7, <1>9, <1>10, StepKeepsIInv DEF LoaderInv

\* A table that is not in a complete feed is an optional one.
LEMMA ClearOptionalKeepsIInv ==
    ASSUME IInv, NEW l \in Loaders, ClearOptional(l)
    PROVE  IInv'
<1>1. Holds(l) /\ Replaces(l) /\ Agrees(l)
    BY Knows
<1>2. /\ pc[l] = "activate" /\ loaded[l] = TablesIn[feed[l]]
      /\ removed' = [removed EXCEPT ![l] = [t \in Tables |->
                        IF t \in Optional \ loaded[l] THEN live[t] ELSE @[t]]]
      /\ pc' = [pc EXCEPT ![l] = "commit"]
      /\ UNCHANGED <<zips, served, archive, live, history, lock, zip, name, checksum, feed,
                     undisturbed, loaded, downloads, loads, faults>>
    BY DEF ClearOptional, Goto, fileVars, databaseVars, readVars, counts
<1>3. removed'[l] = [t \in Tables |->
                        IF t \in Optional \ loaded[l] THEN live[t] ELSE removed[l][t]]
    BY <1>2 DEF IInv, TypeOK
<1>4. TypeOK'
    <2>1. removed' \in [Loaders -> [Tables -> SUBSET Feeds]]
        <3>1. removed'[l] \in [Tables -> SUBSET Feeds]
            BY <1>3 DEF IInv, TypeOK
        <3> QED BY <1>2, <3>1 DEF IInv, TypeOK
    <2>2. /\ pc' \in [Loaders -> ControlStates]
          /\ \A k \in Loaders : lock' = k => pc'[k] \in {"stage", "activate", "commit"}
        BY <1>2 DEF IInv, TypeOK, ControlStates
    <2> QED BY <1>2, <2>1, <2>2 DEF IInv, TypeOK
<1>5. Frame(l) /\ ArchiveKept
    BY <1>2 DEF Frame, ArchiveKept, IInv, TypeOK
<1>6. pc'[l] = "commit"
    BY <1>2 DEF IInv, TypeOK
<1>7. \A t \in Tables : removed'[l][t] = live[t]
    <2> TAKE t \in Tables
    <2>1. CASE t \in loaded[l]
        BY <1>1, <1>2, <1>3, <2>1 DEF Replaces, Activating
    <2>2. CASE t \notin loaded[l]
        <3>1. t \in Optional
            BY <1>1, <1>2, <2>2 DEF Holds, Opened, Complete
        <3> QED BY <1>3, <2>2, <3>1
    <2> QED BY <2>1, <2>2
<1>8. Replaces(l)'
    <2>1. loaded[l] \subseteq Tables
        BY DEF IInv, TypeOK
    <2> QED BY <1>1, <1>2, <1>6, <1>7, <2>1 DEF Replaces, Activating
<1>9. Holds(l)' /\ Agrees(l)'
    BY <1>1, <1>2, <1>6 DEF Holds, Agrees, Complete, Reading, Archived, Opened, Locked
<1> QED BY <1>2, <1>4, <1>5, <1>8, <1>9, StepKeepsIInv DEF LoaderInv

LEMMA FailKeepsIInv ==
    ASSUME IInv, NEW l \in Loaders, Fail(l)
    PROVE  IInv'
<1>1. /\ End(l)
      /\ archive' = archive \/ (pc[l] = "link" /\ archive' = Linked(l))
      /\ UNCHANGED <<zips, served, live, history, downloads, loads>>
    BY DEF Fail, databaseVars
<1>2. downloads' \in Nat /\ loads' \in Nat /\ faults' \in Nat
    BY <1>1 DEF Fail, Fault, IInv, TypeOK
<1>3. archive' \in [Contents -> Contents \cup {None}] /\ ArchiveKept
    <2>1. CASE archive' = archive
        BY <2>1 DEF ArchiveKept, IInv, TypeOK
    <2>2. CASE pc[l] = "link" /\ archive' = Linked(l)
        BY <2>2, LinkedKeeps
    <2> QED BY <1>1, <2>1, <2>2
<1> QED BY <1>1, <1>2, <1>3, EndKeepsIInv

\* The transaction that holds the lock replaces all that is live.
LEMMA CommitKeepsIInv ==
    ASSUME IInv, NEW l \in Loaders, Commit(l)
    PROVE  IInv'
<1>1. Holds(l) /\ Replaces(l) /\ Agrees(l)
    BY Knows
<1>2. /\ pc[l] = "commit" /\ End(l)
      /\ live' = [t \in Tables |-> (live[t] \ removed[l][t])
                                     \cup (IF t \in loaded[l] THEN {feed[l]} ELSE {})]
      /\ UNCHANGED <<zips, served, archive, downloads, loads, faults>>
    BY DEF Commit, fileVars, counts
<1>3. PICK row : row = [checksum |-> name[l], feed |-> feed[l], undisturbed |-> undisturbed[l]]
    OBVIOUS
<1>4. history' = Append(history, row)
    BY <1>3 DEF Commit
<1>5. /\ feed[l] \in Feeds /\ Complete(feed[l]) /\ feed[l] \notin Invalid /\ lock = l
      /\ name[l] \in Contents /\ archive[name[l]] # None
      /\ undisturbed[l] => archive[name[l]] = feed[l]
      /\ loaded[l] = TablesIn[feed[l]]
      /\ \A t \in Tables : removed[l][t] = live[t]
    BY <1>1, <1>2 DEF Holds, Replaces, Agrees, Archived, Opened, Locked, Activating
<1>6. row \in Rows
    BY <1>3, <1>5 DEF Rows, IInv, TypeOK
<1>7. /\ history' \in Seq(Rows) /\ Len(history') = Len(history) + 1 /\ Len(history) \in Nat
      /\ history'[Len(history')] = row
      /\ \A i \in 1..Len(history) : history'[i] = history[i]
    <2>1. history \in Seq(Rows)
        BY DEF IInv, TypeOK
    <2> QED BY <1>4, <1>6, <2>1, AppendProperties, LenProperties
<1>8. live' = FeedRows(feed[l])
    BY <1>2, <1>5 DEF FeedRows
<1>9. LiveIsOneFeed'
    <2>1. history' # <<>>
        BY <1>7, EmptySeq
    <2>2. history'[Len(history')].feed = feed[l]
        BY <1>3, <1>7
    <2> QED BY <1>5, <1>8, <2>1, <2>2 DEF LiveIsOneFeed, FeedRows, Complete
<1>10. HistoryIsArchived'
    <2> SUFFICES ASSUME NEW i \in 1..Len(history')
                 PROVE  /\ archive[history'[i].checksum] # None
                        /\ history'[i].undisturbed =>
                              archive[history'[i].checksum] = history'[i].feed
        BY <1>2 DEF HistoryIsArchived, ArchivedAs
    <2>1. CASE i \in 1..Len(history)
        BY <1>7, <2>1 DEF IInv, HistoryIsArchived, ArchivedAs
    <2>2. CASE i = Len(history')
        BY <1>3, <1>5, <1>7, <2>2
    <2> QED BY <1>7, <2>1, <2>2
<1>11. /\ pc' = [pc EXCEPT ![l] = "idle"] /\ zip' = [zip EXCEPT ![l] = 0]
       /\ name' = [name EXCEPT ![l] = None] /\ checksum' = [checksum EXCEPT ![l] = None]
       /\ feed' = [feed EXCEPT ![l] = None] /\ undisturbed' = [undisturbed EXCEPT ![l] = TRUE]
       /\ removed' = [removed EXCEPT ![l] = Nothing] /\ loaded' = [loaded EXCEPT ![l] = {}]
       /\ lock' = NoLoader
    BY <1>2, <1>5 DEF End, Forget, Goto
<1>12. Frame(l) /\ ArchiveKept
    BY <1>2, <1>11 DEF Frame, ArchiveKept, IInv, TypeOK
<1>13. LoaderInv(l)'
    <2>1. pc'[l] = "idle" /\ loaded'[l] = {}
        BY <1>11 DEF IInv, TypeOK
    <2> QED BY <2>1 DEF LoaderInv, Holds, Replaces, Agrees, Reading, Archived, Opened, Locked,
                        Activating
<1>14. \A k \in Loaders : LoaderInv(k)'
    BY <1>2, <1>5, <1>12, <1>13, OthersKeep
<1>15. TypeOK'
    <2>1. live' \in [Tables -> SUBSET Feeds]
        BY <1>5, <1>8 DEF FeedRows
    <2>2. /\ pc' \in [Loaders -> ControlStates] /\ name' \in [Loaders -> Contents \cup {None}]
          /\ checksum' \in [Loaders -> Contents \cup {None}]
          /\ feed' \in [Loaders -> Feeds \cup {None}]
          /\ undisturbed' \in [Loaders -> BOOLEAN]
          /\ loaded' \in [Loaders -> SUBSET Tables]
        BY <1>11 DEF IInv, TypeOK, ControlStates
    <2>3. removed' \in [Loaders -> [Tables -> SUBSET Feeds]]
        <3>1. Nothing \in [Tables -> SUBSET Feeds]
            BY DEF Nothing
        <3> QED BY <1>11, <3>1 DEF IInv, TypeOK
    <2>4. zip' \in [Loaders -> 0..Len(zips')]
        BY <1>2, <1>11, Knows DEF IInv, TypeOK
    <2>5. /\ lock' \in Loaders \cup {NoLoader}
          /\ \A k \in Loaders : lock' = k => pc'[k] \in {"stage", "activate", "commit"}
        BY <1>11, StaticLoadAssumption
    <2> QED BY <1>2, <1>7, <2>1, <2>2, <2>3, <2>4, <2>5 DEF IInv, TypeOK
<1> QED BY <1>9, <1>10, <1>14, <1>15 DEF IInv

LEMMA NextKeepsIInv ==
    ASSUME IInv, [Next]_vars
    PROVE  IInv'
<1>1. ASSUME NEW l \in Loaders, Load(l)
      PROVE  IInv'
    BY <1>1, StartKeepsIInv, ArchiveKeepsIInv, CopyKeepsIInv, LinkKeepsIInv, OpenKeepsIInv,
       LockKeepsIInv, StageKeepsIInv, ActivateKeepsIInv, ClearOptionalKeepsIInv, CommitKeepsIInv
    DEF Load
<1> QED BY <1>1, BeginDownloadKeepsIInv, EndDownloadKeepsIInv, FailKeepsIInv, StutterKeepsIInv
        DEF Next

----------------------------------------------------------------------------
(* The theorems.                                                           *)

\* The inductive invariant holds in every reachable state.
THEOREM InvariantHolds == Spec => []IInv
<1>1. Init => IInv
    BY InitEstablishesIInv
<1>2. IInv /\ [Next]_vars => IInv'
    BY NextKeepsIInv
<1> QED BY <1>1, <1>2, PTL DEF Spec

\* The files, the tables and the loads keep their types.
THEOREM TypeCorrect == Spec => []TypeOK
<1>1. IInv => TypeOK
    BY DEF IInv
<1> QED BY <1>1, InvariantHolds, PTL

\* load_static_gtfs activates one complete and valid feed, whatever else runs.
THEOREM LiveIsAlwaysOneFeed == Spec => []LiveIsOneFeed
<1>1. IInv => LiveIsOneFeed
    BY DEF IInv
<1> QED BY <1>1, InvariantHolds, PTL

\* What a row of raw.static_load_history names is in the archive, and it is
\* the feed of the row unless a download wrote to the ZIP meanwhile.
THEOREM HistoryAlwaysArchived == Spec => []HistoryIsArchived
<1>1. IInv => HistoryIsArchived
    BY DEF IInv
<1> QED BY <1>1, InvariantHolds, PTL

\* archive_file never replaces what is archived.
THEOREM ArchiveAlwaysKept == Spec => ArchiveIsKept
<1>1. ASSUME IInv, [Next]_vars
      PROVE  ArchiveKept
    <2>1. CASE \E l \in Loaders : Link(l)
        BY <1>1, <2>1, LinkedKeeps DEF Link
    <2>2. CASE \E l \in Loaders : Fail(l)
        <3>1. PICK l \in Loaders : Fail(l)
            BY <2>2
        <3>2. archive' = archive \/ (pc[l] = "link" /\ archive' = Linked(l))
            BY <3>1 DEF Fail
        <3> QED BY <1>1, <3>2, LinkedKeeps DEF ArchiveKept
    <2>3. CASE archive' = archive
        BY <2>3 DEF ArchiveKept
    <2> QED BY <1>1, <2>1, <2>2, <2>3
            DEF Next, Load, BeginDownload, EndDownload, Start, Archive, Copy, Open, Lock, Stage,
                Activate, ClearOptional, Commit, vars, fileVars
<1>2. IInv /\ [Next]_vars => [ArchiveKept]_vars
    BY <1>1
<1> QED BY <1>2, InvariantHolds, PTL DEF Spec, ArchiveIsKept, ArchiveKept
=============================================================================
