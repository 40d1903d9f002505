---------------------- MODULE IncrementalStagingProofs ----------------------
(***************************************************************************)
(* Proofs about IncrementalStaging: for any number of writers and events,  *)
(* whenever the topic keeps an event no longer than the table does, the    *)
(* watermark passes over no row and no event is staged twice.  And about   *)
(* TableLocks: what IncrementalStaging assumes of its locks is true.       *)
(***************************************************************************)
EXTENDS IncrementalStaging, TableLocks, SequenceTheorems, WellFoundedInduction, TLAPS

----------------------------------------------------------------------------
(* The inductive invariant.  The lock on the table makes the writers take  *)
(* turns, so that ids are committed in the order they are drawn; an event  *)
(* whose row is gone from the table is gone from the topic, too.           *)

\* The rows of the table, of dbt and of the open transaction.
Known == source \cup staged \cup delta
Everywhere == Known \cup UNION {rows[w] : w \in Writers}

OneWriter ==
    /\ \A v, w \in open : v = w
    /\ \A w \in Writers \ open : rows[w] = {}
    /\ running => open = {}

MessagesAreUnique == \A m, n \in published : m.event = n.event => m = n

RowsArePublished ==
    \A r \in Everywhere :
        /\ r.id <= lastId
        /\ [event |-> r.event, time |-> r.time] \in published

OneRowPerId    == \A r, s \in Everywhere : r.id = s.id => r = s
OneRowPerEvent == \A r, s \in Everywhere : r.event = s.event => r = s

OpenRowsAreAbove ==
    \A w \in Writers : \A r \in rows[w] : \A s \in Known : r.id > s.id

\* A copied row is deleted from the table only after its retention.
GoneIsExpired ==
    \A r \in staged \cup delta : r \in source \/ clock - r.time > SourceDays

StagedOrAbove == \A r \in source : r \in staged \/ \A s \in staged : r.id > s.id

SelectedIsComplete == running => source \subseteq staged \cup delta

IInv ==
    /\ TypeOK
    /\ OneWriter
    /\ MessagesAreUnique
    /\ RowsArePublished
    /\ OneRowPerId
    /\ OneRowPerEvent
    /\ OpenRowsAreAbove
    /\ GoneIsExpired
    /\ StagedOrAbove
    /\ SelectedIsComplete

----------------------------------------------------------------------------
(* Lemmas.                                                                 *)

\* A bounded, non-empty set of naturals has a maximum, and Max returns it.
LEMMA MaxOfBounded ==
    ASSUME NEW S \in SUBSET Nat, S # {}, NEW b \in Nat, \A x \in S : x <= b
    PROVE  Max(S) \in S /\ \A y \in S : Max(S) >= y
<1> DEFINE T == {b - x : x \in S}
<1>1. T \subseteq Nat /\ T # {}
    <2>1. \A x \in S : b - x \in Nat
        OBVIOUS
    <2>2. PICK x \in S : TRUE
        OBVIOUS
    <2>3. b - x \in T
        OBVIOUS
    <2> QED BY <2>1, <2>3
<1>2. \E t \in T : \A u \in T : ~(<<u, t>> \in OpToRel(<, Nat))
    BY <1>1, WFMin, NatLessThanWellFounded, Zenon
<1>3. PICK t \in T : \A u \in T : ~(u < t)
    BY <1>1, <1>2 DEF OpToRel
<1>4. PICK x \in S : t = b - x
    BY <1>3
<1>5. \A y \in S : x >= y
    <2> TAKE y \in S
    <2>1. ~(b - y < b - x)
        BY <1>3, <1>4
    <2>2. x \in Nat /\ y \in Nat
        OBVIOUS
    <2> QED BY <2>1, <2>2
<1> QED BY <1>5 DEF Max

\* An id is above the watermark when it is above every staged one.
LEMMA AboveWatermark ==
    ASSUME IInv, NEW i \in Nat \ {0}
    PROVE  i > Watermark <=> \A s \in staged : i > s.id
<1> DEFINE S == {0} \cup {r.id : r \in staged}
<1>1. S \in SUBSET Nat /\ \A y \in S : y <= MaxId
    <2>1. \A r \in staged : r.id \in Nat /\ r.id <= MaxId
        BY StagingAssumption DEF IInv, TypeOK, Rows
    <2> QED BY <2>1, StagingAssumption
<1>2. Max(S) \in S /\ \A y \in S : Max(S) >= y
    <2> HIDE DEF S
    <2>1. S # {}
        BY DEF S
    <2> QED BY <1>1, <2>1, MaxOfBounded, StagingAssumption
<1>3. PICK m \in S : m = Watermark /\ \A y \in S : m >= y
    BY <1>2 DEF Watermark
<1>4. \A y \in S : y \in Nat
    BY <1>1
<1>5. i > m <=> \A y \in S : i > y
    <2> HIDE DEF S
    <2> QED BY <1>3, <1>4
<1>6. (\A y \in S : i > y) <=> \A s \in staged : i > s.id
    <2>1. i > 0
        OBVIOUS
    <2>2. \A s \in staged : s.id \in S
        OBVIOUS
    <2>3. \A y \in S : y = 0 \/ \E s \in staged : y = s.id
        OBVIOUS
    <2> HIDE DEF S
    <2> QED BY <2>1, <2>2, <2>3
<1> QED BY <1>3, <1>5, <1>6

\* The rows and the messages have their types.
LEMMA Types ==
    ASSUME IInv
    PROVE  /\ lastId \in Nat /\ clock \in Nat
           /\ \A r \in Everywhere : r \in Rows /\ r.id \in Nat \ {0} /\ r.time \in Nat
           /\ \A m \in published : m.time \in Nat /\ m = [event |-> m.event, time |-> m.time]
BY StagingAssumption DEF IInv, TypeOK, Everywhere, Known, Rows, Times

LEMMA InitEstablishesIInv ==
    ASSUME Init
    PROVE  IInv
<1>1. /\ 0 \in Times /\ 0 \in 0..MaxId /\ 0 \in 0..MaxFaults
    BY StagingAssumption DEF Times
<1>2. running \in BOOLEAN /\ ~running
    BY DEF Init
<1>3. TypeOK
    BY <1>1, <1>2 DEF Init, TypeOK
<1>4. Everywhere = {} /\ Known = {}
    BY DEF Init, Everywhere, Known
<1> QED BY <1>2, <1>3, <1>4
        DEF Init, IInv, OneWriter, MessagesAreUnique, RowsArePublished, OneRowPerId,
            OneRowPerEvent, OpenRowsAreAbove, GoneIsExpired, StagedOrAbove, SelectedIsComplete

LEMMA StutterKeepsIInv ==
    ASSUME IInv, UNCHANGED vars
    PROVE  IInv'
BY DEF vars, writerVars, dbtVars, IInv, TypeOK, OneWriter, MessagesAreUnique,
       RowsArePublished, OneRowPerId, OneRowPerEvent, OpenRowsAreAbove, GoneIsExpired,
       StagedOrAbove, SelectedIsComplete, Everywhere, Known

\* Time passes, or an event is published.
LEMMA TopicKeepsIInv ==
    ASSUME IInv, Tick \/ \E e \in EventIds : Publish(e)
    PROVE  IInv'
<1>1. UNCHANGED <<lastId, open, rows, source, staged, delta, running, faults>>
    BY DEF Tick, Publish, writerVars, dbtVars
<1>2. Everywhere' = Everywhere /\ Known' = Known
    BY <1>1 DEF Everywhere, Known
<1>3. /\ OneWriter' /\ OneRowPerId' /\ OneRowPerEvent' /\ OpenRowsAreAbove'
      /\ StagedOrAbove' /\ SelectedIsComplete'
    BY <1>1, <1>2 DEF IInv, OneWriter, OneRowPerId, OneRowPerEvent, OpenRowsAreAbove,
                      StagedOrAbove, SelectedIsComplete
<1>4. CASE Tick
    <2>1. clock' = clock + 1 /\ clock' \in Times /\ published' = published
        BY <1>4, StagingAssumption DEF Tick, IInv, TypeOK, Times
    <2>2. TypeOK'
        BY <1>1, <2>1 DEF IInv, TypeOK
    <2>3. MessagesAreUnique' /\ RowsArePublished'
        BY <1>1, <1>2, <2>1 DEF IInv, MessagesAreUnique, RowsArePublished
    <2>4. \A r \in staged \cup delta : r.time \in Nat
        BY Types DEF Everywhere, Known
    <2>5. GoneIsExpired'
        BY <1>1, <2>1, <2>4, Types, StagingAssumption DEF IInv, GoneIsExpired
    <2> QED BY <1>3, <2>2, <2>3, <2>5 DEF IInv
<1>5. CASE \E e \in EventIds : Publish(e)
    <2>1. PICK e \in EventIds : Publish(e)
        BY <1>5
    <2>2. clock' = clock /\ published' = published \cup {[event |-> e, time |-> clock]}
        BY <2>1 DEF Publish
    <2>3. TypeOK'
        BY <1>1, <2>2 DEF IInv, TypeOK
    <2>4. MessagesAreUnique'
        BY <2>1, <2>2 DEF IInv, MessagesAreUnique, Publish, EventsIn
    <2>5. RowsArePublished' /\ GoneIsExpired'
        BY <1>1, <1>2, <2>2 DEF IInv, RowsArePublished, GoneIsExpired
    <2> QED BY <1>3, <2>3, <2>4, <2>5 DEF IInv
<1> QED BY <1>4, <1>5

----------------------------------------------------------------------------
(* A writer's transaction.                                                 *)

LEMMA BeginKeepsIInv ==
    ASSUME IInv, NEW w \in Writers, Begin(w)
    PROVE  IInv'
<1>1. /\ open = {} /\ open' = {w} /\ ~running
      /\ UNCHANGED <<clock, published, lastId, rows, source, staged, delta, running, faults>>
    BY DEF Begin, Locked, dbtVars
<1>2. Everywhere' = Everywhere /\ Known' = Known
    BY <1>1 DEF Everywhere, Known
<1>3. TypeOK'
    BY <1>1 DEF IInv, TypeOK
<1>4. OneWriter'
    BY <1>1 DEF IInv, OneWriter
<1>5. /\ MessagesAreUnique' /\ RowsArePublished' /\ OneRowPerId' /\ OneRowPerEvent'
      /\ OpenRowsAreAbove' /\ GoneIsExpired' /\ StagedOrAbove' /\ SelectedIsComplete'
    BY <1>1, <1>2 DEF IInv, MessagesAreUnique, RowsArePublished, OneRowPerId, OneRowPerEvent,
                      OpenRowsAreAbove, GoneIsExpired, StagedOrAbove, SelectedIsComplete
<1> QED BY <1>3, <1>4, <1>5 DEF IInv

\* An event whose row is gone from the table cannot be read again.
LEMMA InsertedEventIsNew ==
    ASSUME IInv, NEW w \in Writers, NEW m \in published, Insert(w, m),
           m.event \notin EventsIn(source \cup rows[w])
    PROVE  \A r \in Everywhere : r.event # m.event
<1> SUFFICES ASSUME NEW r \in Everywhere, r.event = m.event
             PROVE  FALSE
    OBVIOUS
<1>1. r \notin source /\ \A v \in Writers : r \notin rows[v]
    BY DEF Insert, EventsIn
<1>2. r \in staged \cup delta
    BY <1>1 DEF Everywhere, Known
<1>3. clock - r.time > SourceDays
    BY <1>1, <1>2 DEF IInv, GoneIsExpired
<1>4. r.time = m.time
    <2> DEFINE n == [event |-> r.event, time |-> r.time]
    <2>1. n \in published
        BY DEF IInv, RowsArePublished
    <2>2. n = m
        BY <2>1 DEF IInv, MessagesAreUnique
    <2> QED BY <2>2
<1>5. clock - m.time <= BrokerDays
    BY DEF Insert, Replayable
<1> QED BY <1>3, <1>4, <1>5, Types, StagingAssumption

LEMMA InsertKeepsIInv ==
    ASSUME IInv, NEW w \in Writers, NEW m \in published, Insert(w, m)
    PROVE  IInv'
<1>1. /\ w \in open /\ ~running
      /\ lastId' = lastId + 1 /\ lastId' \in 1..MaxId
      /\ UNCHANGED <<clock, published, open, source, staged, delta, running, faults>>
    BY Types, StagingAssumption DEF Insert, dbtVars, IInv, OneWriter
<1>2. Known' = Known
    BY <1>1 DEF Known
<1>3. MessagesAreUnique' /\ GoneIsExpired' /\ StagedOrAbove' /\ SelectedIsComplete'
    BY <1>1 DEF IInv, MessagesAreUnique, GoneIsExpired, StagedOrAbove, SelectedIsComplete
<1>4. CASE m.event \in EventsIn(source \cup rows[w])
    <2>1. rows' = rows
        BY <1>4 DEF Insert
    <2>2. Everywhere' = Everywhere
        BY <1>2, <2>1 DEF Everywhere
    <2>3. TypeOK' /\ OneWriter'
        BY <1>1, <2>1, StagingAssumption DEF IInv, TypeOK, OneWriter
    <2>4. RowsArePublished'
        <3>1. \A r \in Everywhere : r.id <= lastId /\ r.id \in Nat
            BY Types DEF IInv, RowsArePublished
        <3>2. \A r \in Everywhere : r.id <= lastId + 1
            BY <3>1, Types
        <3> QED BY <1>1, <2>2, <3>2 DEF IInv, RowsArePublished
    <2>5. OneRowPerId' /\ OneRowPerEvent' /\ OpenRowsAreAbove'
        BY <1>2, <2>1, <2>2 DEF IInv, OneRowPerId, OneRowPerEvent, OpenRowsAreAbove
    <2> QED BY <1>3, <2>3, <2>4, <2>5 DEF IInv
<1>5. CASE m.event \notin EventsIn(source \cup rows[w])
    <2>1. PICK x : x = [id |-> lastId', event |-> m.event, time |-> m.time]
        OBVIOUS
    <2>2. rows' = [rows EXCEPT ![w] = @ \cup {x}]
        BY <1>5, <2>1 DEF Insert
    <2>3. x \in Rows
        BY <1>1, <2>1 DEF IInv, TypeOK, Rows
    <2>4. \A v \in Writers : rows'[v] = IF v = w THEN rows[w] \cup {x} ELSE rows[v]
        BY <2>2 DEF IInv, TypeOK
    <2>5. Everywhere' = Everywhere \cup {x}
        BY <1>2, <2>4 DEF Everywhere
    <2>6. TypeOK'
        <3>1. rows' \in [Writers -> SUBSET Rows]
            BY <2>2, <2>3 DEF IInv, TypeOK
        <3> QED BY <1>1, <3>1, StagingAssumption DEF IInv, TypeOK
    <2>7. OneWriter'
        BY <1>1, <2>4 DEF IInv, OneWriter
    <2>8. \A r \in Everywhere : r.id < x.id /\ r.event # x.event
        <3> TAKE r \in Everywhere
        <3>1. r.id <= lastId /\ r.id \in Nat
            BY Types DEF IInv, RowsArePublished
        <3>2. x.id = lastId + 1 /\ x.event = m.event
            BY <1>1, <2>1
        <3>3. r.event # m.event
            BY <1>5, InsertedEventIsNew
        <3>4. r.id < lastId + 1
            BY <3>1, Types
        <3> QED BY <3>2, <3>3, <3>4
    <2>9. [event |-> x.event, time |-> x.time] \in published
        BY <2>1, Types
    <2>10. \A r \in Everywhere : r.id \in Nat
        BY Types
    <2>11. RowsArePublished'
        <3>1. x.id = lastId' /\ x.id \in Nat
            BY <1>1, <2>1, Types
        <3>2. \A r \in Everywhere : r.id <= lastId'
            BY <2>8, <2>10, <3>1
        <3>3. x.id <= lastId'
            BY <3>1
        <3> QED BY <1>1, <2>5, <2>9, <3>2, <3>3 DEF IInv, RowsArePublished
    <2>12. OneRowPerId'
        BY <2>5, <2>8, <2>10 DEF IInv, OneRowPerId
    <2>13. OneRowPerEvent'
        BY <2>5, <2>8 DEF IInv, OneRowPerEvent
    <2>14. OpenRowsAreAbove'
        <3>1. \A s \in Known : x.id > s.id
            BY <1>1, <2>1, <2>8, <2>10 DEF Everywhere
        <3> QED BY <1>2, <2>4, <3>1 DEF IInv, OpenRowsAreAbove
    <2> QED BY <1>3, <2>6, <2>7, <2>11, <2>12, <2>13, <2>14 DEF IInv
<1> QED BY <1>4, <1>5

\* The transaction commits or aborts.
LEMMA EndKeepsIInv ==
    ASSUME IInv, NEW w \in Writers, Commit(w) \/ Abort(w)
    PROVE  IInv'
<1>1. /\ open = {w} /\ open' = {} /\ ~running
      /\ rows' = [rows EXCEPT ![w] = {}]
      /\ source' = source \cup rows[w] \/ source' = source
      /\ faults' \in 0..MaxFaults
      /\ UNCHANGED <<clock, published, lastId, staged, delta, running>>
    BY StagingAssumption DEF Commit, Abort, End, Fault, dbtVars, IInv, OneWriter, TypeOK
<1>2. \A v \in Writers : rows'[v] = {}
    BY <1>1 DEF IInv, OneWriter, TypeOK
<1>3. source' \subseteq Everywhere /\ source \subseteq source'
    BY <1>1 DEF Everywhere, Known
<1>4. Everywhere' \subseteq Everywhere
    BY <1>1, <1>2, <1>3 DEF Everywhere, Known
<1>5. TypeOK'
    <2>1. rows' \in [Writers -> SUBSET Rows] /\ source' \subseteq Rows
        BY <1>1 DEF IInv, TypeOK
    <2> QED BY <1>1, <2>1 DEF IInv, TypeOK
<1>6. OneWriter' /\ OpenRowsAreAbove'
    BY <1>1, <1>2 DEF OneWriter, OpenRowsAreAbove
<1>7. /\ MessagesAreUnique' /\ RowsArePublished' /\ OneRowPerId' /\ OneRowPerEvent'
      /\ GoneIsExpired'
    BY <1>1, <1>3, <1>4 DEF IInv, MessagesAreUnique, RowsArePublished, OneRowPerId,
                            OneRowPerEvent, GoneIsExpired
<1>8. StagedOrAbove'
    <2>1. \A r \in rows[w] : \A s \in staged : r.id > s.id
        BY DEF IInv, OpenRowsAreAbove, Known
    <2> QED BY <1>1, <2>1 DEF IInv, StagedOrAbove
<1>9. SelectedIsComplete'
    BY <1>1 DEF SelectedIsComplete
<1> QED BY <1>5, <1>6, <1>7, <1>8, <1>9 DEF IInv

----------------------------------------------------------------------------
(* Retention and dbt.                                                      *)

LEMMA DeleteExpiredKeepsIInv ==
    ASSUME IInv, DeleteExpired
    PROVE  IInv'
<1>1. /\ source' \subseteq source
      /\ \A r \in source \ source' : clock - r.time > SourceDays
      /\ UNCHANGED <<clock, published, lastId, open, rows, staged, delta, running, faults>>
    BY DEF DeleteExpired, Expired, writerVars, dbtVars
<1>2. Known' \subseteq Known /\ Everywhere' \subseteq Everywhere
    BY <1>1 DEF Everywhere, Known
<1>3. TypeOK'
    BY <1>1 DEF IInv, TypeOK
<1>4. OneWriter' /\ MessagesAreUnique'
    BY <1>1 DEF IInv, OneWriter, MessagesAreUnique
<1>5. RowsArePublished' /\ OneRowPerId' /\ OneRowPerEvent' /\ OpenRowsAreAbove'
    BY <1>1, <1>2 DEF IInv, RowsArePublished, OneRowPerId, OneRowPerEvent, OpenRowsAreAbove
<1>6. GoneIsExpired'
    BY <1>1 DEF IInv, GoneIsExpired
<1>7. StagedOrAbove' /\ SelectedIsComplete'
    BY <1>1 DEF IInv, StagedOrAbove, SelectedIsComplete
<1> QED BY <1>3, <1>4, <1>5, <1>6, <1>7 DEF IInv

\* What a run selected is all that is not staged yet.
LEMMA SelectKeepsIInv ==
    ASSUME IInv, Select
    PROVE  IInv'
<1>1. /\ open = {} /\ running' /\ running' \in BOOLEAN
      /\ delta' = Above
      /\ UNCHANGED <<clock, published, lastId, open, rows, source, staged, faults>>
    BY DEF Select, Locked, writerVars
<1>2. delta' \subseteq source /\ delta = {}
    BY <1>1 DEF Above, Select, IInv, TypeOK
<1>3. Known' = Known /\ Everywhere' = Everywhere
    BY <1>1, <1>2 DEF Known, Everywhere
<1>4. TypeOK'
    BY <1>1, <1>2 DEF IInv, TypeOK
<1>5. OneWriter' /\ MessagesAreUnique' /\ StagedOrAbove'
    BY <1>1 DEF IInv, OneWriter, MessagesAreUnique, StagedOrAbove
<1>6. RowsArePublished' /\ OneRowPerId' /\ OneRowPerEvent' /\ OpenRowsAreAbove'
    BY <1>1, <1>3 DEF IInv, RowsArePublished, OneRowPerId, OneRowPerEvent, OpenRowsAreAbove
<1>7. GoneIsExpired'
    BY <1>1, <1>2 DEF IInv, GoneIsExpired
<1>8. SelectedIsComplete'
    <2> SUFFICES ASSUME NEW r \in source, r \notin staged
                 PROVE  r \in Above
        BY <1>1 DEF SelectedIsComplete
    <2>1. \A s \in staged : r.id > s.id
        BY DEF IInv, StagedOrAbove
    <2>2. r.id \in Nat \ {0}
        BY Types DEF Everywhere, Known
    <2> QED BY <2>1, <2>2, AboveWatermark DEF Above
<1> QED BY <1>4, <1>5, <1>6, <1>7, <1>8 DEF IInv

LEMMA LoadKeepsIInv ==
    ASSUME IInv, Load
    PROVE  IInv'
<1>1. /\ running /\ ~running' /\ running' \in BOOLEAN /\ delta' = {}
      /\ staged' = {r \in staged : \A d \in delta : d.id # r.id} \cup delta
      /\ UNCHANGED <<clock, published, lastId, open, rows, source, faults>>
    BY DEF Load, writerVars
<1>2. staged' = staged \cup delta
    <2>1. \A r \in staged, d \in delta : d.id = r.id => d = r
        BY DEF IInv, OneRowPerId, Everywhere, Known
    <2> QED BY <1>1, <2>1
<1>3. Known' = Known /\ Everywhere' = Everywhere
    BY <1>1, <1>2 DEF Known, Everywhere
<1>4. TypeOK'
    BY <1>1, <1>2 DEF IInv, TypeOK
<1>5. OneWriter' /\ MessagesAreUnique' /\ SelectedIsComplete'
    BY <1>1 DEF IInv, OneWriter, MessagesAreUnique, SelectedIsComplete
<1>6. RowsArePublished' /\ OneRowPerId' /\ OneRowPerEvent' /\ OpenRowsAreAbove'
    BY <1>1, <1>3 DEF IInv, RowsArePublished, OneRowPerId, OneRowPerEvent, OpenRowsAreAbove
<1>7. GoneIsExpired'
    BY <1>1, <1>2 DEF IInv, GoneIsExpired
<1>8. StagedOrAbove'
    BY <1>1, <1>2 DEF IInv, SelectedIsComplete, StagedOrAbove
<1> QED BY <1>4, <1>5, <1>6, <1>7, <1>8 DEF IInv

LEMMA RunFailsKeepsIInv ==
    ASSUME IInv, RunFails
    PROVE  IInv'
<1>1. /\ ~running' /\ running' \in BOOLEAN /\ delta' = {} /\ faults' \in 0..MaxFaults
      /\ UNCHANGED <<clock, published, lastId, open, rows, source, staged>>
    <2>1. ~running' /\ running' \in BOOLEAN /\ delta' = {}
        BY DEF RunFails
    <2>2. faults' \in 0..MaxFaults
        BY StagingAssumption DEF RunFails, Fault, IInv, TypeOK
    <2> QED BY <2>1, <2>2 DEF RunFails, writerVars
<1>2. Known' \subseteq Known /\ Everywhere' \subseteq Everywhere
    BY <1>1 DEF Known, Everywhere
<1>3. TypeOK'
    BY <1>1 DEF IInv, TypeOK
<1>4. OneWriter' /\ MessagesAreUnique' /\ StagedOrAbove' /\ SelectedIsComplete'
    BY <1>1 DEF IInv, OneWriter, MessagesAreUnique, StagedOrAbove, SelectedIsComplete
<1>5. RowsArePublished' /\ OneRowPerId' /\ OneRowPerEvent' /\ OpenRowsAreAbove'
    BY <1>1, <1>2 DEF IInv, RowsArePublished, OneRowPerId, OneRowPerEvent, OpenRowsAreAbove
<1>6. GoneIsExpired'
    BY <1>1 DEF IInv, GoneIsExpired
<1> QED BY <1>3, <1>4, <1>5, <1>6 DEF IInv

LEMMA FullRefreshKeepsIInv ==
    ASSUME IInv, FullRefresh
    PROVE  IInv'
<1>1. /\ ~running /\ delta = {} /\ staged' = source
      /\ UNCHANGED <<clock, published, lastId, open, rows, source, delta, running, faults>>
    BY DEF FullRefresh, writerVars, dbtVars, IInv, TypeOK
<1>2. Known' \subseteq Known /\ Everywhere' \subseteq Everywhere
    BY <1>1 DEF Known, Everywhere
<1>3. TypeOK'
    BY <1>1 DEF IInv, TypeOK
<1>4. OneWriter' /\ MessagesAreUnique' /\ StagedOrAbove' /\ SelectedIsComplete'
    BY <1>1 DEF IInv, OneWriter, MessagesAreUnique, StagedOrAbove, SelectedIsComplete
<1>5. RowsArePublished' /\ OneRowPerId' /\ OneRowPerEvent' /\ OpenRowsAreAbove'
    BY <1>1, <1>2 DEF IInv, RowsArePublished, OneRowPerId, OneRowPerEvent, OpenRowsAreAbove
<1>6. GoneIsExpired'
    BY <1>1 DEF IInv, GoneIsExpired
<1> QED BY <1>3, <1>4, <1>5, <1>6 DEF IInv

LEMMA NextKeepsIInv ==
    ASSUME IInv, [Next]_vars
    PROVE  IInv'
<1>1. CASE \E w \in Writers : Write(w)
    BY <1>1, BeginKeepsIInv, InsertKeepsIInv, EndKeepsIInv DEF Write
<1>2. CASE Dbt
    BY <1>2, SelectKeepsIInv, LoadKeepsIInv, RunFailsKeepsIInv, FullRefreshKeepsIInv DEF Dbt
<1> QED BY <1>1, <1>2, TopicKeepsIInv, DeleteExpiredKeepsIInv, StutterKeepsIInv DEF Next

----------------------------------------------------------------------------
(* The theorems.                                                           *)

\* The inductive invariant holds in every reachable state.
THEOREM InvariantHolds == Spec => []IInv
<1>1. Init => IInv
    BY InitEstablishesIInv
<1>2. IInv /\ [Next]_vars => IInv'
    BY NextKeepsIInv
<1> QED BY <1>1, <1>2, PTL DEF Spec

\* The rows of the table, of the writers and of dbt keep their types.
THEOREM TypeCorrect == Spec => []TypeOK
<1>1. IInv => TypeOK
    BY DEF IInv
<1> QED BY <1>1, InvariantHolds, PTL

\* The watermark of stg_realtime_vehicle_positions.sql passes over no row.
THEOREM NothingPassedOver == Spec => []NothingIsPassedOver
<1>1. ASSUME IInv
      PROVE  NothingIsPassedOver
    <2> SUFFICES ASSUME NEW r \in source, r \notin staged
                 PROVE  r.id > Watermark
        BY DEF NothingIsPassedOver
    <2>1. \A s \in staged : r.id > s.id
        BY <1>1 DEF IInv, StagedOrAbove
    <2>2. r.id \in Nat \ {0}
        BY <1>1, Types DEF Everywhere, Known
    <2> QED BY <1>1, <2>1, <2>2, AboveWatermark
<1>2. IInv => NothingIsPassedOver
    BY <1>1
<1> QED BY <1>2, InvariantHolds, PTL

\* Ids are committed in the order they are drawn: a new row is above every
\* staged one.
THEOREM NewRowsAbove == Spec => NewRowsAreAbove
<1> DEFINE Above2 == \A r \in source' \ source : r.id > Watermark
<1>1. ASSUME IInv, [Next]_vars
      PROVE  Above2
    <2> SUFFICES ASSUME NEW r \in source' \ source
                 PROVE  r.id > Watermark
        OBVIOUS
    <2>1. PICK w \in Writers : Commit(w)
        BY <1>1 DEF Next, Write, Dbt, Tick, DeleteExpired, Publish, Begin, Insert, Abort,
                    Select, Load, RunFails, FullRefresh, vars
    <2>2. r \in rows[w]
        BY <2>1 DEF Commit
    <2>3. \A s \in staged : r.id > s.id
        BY <1>1, <2>2 DEF IInv, OpenRowsAreAbove, Known
    <2>4. r.id \in Nat \ {0}
        BY <1>1, <2>2, Types DEF Everywhere
    <2> QED BY <1>1, <2>3, <2>4, AboveWatermark
<1>2. IInv /\ [Next]_vars => [Above2]_vars
    BY <1>1
<1> QED BY <1>2, InvariantHolds, PTL DEF Spec, NewRowsAreAbove

\* No event is staged twice, although events are replayed from the topic after
\* their rows were deleted: because the table outlives the topic.
THEOREM StagedEventsUnique == Spec => []StagedEventsAreUnique
<1>1. IInv => StagedEventsAreUnique
    BY DEF IInv, OneRowPerEvent, StagedEventsAreUnique, Everywhere, Known
<1> QED BY <1>1, InvariantHolds, PTL

----------------------------------------------------------------------------
(* The locks.  IncrementalStaging takes from TableLocks that a writer has  *)
(* the table to itself.  The rest of this module proves it, for any number *)
(* of consumers, retention workers and readers.                            *)

(***************************************************************************)
(* The inductive invariant of the locks.                                   *)
(***************************************************************************)

\* Locks that do not conflict are all that processes hold at a time.
HeldLocksAgree ==
    \A p, q \in Processes : p # q =>
        \A lock \in held[p], other \in held[q] : ~Conflict(lock, other)

\* A transaction holds no lock of a statement it has not executed.
HeldIsExecuted ==
    \A p \in Processes : kind[p] # "none" =>
        /\ next[p] - 1 <= Len(Statements[kind[p]])
        /\ held[p] \subseteq {Statements[kind[p]][i] : i \in 1..(next[p] - 1)}

\* From its first statement on a batch has the table of positions.
BatchHasPositions ==
    \A p \in Processes : kind[p] = "batch" /\ next[p] > 1 =>
        [table |-> "positions", mode |-> "accessExclusive"] \in held[p]

\* Each process is in a transaction of its own kind, and one that waits for a
\* lock has a statement to execute.
WaitersRun ==
    /\ \A p \in Processes : kind[p] \in KindsOf(p) \cup {"none"}
    /\ \A p \in ToSet(queue) : Running(p)

LocksInv ==
    /\ LocksTypeOK
    /\ HeldLocksAgree
    /\ HeldIsExecuted
    /\ BatchHasPositions
    /\ WaitersRun

Lock(t, m) == [table |-> t, mode |-> m]

----------------------------------------------------------------------------
(* Lemmas about sequences and sets.                                        *)

\* The sequences of statements that end with those of the metric.
LEMMA OneAndTwo ==
    ASSUME NEW a, NEW b, NEW c
    PROVE  <<a>> \o <<b, c>> = <<a, b, c>>
<1> DEFINE S == {a, b, c}
<1>1. <<a>> \in Seq(S) /\ <<b, c>> \in Seq(S) /\ Len(<<a>>) = 1 /\ Len(<<b, c>>) = 2
    OBVIOUS
<1>2. (<<a>> \o <<b, c>>) \in Seq(S) /\ Len(<<a>> \o <<b, c>>) = 3
    BY <1>1, ConcatProperties
<1>3. \A i \in 1..3 : (<<a>> \o <<b, c>>)[i] = IF i <= 1 THEN <<a>>[i] ELSE <<b, c>>[i - 1]
    BY <1>1, ConcatProperties
<1>4. <<a, b, c>> \in Seq(S) /\ Len(<<a, b, c>>) = 3
    OBVIOUS
<1>5. \A i \in 1..3 : (<<a>> \o <<b, c>>)[i] = <<a, b, c>>[i]
    BY <1>3
<1> QED BY <1>2, <1>4, <1>5, SeqEqual

LEMMA TwoAndTwo ==
    ASSUME NEW a, NEW b, NEW c, NEW d
    PROVE  <<a, b>> \o <<c, d>> = <<a, b, c, d>>
<1> DEFINE S == {a, b, c, d}
<1>1. <<a, b>> \in Seq(S) /\ <<c, d>> \in Seq(S) /\ Len(<<a, b>>) = 2 /\ Len(<<c, d>>) = 2
    OBVIOUS
<1>2. (<<a, b>> \o <<c, d>>) \in Seq(S) /\ Len(<<a, b>> \o <<c, d>>) = 4
    BY <1>1, ConcatProperties
<1>3. \A i \in 1..4 : (<<a, b>> \o <<c, d>>)[i] = IF i <= 2 THEN <<a, b>>[i] ELSE <<c, d>>[i - 2]
    BY <1>1, ConcatProperties
<1>4. <<a, b, c, d>> \in Seq(S) /\ Len(<<a, b, c, d>>) = 4
    OBVIOUS
<1>5. \A i \in 1..4 : (<<a, b>> \o <<c, d>>)[i] = <<a, b, c, d>>[i]
    BY <1>3
<1> QED BY <1>2, <1>4, <1>5, SeqEqual

\* InsertAt and RemoveAt of SequencesExt.
LEMMA InsertAtProperties ==
    ASSUME NEW S, NEW s \in Seq(S), NEW i \in 1..(Len(s) + 1), NEW e \in S
    PROVE  /\ InsertAt(s, i, e) \in Seq(S)
           /\ Len(InsertAt(s, i, e)) = Len(s) + 1
           /\ \A j \in 1..(i - 1) : InsertAt(s, i, e)[j] = s[j]
           /\ InsertAt(s, i, e)[i] = e
           /\ \A j \in i..Len(s) : InsertAt(s, i, e)[j + 1] = s[j]
<1> DEFINE a == SubSeq(s, 1, i - 1)
           b == SubSeq(s, i, Len(s))
           m == <<e>>
<1>1. Len(s) \in Nat
    BY LenProperties
<1>2. a \in Seq(S) /\ Len(a) = i - 1 /\ \A j \in 1..(i - 1) : a[j] = s[j]
    BY <1>1, SubSeqProperties, LenProperties, ElementOfSeq
<1>3. b \in Seq(S) /\ Len(b) = Len(s) - i + 1 /\ \A j \in 1..(Len(s) - i + 1) : b[j] = s[i + j - 1]
    BY <1>1, SubSeqProperties, LenProperties, ElementOfSeq
<1>4. m \in Seq(S) /\ Len(m) = 1 /\ m[1] = e
    OBVIOUS
<1> HIDE DEF a, b, m
<1> DEFINE c == a \o m
           t == c \o b
<1>5. /\ c \in Seq(S) /\ Len(c) = Len(a) + Len(m)
      /\ \A j \in 1..(Len(a) + Len(m)) : c[j] = IF j <= Len(a) THEN a[j] ELSE m[j - Len(a)]
    BY <1>2, <1>4, ConcatProperties
<1>6. Len(c) = i /\ \A j \in 1..i : c[j] = IF j < i THEN s[j] ELSE e
    <2> HIDE DEF c
    <2> QED BY <1>1, <1>2, <1>4, <1>5
<1> HIDE DEF c
<1>7. /\ t \in Seq(S) /\ Len(t) = Len(c) + Len(b)
      /\ \A j \in 1..(Len(c) + Len(b)) : t[j] = IF j <= Len(c) THEN c[j] ELSE b[j - Len(c)]
    <2>1. c \in Seq(S) /\ b \in Seq(S)
        BY <1>3, <1>5
    <2> QED BY <2>1, ConcatProperties
<1> HIDE DEF t
<1>8. Len(t) = Len(s) + 1
    BY <1>1, <1>3, <1>6, <1>7
<1>9. ASSUME NEW j \in 1..(i - 1) PROVE t[j] = s[j]
    <2>1. t[j] = c[j]
        BY <1>1, <1>3, <1>6, <1>7
    <2> QED BY <1>6, <2>1
<1>10. t[i] = e
    <2>1. t[i] = c[i]
        BY <1>1, <1>3, <1>6, <1>7
    <2> QED BY <1>6, <2>1
<1>11. ASSUME NEW j \in i..Len(s) PROVE t[j + 1] = s[j]
    <2>1. t[j + 1] = b[j + 1 - i] /\ j + 1 - i \in 1..(Len(s) - i + 1)
        BY <1>1, <1>3, <1>6, <1>7
    <2>2. b[j + 1 - i] = s[i + (j + 1 - i) - 1]
        BY <1>3, <2>1
    <2> QED BY <2>1, <2>2
<1> QED BY <1>7, <1>8, <1>9, <1>10, <1>11 DEF InsertAt, t, a, b, c, m

LEMMA RemoveAtProperties ==
    ASSUME NEW S, NEW s \in Seq(S), NEW i \in 1..Len(s)
    PROVE  /\ RemoveAt(s, i) \in Seq(S)
           /\ Len(RemoveAt(s, i)) = Len(s) - 1
           /\ \A j \in 1..(Len(s) - 1) : RemoveAt(s, i)[j] = IF j < i THEN s[j] ELSE s[j + 1]
<1> DEFINE a == SubSeq(s, 1, i - 1)
           b == SubSeq(s, i + 1, Len(s))
<1>1. Len(s) \in Nat
    BY LenProperties
<1>2. a \in Seq(S) /\ Len(a) = i - 1 /\ \A j \in 1..(i - 1) : a[j] = s[j]
    BY <1>1, SubSeqProperties, LenProperties, ElementOfSeq
<1>3. b \in Seq(S) /\ Len(b) = Len(s) - i /\ \A j \in 1..(Len(s) - i) : b[j] = s[i + j]
    BY <1>1, SubSeqProperties, LenProperties, ElementOfSeq
<1> HIDE DEF a, b
<1> DEFINE t == a \o b
<1>4. /\ t \in Seq(S) /\ Len(t) = Len(a) + Len(b)
      /\ \A j \in 1..(Len(a) + Len(b)) : t[j] = IF j <= Len(a) THEN a[j] ELSE b[j - Len(a)]
    BY <1>2, <1>3, ConcatProperties
<1>5. /\ Len(t) = Len(s) - 1
      /\ \A j \in 1..(Len(s) - 1) : t[j] = IF j < i THEN s[j] ELSE s[j + 1]
    <2> HIDE DEF t
    <2>1. Len(a) = i - 1 /\ Len(b) = Len(s) - i /\ Len(s) \in Nat /\ i \in 1..Len(s)
        BY <1>1, <1>2, <1>3
    <2>2. Len(t) = Len(s) - 1
        BY <1>4, <2>1
    <2>3. ASSUME NEW j \in 1..(Len(s) - 1), j < i PROVE t[j] = s[j]
        <3>1. t[j] = a[j] /\ j \in 1..(i - 1)
            BY <1>4, <2>1, <2>3
        <3> QED BY <1>2, <3>1
    <2>4. ASSUME NEW j \in 1..(Len(s) - 1), j >= i PROVE t[j] = s[j + 1]
        <3>1. t[j] = b[j - (i - 1)] /\ j - (i - 1) \in 1..(Len(s) - i)
            BY <1>4, <2>1, <2>4
        <3>2. b[j - (i - 1)] = s[i + (j - (i - 1))]
            BY <1>3, <3>1
        <3> QED BY <2>1, <2>4, <3>1, <3>2
    <2> QED BY <2>1, <2>2, <2>3, <2>4
<1> QED BY <1>4, <1>5 DEF RemoveAt, a, b

\* A waiter more.
LEMMA InsertOfNew ==
    ASSUME NEW S, NEW s \in Seq(S), IsInjective(s), NEW i \in 1..(Len(s) + 1),
           NEW e \in S, e \notin ToSet(s)
    PROVE  /\ InsertAt(s, i, e) \in Seq(S)
           /\ IsInjective(InsertAt(s, i, e))
           /\ ToSet(InsertAt(s, i, e)) = ToSet(s) \cup {e}
<1> DEFINE t == InsertAt(s, i, e)
<1>1. /\ t \in Seq(S) /\ Len(t) = Len(s) + 1 /\ Len(s) \in Nat
      /\ \A j \in 1..(i - 1) : t[j] = s[j]
      /\ t[i] = e
      /\ \A j \in i..Len(s) : t[j + 1] = s[j]
    BY InsertAtProperties, LenProperties
<1>2. DOMAIN t = 1..(Len(s) + 1) /\ DOMAIN s = 1..Len(s)
    BY <1>1, LenProperties
<1> HIDE DEF t
<1>3. \A j, k \in 1..Len(s) : s[j] = s[k] => j = k
    BY <1>2 DEF IsInjective
<1>4. \A j \in 1..Len(s) : s[j] # e
    BY <1>2 DEF ToSet
<1> DEFINE from(n) == IF n < i THEN n ELSE n - 1
<1>5. ASSUME NEW n \in 1..(Len(s) + 1), n # i
         PROVE  from(n) \in 1..Len(s) /\ t[n] = s[from(n)]
    <2>1. CASE n < i
        BY <1>1, <2>1
    <2>2. CASE n > i
        <3>1. n - 1 \in i..Len(s) /\ n = (n - 1) + 1
            BY <1>1, <2>2
        <3>2. t[n] = s[n - 1]
            BY <1>1, <3>1
        <3> QED BY <2>2, <3>1, <3>2
    <2> QED BY <1>5, <2>1, <2>2
<1>6. IsInjective(t)
    <2> SUFFICES ASSUME NEW j \in 1..(Len(s) + 1), NEW k \in 1..(Len(s) + 1), t[j] = t[k]
                 PROVE  j = k
        BY <1>2 DEF IsInjective
    <2>2. CASE j = i \/ k = i
        <3>1. t[i] = e /\ \A n \in 1..(Len(s) + 1) : n # i => t[n] # e
            <4>1. t[i] = e
                BY <1>1
            <4>2. ASSUME NEW n \in 1..(Len(s) + 1), n # i PROVE t[n] # e
                BY <1>4, <1>5, <4>2
            <4> QED BY <4>1, <4>2
        <3> QED BY <2>2, <3>1
    <2>3. CASE j # i /\ k # i
        <3>1. from(j) = from(k)
            BY <1>3, <1>5, <2>3
        <3> QED BY <1>1, <2>3, <3>1
    <2> QED BY <2>2, <2>3
<1>7. ToSet(t) \subseteq ToSet(s) \cup {e}
    <2> SUFFICES ASSUME NEW n \in 1..(Len(s) + 1), n # i PROVE t[n] \in ToSet(s)
        BY <1>1, <1>2 DEF ToSet
    <2>1. from(n) \in 1..Len(s) /\ t[n] = s[from(n)]
        BY <1>5
    <2> QED BY <1>2, <2>1 DEF ToSet
<1>8. ToSet(s) \cup {e} \subseteq ToSet(t)
    <2>1. e \in ToSet(t)
        BY <1>1, <1>2 DEF ToSet
    <2>2. ASSUME NEW j \in 1..Len(s) PROVE s[j] \in ToSet(t)
        <3>1. CASE j < i
            BY <1>1, <1>2, <3>1 DEF ToSet
        <3>2. CASE j >= i
            <4>1. t[j + 1] = s[j] /\ j + 1 \in 1..(Len(s) + 1)
                BY <1>1, <3>2
            <4> QED BY <1>2, <4>1 DEF ToSet
        <3> QED BY <1>1, <3>1, <3>2
    <2> QED BY <1>2, <2>1, <2>2 DEF ToSet
<1> QED BY <1>1, <1>6, <1>7, <1>8 DEF t

\* A waiter less.
LEMMA RemoveOfOne ==
    ASSUME NEW S, NEW s \in Seq(S), IsInjective(s), NEW i \in 1..Len(s)
    PROVE  /\ RemoveAt(s, i) \in Seq(S)
           /\ IsInjective(RemoveAt(s, i))
           /\ ToSet(RemoveAt(s, i)) = ToSet(s) \ {s[i]}
<1> DEFINE t == RemoveAt(s, i)
<1>1. /\ t \in Seq(S) /\ Len(t) = Len(s) - 1 /\ Len(s) \in Nat
      /\ \A j \in 1..(Len(s) - 1) : t[j] = IF j < i THEN s[j] ELSE s[j + 1]
    BY RemoveAtProperties, LenProperties
<1>2. DOMAIN t = 1..(Len(s) - 1) /\ DOMAIN s = 1..Len(s)
    BY <1>1, LenProperties
<1> HIDE DEF t
<1>3. \A j, k \in 1..Len(s) : s[j] = s[k] => j = k
    BY <1>2 DEF IsInjective
<1> DEFINE from(n) == IF n < i THEN n ELSE n + 1
<1>4. \A n \in 1..(Len(s) - 1) : from(n) \in 1..Len(s) /\ from(n) # i /\ t[n] = s[from(n)]
    BY <1>1
<1>5. IsInjective(t)
    <2> SUFFICES ASSUME NEW j \in 1..(Len(s) - 1), NEW k \in 1..(Len(s) - 1), t[j] = t[k]
                 PROVE  j = k
        BY <1>2 DEF IsInjective
    <2>1. from(j) = from(k)
        BY <1>3, <1>4
    <2> QED BY <2>1
<1>6. ToSet(t) \subseteq ToSet(s) \ {s[i]}
    <2> SUFFICES ASSUME NEW n \in 1..(Len(s) - 1) PROVE t[n] \in ToSet(s) \ {s[i]}
        BY <1>2 DEF ToSet
    <2>1. from(n) \in 1..Len(s) /\ from(n) # i /\ t[n] = s[from(n)]
        BY <1>4
    <2>2. s[from(n)] # s[i]
        BY <1>3, <2>1
    <2> QED BY <1>2, <2>1, <2>2 DEF ToSet
<1>7. ToSet(s) \ {s[i]} \subseteq ToSet(t)
    <2> SUFFICES ASSUME NEW j \in 1..Len(s), j # i PROVE s[j] \in ToSet(t)
        BY <1>2 DEF ToSet
    <2>1. CASE j < i
        <3>1. t[j] = s[j] /\ j \in 1..(Len(s) - 1)
            BY <1>1, <2>1
        <3> QED BY <1>2, <3>1 DEF ToSet
    <2>2. CASE j > i
        <3>1. t[j - 1] = s[j] /\ j - 1 \in 1..(Len(s) - 1)
            BY <1>1, <2>2
        <3> QED BY <1>2, <3>1 DEF ToSet
    <2> QED BY <1>1, <2>1, <2>2
<1> QED BY <1>1, <1>5, <1>6, <1>7 DEF t

\* A non-empty set of naturals has a minimum, and Min returns it.
LEMMA MinOfNaturals ==
    ASSUME NEW S \in SUBSET Nat, S # {}
    PROVE  Min(S) \in S
<1>1. \E t \in S : \A u \in S : ~(<<u, t>> \in OpToRel(<, Nat))
    BY WFMin, NatLessThanWellFounded, Zenon
<1>2. PICK t \in S : \A u \in S : ~(u < t)
    BY <1>1 DEF OpToRel
<1>3. \A u \in S : t <= u
    BY <1>2
<1> QED BY <1>3 DEF Min

----------------------------------------------------------------------------
(* The statements.                                                          *)

\* The locks of each kind of transaction, in order.
LEMMA StatementsOfBatch ==
    /\ Len(Statements["batch"]) = 3
    /\ Statements["batch"][1] = Lock("positions", "accessExclusive")
    /\ Statements["batch"][2] = Lock("metrics", "share")
    /\ Statements["batch"][3] = Lock("metrics", "rowExclusive")
<1>1. Batch = <<Lock("positions", "accessExclusive"), Lock("metrics", "share"),
                Lock("metrics", "rowExclusive")>>
    BY OneAndTwo DEF Batch, Metric, Lock
<1>2. Statements["batch"] = Batch
    BY DEF Statements
<1> QED BY <1>1, <1>2

LEMMA StatementsOfDeadLetter ==
    /\ Len(Statements["deadLetter"]) = 4
    /\ Statements["deadLetter"][1] = Lock("deadLetters", "share")
    /\ Statements["deadLetter"][2] = Lock("deadLetters", "rowExclusive")
    /\ Statements["deadLetter"][3] = Lock("metrics", "share")
    /\ Statements["deadLetter"][4] = Lock("metrics", "rowExclusive")
<1>1. DeadLetter = <<Lock("deadLetters", "share"), Lock("deadLetters", "rowExclusive"),
                     Lock("metrics", "share"), Lock("metrics", "rowExclusive")>>
    BY TwoAndTwo DEF DeadLetter, Metric, Lock
<1>2. Statements["deadLetter"] = DeadLetter
    BY DEF Statements
<1> QED BY <1>1, <1>2

LEMMA StatementsOfRetention ==
    /\ Len(Statements["retention"]) = 5
    /\ Statements["retention"][1] = Lock("positions", "rowShare")
    /\ Statements["retention"][2] = Lock("positions", "rowExclusive")
    /\ Statements["retention"][3] = Lock("deadLetters", "rowShare")
    /\ Statements["retention"][4] = Lock("deadLetters", "rowExclusive")
    /\ Statements["retention"][5] = Lock("metrics", "rowExclusive")
<1>1. Statements["retention"] = Retention
    BY DEF Statements
<1> QED BY <1>1 DEF Retention, Lock

LEMMA StatementsOfReaders ==
    /\ Len(Statements["dbt"]) = 1
    /\ Statements["dbt"][1] = Lock("positions", "accessShare")
    /\ Len(Statements["dump"]) = 3
    /\ Statements["dump"][1] = Lock("positions", "accessShare")
    /\ Statements["dump"][2] = Lock("deadLetters", "accessShare")
    /\ Statements["dump"][3] = Lock("metrics", "accessShare")
<1>1. Statements["dbt"] = Query /\ Statements["dump"] = Dump
    BY DEF Statements
<1> QED BY <1>1 DEF Query, Dump, Lock

\* The locks some statement takes.
Taken ==
    {Lock("positions", "accessExclusive"), Lock("positions", "rowShare"),
     Lock("positions", "rowExclusive"), Lock("positions", "accessShare"),
     Lock("deadLetters", "share"), Lock("deadLetters", "rowExclusive"),
     Lock("deadLetters", "rowShare"), Lock("deadLetters", "accessShare"),
     Lock("metrics", "share"), Lock("metrics", "rowExclusive"),
     Lock("metrics", "accessShare")}

\* A statement takes one of these, and a transaction has five at most.
LEMMA StatementsTake ==
    ASSUME NEW k \in Kinds
    PROVE  /\ Len(Statements[k]) \in 1..5
           /\ \A i \in 1..Len(Statements[k]) : Statements[k][i] \in Taken
<1>1. CASE k = "batch"
    BY <1>1, StatementsOfBatch DEF Taken
<1>2. CASE k = "deadLetter"
    BY <1>2, StatementsOfDeadLetter DEF Taken
<1>3. CASE k = "retention"
    BY <1>3, StatementsOfRetention DEF Taken
<1>4. CASE k \in {"dbt", "dump"}
    BY <1>4, StatementsOfReaders DEF Taken
<1> QED BY <1>1, <1>2, <1>3, <1>4 DEF Kinds

LEMMA TakenAreLocks == Taken \subseteq Locks
BY DEF Taken, Lock, Locks, Tables, Modes

\* A process that runs has a statement, which wants one of these locks.
LEMMA RunningWants ==
    ASSUME LocksTypeOK, NEW p \in Processes, Running(p)
    PROVE  /\ kind[p] \in Kinds
           /\ next[p] \in 1..5 /\ next[p] \in 1..Len(Statements[kind[p]])
           /\ Wanted(p) = Statements[kind[p]][next[p]]
           /\ Wanted(p) \in Taken
<1>1. kind[p] \in Kinds /\ next[p] \in 1..6
    BY DEF LocksTypeOK, Running
<1>2. Len(Statements[kind[p]]) \in 1..5
    BY <1>1, StatementsTake
<1>3. next[p] \in 1..Len(Statements[kind[p]])
    BY <1>1, <1>2 DEF Running, Done
<1> QED BY <1>1, <1>2, <1>3, StatementsTake DEF Wanted

\* PostgreSQL's conflict table is symmetric.
LEMMA ConflictIsSymmetric ==
    ASSUME NEW l \in Locks, NEW m \in Locks, Conflict(l, m)
    PROVE  Conflict(m, l)
<1>1. /\ l.table = m.table /\ l.mode \in ConflictsWith[m.mode]
      /\ l.mode \in Modes /\ m.mode \in Modes
    BY DEF Conflict, Locks
<1>2. m.mode \in ConflictsWith[l.mode]
    BY <1>1 DEF ConflictsWith, Modes
<1> QED BY <1>1, <1>2 DEF Conflict

\* Where a process is or would be in the queue.
LEMMA PlaceOfWaiting ==
    ASSUME LocksTypeOK, NEW p \in Processes, Waiting(p)
    PROVE  Place(p) \in 1..Len(queue) /\ queue[Place(p)] = p
<1>1. \E i \in 1..Len(queue) : queue[i] = p
    BY LenProperties DEF Waiting, ToSet, LocksTypeOK
<1> QED BY <1>1 DEF Place

LEMMA PlaceOfNew ==
    ASSUME LocksTypeOK, NEW p \in Processes, ~Waiting(p)
    PROVE  Place(p) \in 1..(Len(queue) + 1)
<1> DEFINE S == {i \in 1..Len(queue) : Blocks(p, queue[i])} \cup {Len(queue) + 1}
<1>1. Len(queue) \in Nat
    BY LenProperties DEF LocksTypeOK
<1>2. S \subseteq 1..(Len(queue) + 1) /\ S \in SUBSET Nat /\ S # {}
    BY <1>1
<1>3. Min(S) \in S
    <2> HIDE DEF S
    <2> QED BY <1>2, MinOfNaturals
<1> QED BY <1>2, <1>3 DEF Place

\* End and Execute take the process out of the queue.
LEMMA QueueWithoutOne ==
    ASSUME LocksTypeOK, NEW p \in Processes
    PROVE  /\ QueueWithout(p) \in Seq(Processes)
           /\ IsInjective(QueueWithout(p))
           /\ ToSet(QueueWithout(p)) = ToSet(queue) \ {p}
<1>1. CASE Waiting(p)
    <2>1. queue \in Seq(Processes) /\ IsInjective(queue)
        BY DEF LocksTypeOK
    <2>2. Place(p) \in 1..Len(queue) /\ queue[Place(p)] = p
        BY <1>1, PlaceOfWaiting
    <2> DEFINE i == Place(p)
    <2> HIDE DEF i
    <2>3. i \in 1..Len(queue) /\ queue[i] = p /\ QueueWithout(p) = RemoveAt(queue, i)
        BY <1>1, <2>2 DEF QueueWithout, i
    <2> QED BY <2>1, <2>3, RemoveOfOne
<1>2. CASE ~Waiting(p)
    BY <1>2 DEF QueueWithout, Waiting, LocksTypeOK
<1> QED BY <1>1, <1>2

\* Enqueue puts it there.
LEMMA QueueWithOneMore ==
    ASSUME LocksTypeOK, NEW p \in Processes, ~Waiting(p)
    PROVE  /\ InsertAt(queue, Place(p), p) \in Seq(Processes)
           /\ IsInjective(InsertAt(queue, Place(p), p))
           /\ ToSet(InsertAt(queue, Place(p), p)) = ToSet(queue) \cup {p}
<1>1. queue \in Seq(Processes) /\ IsInjective(queue) /\ p \notin ToSet(queue)
    BY DEF LocksTypeOK, Waiting
<1> DEFINE i == Place(p)
<1> HIDE DEF i
<1>2. i \in 1..(Len(queue) + 1)
    BY PlaceOfNew DEF i
<1>3. /\ InsertAt(queue, i, p) \in Seq(Processes)
      /\ IsInjective(InsertAt(queue, i, p))
      /\ ToSet(InsertAt(queue, i, p)) = ToSet(queue) \cup {p}
    BY <1>1, <1>2, InsertOfNew
<1> QED BY <1>3 DEF i

----------------------------------------------------------------------------
(* The steps keep the invariant.                                           *)

LEMMA InitEstablishesLocksInv == LocksInit => LocksInv
<1> SUFFICES ASSUME LocksInit PROVE LocksInv
    OBVIOUS
<1>1. ToSet(queue) = {} /\ queue \in Seq(Processes) /\ IsInjective(queue)
    BY DEF LocksInit, ToSet, IsInjective
<1>2. LocksTypeOK
    BY <1>1 DEF LocksInit, LocksTypeOK
<1> QED
    BY <1>1, <1>2 DEF LocksInit, LocksInv, HeldLocksAgree, HeldIsExecuted, BatchHasPositions,
                      WaitersRun

LEMMA StutterKeepsLocksInv == ASSUME LocksInv, UNCHANGED lockVars PROVE LocksInv'
BY DEF LocksInv, lockVars, LocksTypeOK, HeldLocksAgree, HeldIsExecuted, BatchHasPositions, WaitersRun,
       Running, Done

\* A process that begins holds nothing and waits for nothing.
LEMMA BeginKeepsLocksInv ==
    ASSUME LocksInv, NEW p \in Processes, NEW k \in Kinds, BeginTransaction(p, k)
    PROVE  LocksInv'
<1>1. /\ kind[p] = "none" /\ held[p] = {} /\ next[p] = 1
      /\ kind' = [kind EXCEPT ![p] = k] /\ k \in KindsOf(p) /\ k # "none"
      /\ UNCHANGED <<next, held, queue>>
    BY DEF LocksInv, LocksTypeOK, BeginTransaction, Kinds
<1>2. p \notin ToSet(queue)
    BY <1>1 DEF LocksInv, LocksTypeOK
<1>3. \A q \in Processes : q # p => kind'[q] = kind[q]
    BY <1>1 DEF LocksInv, LocksTypeOK
<1>4. kind'[p] = k
    BY <1>1 DEF LocksInv, LocksTypeOK
<1>5. LocksTypeOK'
    BY <1>1, <1>2, <1>3, <1>4 DEF LocksInv, LocksTypeOK
<1>6. HeldLocksAgree'
    BY <1>1 DEF LocksInv, HeldLocksAgree, Conflict
<1>7. HeldIsExecuted'
    BY <1>1, <1>3, <1>4, StatementsTake DEF LocksInv, HeldIsExecuted
<1>8. BatchHasPositions'
    BY <1>1, <1>3, <1>4 DEF LocksInv, BatchHasPositions
<1>9. WaitersRun'
    <2>1. \A q \in ToSet(queue) : q \in Processes /\ q # p
        BY <1>2, ElementOfSeq, LenProperties DEF LocksInv, LocksTypeOK, ToSet
    <2> QED BY <1>1, <1>3, <1>4, <2>1 DEF LocksInv, WaitersRun, Running, Done, KindsOf
<1> QED BY <1>5, <1>6, <1>7, <1>8, <1>9 DEF LocksInv

LEMMA EnqueueKeepsLocksInv ==
    ASSUME LocksInv, NEW p \in Processes, Enqueue(p)
    PROVE  LocksInv'
<1>1. LocksTypeOK /\ Running(p) /\ ~Waiting(p) /\ queue' = InsertAt(queue, Place(p), p)
        /\ UNCHANGED <<kind, next, held>>
    BY DEF LocksInv, Enqueue
<1>2. /\ queue' \in Seq(Processes) /\ IsInjective(queue')
      /\ ToSet(queue') = ToSet(queue) \cup {p}
    BY <1>1, QueueWithOneMore
<1>3. LocksTypeOK'
    BY <1>1, <1>2 DEF LocksTypeOK, Running
<1>4. WaitersRun'
    BY <1>1, <1>2 DEF LocksInv, WaitersRun, Running, Done
<1> QED BY <1>1, <1>3, <1>4 DEF LocksInv, HeldLocksAgree, HeldIsExecuted, BatchHasPositions

\* A granted lock conflicts with none that others hold, which is what MustWait
\* looks for.
LEMMA GrantedAgrees ==
    ASSUME LocksInv, NEW p \in Processes, NEW q \in Processes, p # q, Execute(p),
           NEW lock \in held[q]
    PROVE  ~Conflict(lock, Wanted(p)) /\ ~Conflict(Wanted(p), lock)
<1>1. ~Conflict(lock, Wanted(p))
    BY DEF Execute, MustWait, Blocks
<1>2. Wanted(p) \in Locks /\ lock \in Locks
    BY RunningWants, TakenAreLocks DEF LocksInv, Execute, LocksTypeOK
<1> QED BY <1>1, <1>2, ConflictIsSymmetric

LEMMA ExecuteKeepsLocksInv ==
    ASSUME LocksInv, NEW p \in Processes, Execute(p)
    PROVE  LocksInv'
<1>1. /\ LocksTypeOK /\ Running(p) /\ UNCHANGED kind
      /\ queue' = QueueWithout(p)
      /\ held' = [held EXCEPT ![p] = @ \cup {Wanted(p)}]
      /\ next' = [next EXCEPT ![p] = @ + 1]
    BY DEF LocksInv, Execute
<1>2. /\ queue' \in Seq(Processes) /\ IsInjective(queue')
      /\ ToSet(queue') = ToSet(queue) \ {p}
    BY <1>1, QueueWithoutOne
<1>3. /\ kind[p] \in Kinds /\ next[p] \in 1..5
      /\ Wanted(p) = Statements[kind[p]][next[p]] /\ Wanted(p) \in Locks
    BY <1>1, RunningWants, TakenAreLocks
<1>4. /\ held'[p] = held[p] \cup {Wanted(p)} /\ next'[p] = next[p] + 1
      /\ \A q \in Processes : q # p => held'[q] = held[q] /\ next'[q] = next[q]
    BY <1>1 DEF LocksTypeOK
<1>5. LocksTypeOK'
    <2>1. next' \in [Processes -> 1..6]
        BY <1>1, <1>3 DEF LocksTypeOK
    <2>2. held' \in [Processes -> SUBSET Locks]
        BY <1>1, <1>3 DEF LocksTypeOK
    <2>3. \A q \in Processes : kind'[q] = "none" => held'[q] = {} /\ next'[q] = 1
        BY <1>1, <1>4 DEF LocksTypeOK, Running
    <2> QED BY <1>1, <1>2, <2>1, <2>2, <2>3 DEF LocksTypeOK
<1>6. HeldLocksAgree'
    <2> SUFFICES ASSUME NEW q \in Processes, NEW r \in Processes, q # r,
                        NEW lock \in held'[q], NEW other \in held'[r]
                 PROVE  ~Conflict(lock, other)
        BY DEF HeldLocksAgree, Conflict
    <2>1. CASE lock \in held[q] /\ other \in held[r]
        BY <2>1 DEF LocksInv, HeldLocksAgree
    <2>2. CASE q = p /\ lock = Wanted(p)
        BY <1>4, <2>2, GrantedAgrees
    <2>3. CASE r = p /\ other = Wanted(p)
        BY <1>4, <2>3, GrantedAgrees
    <2> QED BY <1>4, <2>1, <2>2, <2>3
<1>7. HeldIsExecuted'
    <2>0. \A q \in Processes : kind'[q] # "none" => next'[q] - 1 <= Len(Statements[kind'[q]])
        BY <1>1, <1>4, RunningWants DEF LocksInv, HeldIsExecuted
    <2> SUFFICES ASSUME NEW q \in Processes, kind'[q] # "none", NEW lock \in held'[q]
                 PROVE  \E i \in 1..(next'[q] - 1) : lock = Statements[kind'[q]][i]
        BY <2>0 DEF HeldIsExecuted
    <2>1. CASE lock \in held[q]
        <3>1. PICK i \in 1..(next[q] - 1) : lock = Statements[kind[q]][i]
            BY <1>1, <2>1 DEF LocksInv, HeldIsExecuted
        <3>2. i \in 1..(next'[q] - 1)
            BY <1>3, <1>4
        <3> QED BY <1>1, <3>1, <3>2
    <2>2. CASE q = p /\ lock = Wanted(p)
        BY <1>1, <1>3, <1>4, <2>2
    <2> QED BY <1>4, <2>1, <2>2
<1>8. BatchHasPositions'
    <2> SUFFICES ASSUME NEW q \in Processes, kind'[q] = "batch", next'[q] > 1
                 PROVE  Lock("positions", "accessExclusive") \in held'[q]
        BY DEF BatchHasPositions, Lock
    <2>1. CASE next[q] > 1
        BY <1>1, <1>4, <2>1 DEF LocksInv, BatchHasPositions, Lock
    <2>2. CASE next[q] = 1
        <3>1. q = p
            BY <1>4, <2>2
        <3> QED BY <1>1, <1>3, <1>4, <2>2, <3>1, StatementsOfBatch
    <2> QED BY <2>1, <2>2 DEF LocksInv, LocksTypeOK
<1>9. WaitersRun'
    <2>1. \A q \in ToSet(queue') : q \in Processes /\ q # p
        BY <1>2, ElementOfSeq, LenProperties DEF ToSet
    <2> QED BY <1>1, <1>2, <1>4, <2>1 DEF LocksInv, WaitersRun, Running, Done
<1> QED BY <1>5, <1>6, <1>7, <1>8, <1>9 DEF LocksInv

\* SkipDelete passes over a statement without its lock.
LEMMA SkipDeleteKeepsLocksInv ==
    ASSUME LocksInv, NEW p \in Processes, SkipDelete(p)
    PROVE  LocksInv'
<1>1. /\ LocksTypeOK /\ Running(p) /\ ~Waiting(p) /\ kind[p] = "retention"
      /\ next' = [next EXCEPT ![p] = @ + 1]
      /\ UNCHANGED <<kind, held, queue>>
    BY DEF LocksInv, SkipDelete
<1>2. next[p] \in 1..5
    BY <1>1, RunningWants
<1>3. next'[p] = next[p] + 1 /\ \A q \in Processes : q # p => next'[q] = next[q]
    BY <1>1 DEF LocksTypeOK
<1>4. LocksTypeOK'
    <2>1. next' \in [Processes -> 1..6]
        BY <1>1, <1>2 DEF LocksTypeOK
    <2> QED BY <1>1, <1>3, <2>1 DEF LocksTypeOK
<1>5. HeldLocksAgree'
    BY <1>1 DEF LocksInv, HeldLocksAgree
<1>6. HeldIsExecuted'
    <2>0. \A q \in Processes : kind'[q] # "none" => next'[q] - 1 <= Len(Statements[kind'[q]])
        BY <1>1, <1>3, RunningWants DEF LocksInv, HeldIsExecuted
    <2> SUFFICES ASSUME NEW q \in Processes, kind'[q] # "none", NEW lock \in held'[q]
                 PROVE  \E i \in 1..(next'[q] - 1) : lock = Statements[kind'[q]][i]
        BY <2>0 DEF HeldIsExecuted
    <2>1. PICK i \in 1..(next[q] - 1) : lock = Statements[kind[q]][i]
        BY <1>1 DEF LocksInv, HeldIsExecuted
    <2>2. i \in 1..(next'[q] - 1)
        BY <1>2, <1>3
    <2> QED BY <1>1, <2>1, <2>2
<1>7. BatchHasPositions'
    BY <1>1, <1>3 DEF LocksInv, BatchHasPositions
<1>8. WaitersRun'
    <2>1. \A q \in ToSet(queue) : q \in Processes /\ q # p
        BY <1>1, ElementOfSeq, LenProperties DEF LocksTypeOK, ToSet, Waiting
    <2> QED BY <1>1, <1>3, <2>1 DEF LocksInv, WaitersRun, Running, Done
<1> QED BY <1>4, <1>5, <1>6, <1>7, <1>8 DEF LocksInv

\* The end of a transaction.
LEMMA EndKeepsLocksInv ==
    ASSUME LocksInv, NEW p \in Processes, EndTransaction(p)
    PROVE  LocksInv'
<1>1. /\ LocksTypeOK
      /\ kind' = [kind EXCEPT ![p] = "none"] /\ next' = [next EXCEPT ![p] = 1]
      /\ held' = [held EXCEPT ![p] = {}] /\ queue' = QueueWithout(p)
    BY DEF LocksInv, EndTransaction
<1>2. /\ queue' \in Seq(Processes) /\ IsInjective(queue')
      /\ ToSet(queue') = ToSet(queue) \ {p}
    BY <1>1, QueueWithoutOne
<1>3. /\ kind'[p] = "none" /\ next'[p] = 1 /\ held'[p] = {}
      /\ \A q \in Processes : q # p =>
            kind'[q] = kind[q] /\ next'[q] = next[q] /\ held'[q] = held[q]
    BY <1>1 DEF LocksTypeOK
<1>4. \A q \in ToSet(queue') : q \in Processes /\ q # p
    BY <1>2, ElementOfSeq, LenProperties DEF ToSet
<1>5. LocksTypeOK'
    <2>1. kind' \in [Processes -> Kinds \cup {"none"}] /\ next' \in [Processes -> 1..6]
            /\ held' \in [Processes -> SUBSET Locks]
        BY <1>1 DEF LocksTypeOK
    <2> QED BY <1>1, <1>2, <1>3, <1>4, <2>1 DEF LocksTypeOK
<1>6. HeldLocksAgree'
    BY <1>3 DEF LocksInv, HeldLocksAgree
<1>7. HeldIsExecuted'
    BY <1>3 DEF LocksInv, HeldIsExecuted
<1>8. BatchHasPositions'
    BY <1>3 DEF LocksInv, BatchHasPositions
<1>9. WaitersRun'
    BY <1>2, <1>3, <1>4 DEF LocksInv, WaitersRun, Running, Done
<1> QED BY <1>5, <1>6, <1>7, <1>8, <1>9 DEF LocksInv

LEMMA NextKeepsLocksInv == ASSUME LocksInv, [LocksNext]_(lockVars) PROVE LocksInv'
<1>1. CASE UNCHANGED lockVars
    BY <1>1, StutterKeepsLocksInv
<1>2. ASSUME NEW p \in Processes,
             \/ \E k \in Kinds : BeginTransaction(p, k)
             \/ Proceed(p) \/ SkipDelete(p) \/ LockTimeout(p) \/ Fail(p)
      PROVE  LocksInv'
    BY <1>2, BeginKeepsLocksInv, EnqueueKeepsLocksInv, ExecuteKeepsLocksInv,
       SkipDeleteKeepsLocksInv, EndKeepsLocksInv
        DEF Proceed, CommitTransaction, DetectDeadlock, LockTimeout, Fail
<1> QED BY <1>1, <1>2 DEF LocksNext

\* The inductive invariant of the locks holds.
THEOREM LocksInvariantHolds == LocksSpec => []LocksInv
<1> QED BY InitEstablishesLocksInv, NextKeepsLocksInv, PTL DEF LocksSpec

\* The type invariant of the locks: among others, no process waits twice and
\* only those in a transaction wait.
THEOREM LocksTypeCorrect == LocksSpec => []LocksTypeOK
<1>1. LocksInv => LocksTypeOK
    BY DEF LocksInv
<1> QED BY <1>1, LocksInvariantHolds, PTL

\* From the ALTER TABLE of _ensure_table to the commit, nobody else has a lock
\* on the positions, for any number of processes.
THEOREM BatchesAlwaysAlone == LocksSpec => []BatchesAreAlone
<1>1. LocksInv => BatchesAreAlone
    <2> SUFFICES ASSUME LocksInv, NEW p \in Processes, NEW q \in Processes, p # q,
                        kind[p] = "batch", next[p] > 1, NEW lock \in held[q]
                 PROVE  lock.table # "positions"
        BY DEF BatchesAreAlone
    <2>1. Lock("positions", "accessExclusive") \in held[p]
        BY DEF LocksInv, BatchHasPositions, Lock
    <2>2. ~Conflict(Lock("positions", "accessExclusive"), lock)
        BY <2>1 DEF LocksInv, HeldLocksAgree
    <2>3. lock.mode \in Modes
        BY DEF LocksInv, LocksTypeOK, Locks
    <2>4. "accessExclusive" \in ConflictsWith[lock.mode]
        BY <2>3 DEF Modes, ConflictsWith
    <2> QED BY <2>2, <2>4 DEF Conflict, Lock
<1> QED BY <1>1, LocksInvariantHolds, PTL

----------------------------------------------------------------------------
(* Deadlocks.                                                              *)

\* What a consumer's transaction has after its first statement, and what only
\* that statement asks for, or no one.
Strong == {Lock("positions", "accessExclusive"), Lock("deadLetters", "share"),
           Lock("metrics", "share"), Lock("metrics", "rowExclusive")}
Later  == Taken \ {Lock("positions", "accessExclusive"), Lock("deadLetters", "share")}

\* Those that hold a strong lock.
Ahead == {q \in Processes : held[q] \cap Strong # {}}

\* A lock that conflicts with a later one is strong.
LEMMA StrongBlocksLater ==
    ASSUME NEW lock \in Taken, NEW wanted \in Later, Conflict(lock, wanted)
    PROVE  lock \in Strong
<1>1. lock.table = wanted.table /\ lock.mode \in ConflictsWith[wanted.mode]
    BY DEF Conflict
<1>2. CASE wanted.mode \in {"accessShare", "rowShare"}
    <2>1. lock.mode = "accessExclusive"
        BY <1>1, <1>2 DEF ConflictsWith
    <2> QED BY <2>1 DEF Taken, Strong, Lock
<1>3. CASE wanted.mode = "rowExclusive"
    <2>1. lock.mode \in {"share", "accessExclusive"}
        BY <1>1, <1>3 DEF ConflictsWith
    <2> QED BY <2>1 DEF Taken, Strong, Lock
<1>4. CASE wanted.mode = "share"
    <2>1. lock.mode \in {"rowExclusive", "accessExclusive"} /\ lock.table = "metrics"
        BY <1>1, <1>4 DEF ConflictsWith, Later, Taken, Lock
    <2> QED BY <2>1 DEF Taken, Strong, Lock
<1>5. wanted.mode \in {"accessShare", "rowShare", "rowExclusive", "share"}
    BY DEF Later, Taken, Lock
<1> QED BY <1>2, <1>3, <1>4, <1>5

\* Retention, dbt and pg_dump never ask for more, and a consumer does not after
\* its first statement.
LEMMA LaterIsWanted ==
    ASSUME LocksTypeOK, NEW p \in Processes, Running(p),
           kind[p] \notin {"batch", "deadLetter"} \/ next[p] > 1
    PROVE  Wanted(p) \in Later
<1>1. /\ kind[p] \in Kinds /\ next[p] \in 1..Len(Statements[kind[p]])
      /\ Wanted(p) = Statements[kind[p]][next[p]]
    BY RunningWants
<1>2. CASE kind[p] = "batch"
    BY <1>1, <1>2, StatementsOfBatch DEF Later, Taken, Lock
<1>3. CASE kind[p] = "deadLetter"
    BY <1>1, <1>3, StatementsOfDeadLetter DEF Later, Taken, Lock
<1>4. CASE kind[p] = "retention"
    BY <1>1, <1>4, StatementsOfRetention DEF Later, Taken, Lock
<1>5. CASE kind[p] = "dbt"
    <2>1. Wanted(p) = Lock("positions", "accessShare")
        BY <1>1, <1>5, StatementsOfReaders
    <2> QED BY <2>1 DEF Later, Taken, Lock
<1>6. CASE kind[p] = "dump"
    <2>1. \E t \in {"positions", "deadLetters", "metrics"} : Wanted(p) = Lock(t, "accessShare")
        BY <1>1, <1>6, StatementsOfReaders
    <2> QED BY <2>1 DEF Later, Taken, Lock
<1> QED BY <1>1, <1>2, <1>3, <1>4, <1>5, <1>6 DEF Kinds

\* One that holds a strong lock and has more to do is a consumer's, past its
\* first statement: retention locks the metrics last.
LEMMA AheadAreConsumers ==
    ASSUME LocksInv, NEW p \in Ahead, Running(p)
    PROVE  kind[p] \in {"batch", "deadLetter"} /\ next[p] > 1
<1>1. /\ p \in Processes /\ kind[p] \in Kinds /\ next[p] \in 1..Len(Statements[kind[p]])
      /\ kind[p] # "none"
    BY RunningWants DEF LocksInv, Ahead, Running
<1>2. PICK lock \in held[p] : lock \in Strong
    BY DEF Ahead
<1>3. PICK i \in 1..(next[p] - 1) : lock = Statements[kind[p]][i]
    BY <1>1, <1>2 DEF LocksInv, HeldIsExecuted
<1>4. next[p] > 1 /\ next[p] \in Nat
    BY <1>1, <1>3, StatementsTake
<1>5. CASE kind[p] = "retention"
    BY <1>1, <1>2, <1>3, <1>5, StatementsOfRetention DEF Strong, Lock
<1>6. CASE kind[p] \in {"dbt", "dump"}
    <2>1. CASE kind[p] = "dbt"
        BY <1>1, <1>3, <2>1, StatementsOfReaders DEF Lock
    <2>2. CASE kind[p] = "dump"
        <3>1. lock.mode = "accessShare"
            BY <1>1, <1>3, <2>2, StatementsOfReaders DEF Lock
        <3> QED BY <1>2, <3>1 DEF Strong, Lock
    <2> QED BY <1>6, <2>1, <2>2
<1> QED BY <1>1, <1>4, <1>5, <1>6 DEF Kinds

\* Whoever blocks one that wants a later lock is ahead of it.
LEMMA BlockersAreAhead ==
    ASSUME LocksInv, NEW p \in Processes, NEW q \in Processes,
           Wanted(p) \in Later, Blocks(q, p)
    PROVE  q \in Ahead
<1>1. PICK lock \in held[q] : Conflict(lock, Wanted(p))
    BY DEF Blocks
<1>2. kind[q] \in Kinds
    BY <1>1 DEF LocksInv, LocksTypeOK
<1>3. PICK i \in 1..(next[q] - 1) : lock = Statements[kind[q]][i]
    BY <1>1, <1>2 DEF LocksInv, HeldIsExecuted, Kinds
<1>4. lock \in Taken
    <2>1. next[q] - 1 <= Len(Statements[kind[q]]) /\ Len(Statements[kind[q]]) \in Nat
        BY <1>2, StatementsTake DEF LocksInv, HeldIsExecuted, Kinds
    <2>2. i \in 1..Len(Statements[kind[q]])
        BY <2>1 DEF LocksInv, LocksTypeOK
    <2> QED BY <1>2, <1>3, <2>2, StatementsTake
<1> QED BY <1>1, <1>4, StrongBlocksLater DEF Ahead

\* A retention worker, dbt or pg_dump is never in a cycle of waits, for any
\* number of processes: what holds it up, and what holds that up, and so on,
\* are transactions that are ahead of it, and it is not.
THEOREM DeadlocksAreConsumers == LocksSpec => []OnlyConsumersDeadlock
<1>1. LocksInv => OnlyConsumersDeadlock
    <2> SUFFICES ASSUME LocksInv, NEW p \in Processes, Deadlocked(p), p \notin Consumers
                 PROVE  FALSE
        BY DEF OnlyConsumersDeadlock
    <2> DEFINE waits == {e \in Processes \X Processes :
                            Waiting(e[1]) /\ Blocks(e[2], e[1])}
    <2>1. Running(p) /\ kind[p] \notin {"batch", "deadLetter"}
        BY DEF LocksInv, WaitersRun, Deadlocked, Waiting, KindsOf, Running
    <2>2. p \notin Ahead
        BY <2>1, AheadAreConsumers
    <2>3. ASSUME NEW e \in waits, e[1] \in Ahead \cup {p} PROVE e[2] \in Ahead
        <3>1. /\ e[1] \in Processes /\ e[2] \in Processes
              /\ Running(e[1]) /\ Blocks(e[2], e[1])
            BY DEF LocksInv, WaitersRun, Waiting
        <3>2. Wanted(e[1]) \in Later
            BY <2>1, <2>3, <3>1, AheadAreConsumers, LaterIsWanted DEF LocksInv
        <3> QED BY <3>1, <3>2, BlockersAreAhead
    <2>4. Ahead \in SUBSET Processes
        BY DEF Ahead
    <2>5. p \in Ahead
        BY <2>3, <2>4 DEF Deadlocked
    <2> QED BY <2>2, <2>5
<1> QED BY <1>1, LocksInvariantHolds, PTL

----------------------------------------------------------------------------
(* What IncrementalStaging assumes of the locks.                           *)

\* The writers with an open transaction, in the sense of IncrementalStaging.
OpenBatches == {p \in Consumers : kind[p] = "batch" /\ next[p] > 1}

\* Its guards: a writer begins when no other has an open transaction and dbt's
\* query is over, and nobody reads or deletes observations until it ends.
WritersExclude ==
    \A w \in OpenBatches :
        /\ OpenBatches = {w}
        /\ \A q \in Processes \ {w} : \A lock \in held[q] : lock.table # "positions"

\* The guards of Begin, DeleteExpired and Select in IncrementalStaging are what
\* the statements of the code make PostgreSQL enforce.
THEOREM WritersAlwaysExclude == LocksSpec => []WritersExclude
<1>1. LocksInv /\ BatchesAreAlone => WritersExclude
    <2> SUFFICES ASSUME LocksInv, BatchesAreAlone, NEW w \in OpenBatches
                 PROVE  /\ \A v \in OpenBatches : v = w
                        /\ \A q \in Processes \ {w} :
                              \A lock \in held[q] : lock.table # "positions"
        BY DEF WritersExclude
    <2>1. w \in Processes /\ kind[w] = "batch" /\ next[w] > 1
        BY DEF OpenBatches, Processes
    <2>2. \A q \in Processes : q # w => \A lock \in held[q] : lock.table # "positions"
        BY <2>1 DEF BatchesAreAlone
    <2>3. ASSUME NEW v \in OpenBatches PROVE v = w
        <3>1. v \in Processes /\ Lock("positions", "accessExclusive") \in held[v]
            BY DEF OpenBatches, Processes, LocksInv, BatchHasPositions, Lock
        <3> QED BY <2>2, <3>1 DEF Lock
    <2> QED BY <2>2, <2>3
<1> QED BY <1>1, LocksInvariantHolds, BatchesAlwaysAlone, PTL

=============================================================================
