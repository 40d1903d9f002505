------------------------ MODULE VehicleConsumerProofs ---------------------
(***************************************************************************)
(* Proofs about VehicleConsumer: type correctness, that every committed    *)
(* offset covers durable messages only, that a consumer passes over no     *)
(* message, and that the consumer implements EventSink.                    *)
(***************************************************************************)
EXTENDS VehicleConsumer, FiniteSetTheorems, SequenceTheorems, WellFoundedInduction, TLAPS

----------------------------------------------------------------------------
(* The inductive invariant.  CommittedIsDurable is not inductive: a commit *)
(* is safe because of what the batch holds, which depends on what the      *)
(* consumer polled before.                                                 *)

InLog(item) == item.offset < Len(log[item.partition])

\* The batch holds valid messages of the log.
BatchValid(c) ==
    \A item \in BatchItems(c) : InLog(item) /\ MessageAt(item) # Malformed

\* A message is in hand while it is being dead-lettered or waits for the
\* flush before that, and it is malformed.
NeedsMessage(c) ==
    \/ pc[c] \in {"deadLetter", "deadLetterCommit"}
    \/ pc[c] \in {"persist", "commit"} /\ next[c] = "deadLetter"

MessageValid(c) ==
    /\ message[c] # NoItem <=> NeedsMessage(c)
    /\ message[c] # NoItem => InLog(message[c]) /\ MessageAt(message[c]) = Malformed
    /\ pc[c] \in {"deadLetter", "deadLetterCommit"} => batch[c] = <<>>
    /\ pc[c] \in {"persist", "commit"} => batch[c] # <<>>

\* Offsets are committed after the transaction.
StoredBeforeCommit(c) ==
    /\ pc[c] = "commit" => \A item \in BatchItems(c) : Durable(item)
    /\ pc[c] = "deadLetterCommit" => Durable(message[c])

\* Everything before a message in hand is durable or in the batch.
Held(c) == BatchItems(c) \cup ({message[c]} \ {NoItem})

HeldIsContiguous(c) ==
    \A item \in Held(c) :
        \A e \in Earlier(item) : Durable(e) \/ e \in BatchItems(c)

PolledBy(c) ==
    pc[c] # "close" =>
        \A p \in assigned[c] :
            \A item \in Earlier([partition |-> p, offset |-> position[c][p]]) :
                Durable(item) \/ InHand(c, item)

ConsumerInv(c) ==
    /\ BatchValid(c)
    /\ MessageValid(c)
    /\ StoredBeforeCommit(c)
    /\ HeldIsContiguous(c)
    /\ PolledBy(c)

IInv ==
    /\ TypeOK
    /\ CommittedIsDurable
    /\ \A c \in Consumers : ConsumerInv(c)

----------------------------------------------------------------------------
(* Lemmas about the operators.                                             *)

LEMMA ItemsOfBatch ==
    ASSUME TypeOK, NEW c \in Consumers
    PROVE  /\ BatchItems(c) \subseteq Items
           /\ batch[c] = <<>> <=> BatchItems(c) = {}
<1>1. batch[c] \in Seq(Items)
    BY DEF TypeOK
<1>2. Len(batch[c]) \in Nat /\ \A i \in 1..Len(batch[c]) : batch[c][i] \in Items
    BY <1>1, LenProperties, ElementOfSeq
<1>3. batch[c] # <<>> => 1 \in 1..Len(batch[c])
    BY <1>1, EmptySeq
<1>4. batch[c] = <<>> => Len(batch[c]) = 0
    BY EmptySeq
<1>5. ASSUME batch[c] = <<>> PROVE BatchItems(c) = {}
    <2>1. 1..Len(batch[c]) = {}
        BY <1>4, <1>5
    <2> QED BY <2>1 DEF BatchItems
<1>6. ASSUME batch[c] # <<>> PROVE BatchItems(c) # {}
    BY <1>3, <1>6 DEF BatchItems
<1> QED BY <1>2, <1>5, <1>6 DEF BatchItems

\* The messages of the batch are finitely many event ids.
LEMMA EventsOfBatch ==
    ASSUME TypeOK, NEW c \in Consumers, BatchValid(c)
    PROVE  /\ EventsOf(BatchItems(c)) \subseteq EventIds
           /\ IsFiniteSet(EventsOf(BatchItems(c)))
           /\ Cardinality(EventsOf(BatchItems(c)) \ rows) \in Nat
<1>1. BatchItems(c) \subseteq Items
    BY ItemsOfBatch
<1>2. \A item \in BatchItems(c) : MessageAt(item) \in EventIds
    <2> TAKE item \in BatchItems(c)
    <2>1. item.partition \in Partitions /\ item.offset \in Nat
        BY <1>1 DEF Items
    <2>2. item.offset < Len(log[item.partition]) /\ MessageAt(item) # Malformed
        BY DEF BatchValid, InLog
    <2>3. log[item.partition] \in Seq(Messages)
        BY <2>1 DEF TypeOK
    <2>4. Len(log[item.partition]) \in Nat
        BY <2>3, LenProperties
    <2>5. item.offset + 1 \in 1..Len(log[item.partition])
        BY <2>1, <2>2, <2>4
    <2>6. log[item.partition][item.offset + 1] \in Messages
        BY <2>3, <2>5, ElementOfSeq
    <2> QED BY <2>2, <2>6 DEF MessageAt, Messages
<1>3. Len(batch[c]) \in Nat
    BY LenProperties DEF TypeOK
<1> DEFINE n == Len(batch[c])
           E == EventsOf(BatchItems(c))
           f == [i \in 1..n |-> MessageAt(batch[c][i])]
<1>4. f \in Surjection(1..n, E)
    BY DEF Surjection, EventsOf, BatchItems
<1>5. IsFiniteSet(1..n)
    BY <1>3, FS_Interval
<1>6. IsFiniteSet(E)
    BY <1>4, <1>5, FS_Surjection
<1>7. IsFiniteSet(E \ rows)
    BY <1>6, FS_Subset
<1> QED BY <1>2, <1>6, <1>7, FS_CardinalityType DEF EventsOf

\* A bounded, non-empty set of naturals has a maximum, and Max returns it.
LEMMA MaxOfBounded ==
    ASSUME NEW S \in SUBSET Nat, S # {}, NEW b \in Nat, \A x \in S : x <= b
    PROVE  Max(S) \in S /\ \A y \in S : Max(S) >= y
<1> DEFINE T == {b - x : x \in S}
<1>1. T \subseteq Nat /\ T # {}
    <2>1. \A x \in S : b - x \in Nat
        OBVIOUS
    <2>2. PICK x \in S : TRUE
        OBVIOUS
    <2>3. b - x \in T
        OBVIOUS
    <2> QED BY <2>1, <2>3
<1>2. \E t \in T : \A u \in T : ~(<<u, t>> \in OpToRel(<, Nat))
    BY <1>1, WFMin, NatLessThanWellFounded, Zenon
<1>3. PICK t \in T : \A u \in T : ~(u < t)
    BY <1>1, <1>2 DEF OpToRel
<1>4. PICK x \in S : t = b - x
    BY <1>3
<1>5. \A y \in S : x >= y
    <2> TAKE y \in S
    <2>1. ~(b - y < b - x)
        BY <1>3, <1>4
    <2>2. x \in Nat /\ y \in Nat
        OBVIOUS
    <2> QED BY <2>1, <2>2
<1> QED BY <1>5 DEF Max

\* offsets_for_batch: in each partition of the batch, one past the offset of
\* its last message there.
LEMMA OffsetsOfBatch ==
    ASSUME TypeOK, NEW c \in Consumers, BatchValid(c),
           NEW p \in DOMAIN OffsetsFor(BatchItems(c))
    PROVE  \E item \in BatchItems(c) :
              /\ item.partition = p
              /\ OffsetsFor(BatchItems(c))[p] = item.offset + 1
<1> DEFINE B == {i \in BatchItems(c) : i.partition = p}
           S == {item.offset + 1 : item \in B}
<1>1. BatchItems(c) \subseteq Items
    BY ItemsOfBatch
<1>2. PICK item \in BatchItems(c) : item.partition = p
    BY DEF OffsetsFor
<1>3. p \in Partitions
    BY <1>1, <1>2 DEF Items
<1>4. Len(log[p]) \in Nat
    BY <1>3, LenProperties DEF TypeOK
<1>5. S \in SUBSET Nat /\ S # {}
    BY <1>1, <1>2 DEF Items
<1>6. \A x \in S : x <= Len(log[p])
    BY <1>1, <1>4 DEF BatchValid, InLog, Items
<1>7. Max(S) \in S
    BY <1>4, <1>5, <1>6, MaxOfBounded
<1>8. OffsetsFor(BatchItems(c))[p] = Max(S)
    BY DEF OffsetsFor, NextOffset
<1> QED BY <1>7, <1>8

LEMMA StoredOffsets ==
    ASSUME IInv, NEW c \in Consumers, StoreOffsets(c, OffsetsFor(BatchItems(c)))
    PROVE  /\ committed' \in [Partitions -> Nat]
           /\ \A p \in Partitions :
                 \/ committed'[p] = committed[p]
                 \/ \E item \in BatchItems(c) :
                       item.partition = p /\ committed'[p] = item.offset + 1
<1> DEFINE offs == OffsetsFor(BatchItems(c))
<1>1. BatchItems(c) \subseteq Items
    BY ItemsOfBatch DEF IInv
<1>2. ASSUME NEW p \in Partitions
      PROVE  /\ committed'[p] \in Nat
             /\ \/ committed'[p] = committed[p]
                \/ \E item \in BatchItems(c) :
                      item.partition = p /\ committed'[p] = item.offset + 1
    <2>1. CASE p \notin DOMAIN offs
        BY <2>1 DEF StoreOffsets, IInv, TypeOK
    <2>2. CASE p \in DOMAIN offs
        <3>1. PICK item \in BatchItems(c) : item.partition = p /\ offs[p] = item.offset + 1
            BY <2>2, OffsetsOfBatch DEF IInv, ConsumerInv
        <3>2. committed'[p] = item.offset + 1
            BY <2>2, <3>1 DEF StoreOffsets
        <3> QED BY <1>1, <3>1, <3>2 DEF Items
    <2> QED BY <2>1, <2>2
<1> QED BY <1>2 DEF StoreOffsets

----------------------------------------------------------------------------
(* Type correctness.                                                       *)

LEMMA TypeInit == Init => TypeOK
<1> SUFFICES ASSUME Init PROVE TypeOK
    OBVIOUS
<1>1. <<>> \in Seq(Messages) /\ <<>> \in Seq(Items)
    BY EmptySeq
<1> QED BY <1>1 DEF Init, TypeOK, GroupStates, ControlStates

LEMMA MetricsGrow ==
    ASSUME NEW m \in [persisted : Nat, dead : Nat], NEW n \in Nat
    PROVE  /\ [m EXCEPT !.persisted = @ + n] \in [persisted : Nat, dead : Nat]
           /\ [m EXCEPT !.dead = @ + n] \in [persisted : Nat, dead : Nat]
OBVIOUS

\* The item a poll returns.
LEMMA FetchedItem ==
    ASSUME TypeOK, NEW c \in Consumers, NEW p \in Partitions, Fetch(c, p)
    PROVE  /\ Fetched(c, p) \in Items
           /\ InLog(Fetched(c, p))
           /\ position' \in [Consumers -> [Partitions -> Nat]]
BY DEF TypeOK, Fetch, Fetched, Items, InLog

LEMMA TypeStep ==
    ASSUME IInv, Next
    PROVE  TypeOK'
<1> USE DEF ControlStates, GroupStates
<1>t. TypeOK
    BY DEF IInv
<1>e. <<>> \in Seq(Items)
    BY EmptySeq
<1>1. ASSUME NEW p \in Partitions, NEW m \in Messages, Publish(p, m) PROVE TypeOK'
    <2>1. Append(log[p], m) \in Seq(Messages)
        BY <1>t, AppendProperties DEF TypeOK
    <2> QED BY <1>t, <1>1, <2>1 DEF TypeOK, Publish, groupVars, localVars, dbVars
<1>2. CASE Rebalance
    <2>1. PICK owner \in [Partitions -> Joined] : Assign(owner)
        BY <1>2 DEF Rebalance
    <2>2. assigned' \in [Consumers -> SUBSET Partitions]
        BY <1>t, <2>1 DEF TypeOK, Assign
    <2>3. position' \in [Consumers -> [Partitions -> Nat]]
        BY <1>t, <2>1 DEF TypeOK, Assign
    <2> QED
        BY <1>t, <1>2, <2>2, <2>3 DEF TypeOK, Rebalance, brokerVars, localVars, dbVars
<1>3. ASSUME NEW c \in Consumers, Fence(c) PROVE TypeOK'
    BY <1>t, <1>3 DEF TypeOK, Fence, Fault, brokerVars, localVars, dbVars
<1>4. ASSUME NEW c \in Consumers, Rejoin(c) PROVE TypeOK'
    BY <1>t, <1>4 DEF TypeOK, Rejoin, brokerVars, localVars, dbVars
<1>5. ASSUME NEW c \in Consumers, Start(c) PROVE TypeOK'
    BY <1>t, <1>5 DEF TypeOK, Start, brokerVars, dbVars
<1>6. ASSUME NEW c \in Consumers, Signal(c) PROVE TypeOK'
    BY <1>t, <1>6 DEF TypeOK, Signal, Fault, brokerVars, groupVars, dbVars
<1>7. ASSUME NEW c \in Consumers, Crash(c) \/ Close(c) PROVE TypeOK'
    <2>1. Gone(c) /\ faults' \in Nat
        BY <1>t, <1>7 DEF TypeOK, Crash, Close, Fault
    <2>2. position' \in [Consumers -> [Partitions -> Nat]]
        BY <1>t, <2>1 DEF TypeOK, Gone
    <2> QED BY <1>t, <1>e, <2>1, <2>2 DEF TypeOK, Gone, brokerVars, dbVars
<1>8. ASSUME NEW c \in Consumers, LoopHead(c) PROVE TypeOK'
    BY <1>t, <1>8 DEF TypeOK, LoopHead, FlushThen, brokerVars, groupVars, dbVars
<1>9. ASSUME NEW c \in Consumers, Poll(c) PROVE TypeOK'
    <2>1. ASSUME NEW p \in Partitions, PollValid(c, p) PROVE TypeOK'
        <3>1. Fetch(c, p)
            BY <2>1 DEF PollValid
        <3>2. Append(batch[c], Fetched(c, p)) \in Seq(Items)
            BY <1>t, <3>1, FetchedItem, AppendProperties DEF TypeOK
        <3>3. position' \in [Consumers -> [Partitions -> Nat]]
            BY <1>t, <3>1, FetchedItem
        <3> QED BY <1>t, <2>1, <3>2, <3>3 DEF TypeOK, PollValid, brokerVars, dbVars
    <2>2. ASSUME NEW p \in Partitions, PollMalformed(c, p) PROVE TypeOK'
        <3>1. Fetched(c, p) \in Items /\ position' \in [Consumers -> [Partitions -> Nat]]
            BY <1>t, <2>2, FetchedItem DEF PollMalformed
        <3> QED BY <1>t, <2>2, <3>1 DEF TypeOK, PollMalformed, FlushThen, brokerVars, dbVars
    <2>3. CASE PollNothing(c)
        BY <1>t, <2>3 DEF TypeOK, PollNothing, FlushThen, brokerVars, groupVars, dbVars
    <2>4. CASE PollRaises(c)
        <3>1. faults' \in Nat
            BY <1>t, <2>4 DEF TypeOK, PollRaises, Fault
        <3> QED
            BY <1>t, <2>4, <3>1 DEF TypeOK, PollRaises, FlushThen, brokerVars, groupVars, dbVars
    <2> QED BY <1>9, <2>1, <2>2, <2>3, <2>4 DEF Poll
<1>10. ASSUME NEW c \in Consumers, Flush(c) PROVE TypeOK'
    <2>1. BatchValid(c)
        BY DEF IInv, ConsumerInv
    <2>2. ASSUME InsertRows(c) PROVE rows' \subseteq EventIds /\ metrics' \in [persisted : Nat, dead : Nat]
        <3> DEFINE n == Cardinality(EventsOf(BatchItems(c)) \ rows)
        <3>1. n \in Nat /\ EventsOf(BatchItems(c)) \subseteq EventIds
            BY <1>t, <2>1, EventsOfBatch
        <3>2. rows' = rows \cup EventsOf(BatchItems(c))
            BY <2>2 DEF InsertRows
        <3>3. metrics' = [metrics EXCEPT !.persisted = @ + n]
            BY <2>2 DEF InsertRows, CountMetric
        <3> HIDE DEF n
        <3> QED BY <1>t, <3>1, <3>2, <3>3, MetricsGrow DEF TypeOK
    <2>3. CASE PersistBatch(c)
        BY <1>t, <2>2, <2>3 DEF TypeOK, PersistBatch, InsertRows, brokerVars, groupVars
    <2>4. CASE PersistOutcomeLost(c)
        <3>1. /\ batch' \in [Consumers -> Seq(Items)]
              /\ message' \in [Consumers -> Items \cup {NoItem}]
              /\ pc' \in [Consumers -> ControlStates]
            <4>1. CASE stop[c]
                <5>1. FlushFails(c)
                    BY <2>4, <4>1, Zenon DEF PersistOutcomeLost
                <5> QED BY <1>t, <1>e, <5>1 DEF TypeOK, FlushFails
            <4>2. CASE ~stop[c]
                BY <1>t, <2>4, <4>2 DEF TypeOK, PersistOutcomeLost
            <4> QED BY <4>1, <4>2
        <3>2. rows' \subseteq EventIds /\ metrics' \in [persisted : Nat, dead : Nat]
            BY <2>2, <2>4 DEF PersistOutcomeLost
        <3> QED
            BY <1>t, <2>4, <3>1, <3>2
            DEF TypeOK, PersistOutcomeLost, InsertRows, brokerVars, groupVars
    <2>5. CASE PersistGivesUp(c)
        BY <1>t, <1>e, <2>5 DEF TypeOK, PersistGivesUp, FlushFails, brokerVars, groupVars, dbVars
    <2>6. CASE CommitBatch(c)
        <3>1. committed' \in [Partitions -> Nat]
            BY <2>6, StoredOffsets DEF CommitBatch
        <3>2. Len(batch[c]) \in Nat
            BY <1>t, LenProperties DEF TypeOK
        <3> QED BY <1>t, <1>e, <2>6, <3>1, <3>2 DEF TypeOK, CommitBatch, groupVars, dbVars
    <2>7. CASE CommitBatchRaises(c)
        <3>1. committed' \in [Partitions -> Nat] /\ faults' \in Nat
            BY <1>t, <2>7, StoredOffsets DEF CommitBatchRaises, CommitRaises, Fault, TypeOK
        <3> QED
            BY <1>t, <1>e, <2>7, <3>1 DEF TypeOK, CommitBatchRaises, FlushFails, groupVars, dbVars
    <2> QED BY <1>10, <2>3, <2>4, <2>5, <2>6, <2>7 DEF Flush
<1>11. ASSUME NEW c \in Consumers, DeadLetter(c) PROVE TypeOK'
    <2>1. pc[c] \in {"deadLetter", "deadLetterCommit"} => message[c] \in Items
        BY <1>t DEF IInv, ConsumerInv, MessageValid, NeedsMessage, TypeOK
    <2>2. ASSUME pc[c] = "deadLetter", InsertDeadLetter(c)
          PROVE  deadLetters' \subseteq Items /\ metrics' \in [persisted : Nat, dead : Nat]
        <3>1. IsFiniteSet({message[c]})
            BY FS_Singleton
        <3>2. Cardinality({message[c]} \ deadLetters) \in Nat
            BY <3>1, FS_Subset, FS_CardinalityType
        <3> DEFINE n == Cardinality({message[c]} \ deadLetters)
        <3>3. metrics' = [metrics EXCEPT !.dead = @ + n]
            BY <2>2 DEF InsertDeadLetter, CountMetric
        <3>4. deadLetters' = deadLetters \cup {message[c]}
            BY <2>2 DEF InsertDeadLetter
        <3> HIDE DEF n
        <3>5. n \in Nat
            BY <3>2 DEF n
        <3>6. metrics' \in [persisted : Nat, dead : Nat]
            BY <1>t, <3>3, <3>5, MetricsGrow DEF TypeOK
        <3> QED BY <1>t, <2>1, <2>2, <3>4, <3>6 DEF TypeOK
    <2>3. CASE PersistDeadLetter(c)
        BY <1>t, <2>2, <2>3 DEF TypeOK, PersistDeadLetter, InsertDeadLetter, brokerVars, groupVars
    <2>4. CASE DeadLetterOutcomeLost(c)
        <3>1. /\ batch' \in [Consumers -> Seq(Items)]
              /\ message' \in [Consumers -> Items \cup {NoItem}]
              /\ pc' \in [Consumers -> ControlStates]
            <4>1. CASE stop[c]
                <5>1. FlushFails(c)
                    BY <2>4, <4>1, Zenon DEF DeadLetterOutcomeLost
                <5> QED BY <1>t, <1>e, <5>1 DEF TypeOK, FlushFails
            <4>2. CASE ~stop[c]
                BY <1>t, <2>4, <4>2 DEF TypeOK, DeadLetterOutcomeLost
            <4> QED BY <4>1, <4>2
        <3>2. deadLetters' \subseteq Items /\ metrics' \in [persisted : Nat, dead : Nat]
            BY <2>2, <2>4 DEF DeadLetterOutcomeLost
        <3> QED
            BY <1>t, <2>4, <3>1, <3>2
            DEF TypeOK, DeadLetterOutcomeLost, InsertDeadLetter, brokerVars, groupVars
    <2>5. CASE DeadLetterGivesUp(c)
        BY <1>t, <1>e, <2>5
        DEF TypeOK, DeadLetterGivesUp, FlushFails, brokerVars, groupVars, dbVars
    <2>6. ASSUME pc[c] = "deadLetterCommit", StoreOffsets(c, DeadLetterOffset(c))
          PROVE  committed' \in [Partitions -> Nat]
        BY <1>t, <2>1, <2>6 DEF StoreOffsets, DeadLetterOffset, Items, TypeOK
    <2>7. CASE CommitDeadLetter(c)
        BY <1>t, <2>6, <2>7 DEF TypeOK, CommitDeadLetter, groupVars, dbVars
    <2>8. CASE CommitDeadLetterRaises(c)
        <3>1. committed' \in [Partitions -> Nat] /\ faults' \in Nat
            BY <1>t, <2>6, <2>8 DEF CommitDeadLetterRaises, CommitRaises, Fault, TypeOK
        <3> QED
            BY <1>t, <1>e, <2>8, <3>1
            DEF TypeOK, CommitDeadLetterRaises, FlushFails, groupVars, dbVars
    <2> QED BY <1>11, <2>3, <2>4, <2>5, <2>7, <2>8 DEF DeadLetter
<1> QED
    BY <1>1, <1>2, <1>3, <1>4, <1>5, <1>6, <1>7, <1>8, <1>9, <1>10, <1>11 DEF Next, Process

----------------------------------------------------------------------------
(* What a step never takes back: published messages and stored ones.       *)

Grows ==
    /\ \A p \in Partitions :
          /\ Len(log[p]) <= Len(log'[p])
          /\ \A i \in 1..Len(log[p]) : log'[p][i] = log[p][i]
    /\ rows \subseteq rows'
    /\ deadLetters \subseteq deadLetters'

LEMMA NextGrows ==
    ASSUME TypeOK, Next
    PROVE  Grows
<1>1. ASSUME UNCHANGED log, rows \subseteq rows', deadLetters \subseteq deadLetters'
      PROVE  Grows
    <2>1. \A p \in Partitions : Len(log[p]) \in Nat
        BY LenProperties DEF TypeOK
    <2>2. \A p \in Partitions : Len(log[p]) <= Len(log[p])
        BY <2>1
    <2> QED BY <1>1, <2>2 DEF Grows
<1>2. ASSUME NEW p \in Partitions, NEW m \in Messages, Publish(p, m) PROVE Grows
    <2>1. \A q \in Partitions : log[q] \in Seq(Messages) /\ Len(log[q]) \in Nat
        BY LenProperties DEF TypeOK
    <2> DEFINE longer == Append(log[p], m)
    <2>2. log' = [log EXCEPT ![p] = longer]
        BY <1>2 DEF Publish
    <2>3. /\ Len(longer) = Len(log[p]) + 1
          /\ \A i \in 1..Len(log[p]) : longer[i] = log[p][i]
        BY <2>1, AppendProperties
    <2> HIDE DEF longer
    <2>4. \A q \in Partitions : log'[q] = IF q = p THEN longer ELSE log[q]
        BY <2>2 DEF TypeOK
    <2>5. ASSUME NEW q \in Partitions
          PROVE  /\ Len(log[q]) <= Len(log'[q])
                 /\ \A i \in 1..Len(log[q]) : log'[q][i] = log[q][i]
        <3>1. CASE q = p
            BY <2>1, <2>3, <2>4, <3>1
        <3>2. CASE q # p
            BY <2>1, <2>4, <3>2
        <3> QED BY <3>1, <3>2
    <2>6. rows \subseteq rows' /\ deadLetters \subseteq deadLetters'
        BY <1>2 DEF Publish, dbVars
    <2> QED BY <2>5, <2>6 DEF Grows
<1>3. CASE Rebalance
    BY <1>1, <1>3 DEF Rebalance, brokerVars, dbVars
<1>4. ASSUME NEW c \in Consumers, Fence(c) \/ Rejoin(c) PROVE Grows
    BY <1>1, <1>4 DEF Fence, Rejoin, brokerVars, dbVars
<1>5. ASSUME NEW c \in Consumers, Start(c) \/ Signal(c) \/ Crash(c) \/ Close(c) \/ LoopHead(c)
      PROVE  Grows
    BY <1>1, <1>5 DEF Start, Signal, Crash, Close, Gone, LoopHead, brokerVars, dbVars
<1>6. ASSUME NEW c \in Consumers, Poll(c) PROVE Grows
    BY <1>1, <1>6
    DEF Poll, PollValid, PollMalformed, PollNothing, PollRaises, brokerVars, dbVars
<1>7. ASSUME NEW c \in Consumers, Flush(c) PROVE Grows
    BY <1>1, <1>7
    DEF Flush, PersistBatch, PersistOutcomeLost, PersistGivesUp, InsertRows, CommitBatch,
        CommitBatchRaises, brokerVars, dbVars
<1>8. ASSUME NEW c \in Consumers, DeadLetter(c) PROVE Grows
    BY <1>1, <1>8
    DEF DeadLetter, PersistDeadLetter, DeadLetterOutcomeLost, DeadLetterGivesUp,
        InsertDeadLetter, CommitDeadLetter, CommitDeadLetterRaises, brokerVars, dbVars
<1> QED BY <1>2, <1>3, <1>4, <1>5, <1>6, <1>7, <1>8 DEF Next, Process

LEMMA StaysDurable ==
    ASSUME TypeOK, Grows, NEW item \in Items, InLog(item)
    PROVE  /\ InLog(item)'
           /\ MessageAt(item)' = MessageAt(item)
           /\ Durable(item) => Durable(item)'
<1>1. item.partition \in Partitions /\ item.offset \in Nat
    BY DEF Items
<1>2. log[item.partition] \in Seq(Messages) /\ Len(log[item.partition]) \in Nat
    BY <1>1, LenProperties DEF TypeOK
<1>3. item.offset + 1 \in 1..Len(log[item.partition])
    BY <1>1, <1>2 DEF InLog
<1>4. /\ Len(log[item.partition]) <= Len(log'[item.partition])
      /\ log'[item.partition][item.offset + 1] = log[item.partition][item.offset + 1]
    BY <1>1, <1>3 DEF Grows
<1>5. MessageAt(item)' = MessageAt(item)
    BY <1>4 DEF MessageAt
<1>6. item.offset < Len(log'[item.partition])
    BY <1>1, <1>3, <1>4
<1>7. Durable(item) => Durable(item)'
    <2> SUFFICES ASSUME Durable(item) PROVE Durable(item)'
        OBVIOUS
    <2>1. CASE MessageAt(item) = Malformed
        BY <1>5, <1>6, <2>1 DEF Durable, Grows
    <2>2. CASE MessageAt(item) # Malformed
        BY <1>5, <1>6, <2>2 DEF Durable, Grows
    <2> QED BY <2>1, <2>2
<1> QED BY <1>5, <1>6, <1>7 DEF InLog

LEMMA DurableGrows ==
    ASSUME TypeOK, Grows
    PROVE  \A item \in Items : Durable(item) => Durable(item)'
<1> SUFFICES ASSUME NEW item \in Items, Durable(item) PROVE Durable(item)'
    OBVIOUS
<1>1. InLog(item)
    BY DEF Durable, InLog
<1> QED BY <1>1, StaysDurable

LEMMA EarlierItems ==
    ASSUME NEW item \in Items
    PROVE  Earlier(item) \subseteq Items
BY DEF Earlier, Items

----------------------------------------------------------------------------
(* The consumer's invariant: what keeps it when its hands do not change.   *)

\* Items that are in a batch that stays: valid, contiguous, still durable.
LEMMA BatchStays ==
    ASSUME IInv, Grows, NEW c \in Consumers, batch'[c] = batch[c]
    PROVE  /\ BatchItems(c)' = BatchItems(c)
           /\ BatchValid(c)'
           /\ \A item \in BatchItems(c) : Durable(item) => Durable(item)'
<1>1. TypeOK /\ BatchValid(c) /\ BatchItems(c) \subseteq Items
    BY ItemsOfBatch DEF IInv, ConsumerInv
<1>2. BatchItems(c)' = BatchItems(c)
    BY DEF BatchItems
<1>3. \A item \in BatchItems(c) : InLog(item)' /\ MessageAt(item)' # Malformed
    <2> TAKE item \in BatchItems(c)
    <2>1. item \in Items /\ InLog(item) /\ MessageAt(item) # Malformed
        BY <1>1 DEF BatchValid
    <2> QED BY <1>1, <2>1, StaysDurable
<1>4. BatchValid(c)'
    BY <1>2, <1>3 DEF BatchValid
<1> QED BY <1>1, <1>2, <1>4, DurableGrows

\* A message in hand that stays is still a malformed message of the log.
LEMMA MessageStays ==
    ASSUME IInv, Grows, NEW c \in Consumers, message'[c] = message[c], message[c] # NoItem
    PROVE  InLog(message[c])' /\ MessageAt(message[c])' = Malformed
<1>1. TypeOK /\ MessageValid(c)
    BY DEF IInv, ConsumerInv
<1>2. message[c] \in Items
    BY <1>1 DEF TypeOK
<1>3. InLog(message[c]) /\ MessageAt(message[c]) = Malformed
    BY <1>1 DEF MessageValid, NeedsMessage
<1> QED BY <1>1, <1>2, <1>3, StaysDurable

LEMMA HandsStay ==
    ASSUME IInv, Grows, NEW c \in Consumers, batch'[c] = batch[c], message'[c] = message[c]
    PROVE  HeldIsContiguous(c)'
<1>1. TypeOK /\ HeldIsContiguous(c)
    BY DEF IInv, ConsumerInv
<1>2. BatchItems(c)' = BatchItems(c)
    BY BatchStays
<1>3. Held(c)' = Held(c) /\ Held(c) \subseteq Items
    BY <1>1, <1>2, ItemsOfBatch DEF Held, TypeOK
<1>4. ASSUME NEW item \in Held(c), NEW e \in Earlier(item)
      PROVE  Durable(e)' \/ e \in BatchItems(c)'
    <2>1. e \in Items
        BY <1>3, EarlierItems
    <2>2. Durable(e) \/ e \in BatchItems(c)
        BY <1>1 DEF HeldIsContiguous
    <2> QED BY <1>1, <1>2, <2>1, <2>2, DurableGrows
<1> QED BY <1>3, <1>4 DEF HeldIsContiguous, Earlier

LEMMA PollingStays ==
    ASSUME IInv, Grows, NEW c \in Consumers,
           batch'[c] = batch[c], message'[c] = message[c],
           assigned'[c] = assigned[c], position'[c] = position[c],
           pc'[c] # "close" => pc[c] # "close"
    PROVE  PolledBy(c)'
<1>1. TypeOK /\ PolledBy(c)
    BY DEF IInv, ConsumerInv
<1>2. BatchItems(c)' = BatchItems(c)
    BY BatchStays
<1>3. ASSUME pc'[c] # "close", NEW p \in assigned[c],
             NEW e \in Earlier([partition |-> p, offset |-> position[c][p]])
      PROVE  Durable(e)' \/ InHand(c, e)'
    <2>1. p \in Partitions /\ position[c][p] \in Nat
        BY <1>1 DEF TypeOK
    <2>2. [partition |-> p, offset |-> position[c][p]] \in Items
        BY <2>1 DEF Items
    <2>3. e \in Items
        BY <2>2, EarlierItems
    <2>4. Durable(e) \/ InHand(c, e)
        BY <1>1, <1>3 DEF PolledBy
    <2>5. InHand(c, e) => InHand(c, e)'
        BY <1>2 DEF InHand
    <2> QED BY <1>1, <2>3, <2>4, <2>5, DurableGrows
<1> QED BY <1>3 DEF PolledBy, Earlier

\* A step that touches nothing of consumer c.
LEMMA ConsumerStays ==
    ASSUME IInv, Grows, NEW c \in Consumers,
           batch'[c] = batch[c], message'[c] = message[c],
           assigned'[c] = assigned[c], position'[c] = position[c],
           pc'[c] = pc[c], next'[c] = next[c]
    PROVE  ConsumerInv(c)'
<1>1. TypeOK /\ MessageValid(c) /\ StoredBeforeCommit(c)
    BY DEF IInv, ConsumerInv
<1>2. BatchValid(c)' /\ HeldIsContiguous(c)' /\ PolledBy(c)'
    BY BatchStays, HandsStay, PollingStays
<1>3. MessageValid(c)'
    BY <1>1, MessageStays DEF MessageValid, NeedsMessage
<1>4. StoredBeforeCommit(c)'
    <2>1. pc[c] = "commit" => \A item \in BatchItems(c)' : Durable(item)'
        BY <1>1, BatchStays DEF StoredBeforeCommit
    <2>2. pc[c] = "deadLetterCommit" => message[c] \in Items /\ Durable(message[c])
        BY <1>1 DEF StoredBeforeCommit, MessageValid, NeedsMessage, TypeOK
    <2>3. pc[c] = "deadLetterCommit" => Durable(message[c])'
        BY <1>1, <2>2, DurableGrows
    <2> QED BY <2>1, <2>3 DEF StoredBeforeCommit
<1> QED BY <1>2, <1>3, <1>4 DEF ConsumerInv

\* A consumer that closes or is gone holds nothing.
LEMMA EmptyHands ==
    ASSUME TypeOK', NEW c \in Consumers,
           batch'[c] = <<>>, message'[c] = NoItem,
           \/ pc'[c] = "close"
           \/ pc'[c] = "down" /\ assigned'[c] = {}
    PROVE  ConsumerInv(c)'
<1>1. BatchItems(c)' = {}
    <2>1. Len(batch'[c]) = 0
        BY EmptySeq
    <2>2. 1..Len(batch'[c]) = {}
        BY <2>1
    <2> QED BY <2>2 DEF BatchItems
<1>2. NoItem \notin Items
    BY ConsumerAssumption DEF Items
<1>3. Held(c)' = {}
    BY <1>1, <1>2 DEF Held
<1> QED
    BY <1>1, <1>3
    DEF ConsumerInv, BatchValid, MessageValid, NeedsMessage, StoredBeforeCommit, HeldIsContiguous, PolledBy

----------------------------------------------------------------------------
(* The consumer's invariant: the steps of its own process.                 *)

\* flush_batch() called with nothing else changed.
LEMMA FlushThenKeeps ==
    ASSUME IInv, Grows, NEW c \in Consumers, NEW k \in {"loop", "close"},
           pc[c] \in {"loop", "poll"}, FlushThen(c, k),
           UNCHANGED <<batch, message, assigned, position>>
    PROVE  ConsumerInv(c)'
<1>1. TypeOK /\ MessageValid(c)
    BY DEF IInv, ConsumerInv
<1>2. \/ batch[c] = <<>> /\ pc'[c] = k
      \/ batch[c] # <<>> /\ pc'[c] = "persist" /\ next'[c] = k
    BY <1>1 DEF FlushThen, TypeOK
<1>3. BatchValid(c)' /\ HeldIsContiguous(c)' /\ PolledBy(c)'
    BY BatchStays, HandsStay, PollingStays
<1>4. message'[c] = NoItem
    BY <1>1 DEF MessageValid, NeedsMessage
<1>5. MessageValid(c)' /\ StoredBeforeCommit(c)'
    BY <1>2, <1>4 DEF MessageValid, NeedsMessage, StoredBeforeCommit
<1> QED BY <1>3, <1>5 DEF ConsumerInv

LEMMA LoopHeadKeeps ==
    ASSUME IInv, Grows, NEW c \in Consumers, LoopHead(c)
    PROVE  ConsumerInv(c)'
<1>1. TypeOK /\ MessageValid(c) /\ pc[c] = "loop"
    BY DEF IInv, ConsumerInv, LoopHead
<1>2. UNCHANGED <<batch, message, assigned, position>>
    BY DEF LoopHead, groupVars
<1>3. CASE FlushThen(c, "close")
    BY <1>1, <1>2, <1>3, FlushThenKeeps
<1>4. CASE pc' = [pc EXCEPT ![c] = "poll"]
    <2>1. pc'[c] = "poll"
        BY <1>1, <1>4 DEF TypeOK
    <2>2. BatchValid(c)' /\ HeldIsContiguous(c)' /\ PolledBy(c)'
        BY <1>1, <1>2, BatchStays, HandsStay, PollingStays
    <2>3. message'[c] = NoItem
        BY <1>1, <1>2 DEF MessageValid, NeedsMessage
    <2> QED BY <2>1, <2>2, <2>3 DEF ConsumerInv, MessageValid, NeedsMessage, StoredBeforeCommit
<1> QED BY <1>3, <1>4 DEF LoopHead

LEMMA StartKeeps ==
    ASSUME IInv, Grows, NEW c \in Consumers, Start(c)
    PROVE  ConsumerInv(c)'
<1>1. TypeOK /\ pc[c] = "down" /\ pc'[c] = "loop"
    BY DEF IInv, Start, TypeOK
<1>2. UNCHANGED <<batch, message, assigned, position>>
    BY DEF Start
<1>3. BatchValid(c)' /\ HeldIsContiguous(c)' /\ PolledBy(c)'
    BY <1>1, <1>2, BatchStays, HandsStay, PollingStays
<1>4. message'[c] = NoItem
    BY <1>1, <1>2 DEF IInv, ConsumerInv, MessageValid, NeedsMessage
<1> QED BY <1>1, <1>3, <1>4 DEF ConsumerInv, MessageValid, NeedsMessage, StoredBeforeCommit

LEMMA RejoinKeeps ==
    ASSUME IInv, Grows, NEW c \in Consumers, Rejoin(c)
    PROVE  ConsumerInv(c)'
<1>1. TypeOK /\ pc[c] = "poll"
    BY DEF IInv, Rejoin
<1>2. pc' = pc /\ next' = next /\ batch' = batch /\ message' = message /\ assigned'[c] = {}
    BY <1>1 DEF Rejoin, localVars, TypeOK
<1>3. BatchValid(c)' /\ HeldIsContiguous(c)'
    BY <1>2, BatchStays, HandsStay
<1>4. message'[c] = NoItem
    BY <1>1, <1>2 DEF IInv, ConsumerInv, MessageValid, NeedsMessage
<1> QED BY <1>1, <1>2, <1>3, <1>4 DEF ConsumerInv, MessageValid, NeedsMessage, StoredBeforeCommit, PolledBy

\* The next offset of a polled partition, and what lies before it.
LEMMA EarlierThanNext ==
    ASSUME NEW p \in Partitions, NEW n \in Nat
    PROVE  Earlier([partition |-> p, offset |-> n + 1]) =
               Earlier([partition |-> p, offset |-> n]) \cup {[partition |-> p, offset |-> n]}
<1>1. 0..((n + 1) - 1) = 0..(n - 1) \cup {n}
    OBVIOUS
<1> QED BY <1>1 DEF Earlier

\* A polled message: it is new in the consumer's hands, and all before it is
\* durable or in the batch.
LEMMA PolledItem ==
    ASSUME IInv, NEW c \in Consumers, NEW p \in Partitions, Fetch(c, p)
    PROVE  /\ Fetched(c, p) \in Items /\ InLog(Fetched(c, p))
           /\ message[c] = NoItem
           /\ \A e \in Earlier(Fetched(c, p)) : Durable(e) \/ e \in BatchItems(c)
<1>1. TypeOK /\ MessageValid(c) /\ PolledBy(c) /\ pc[c] = "poll" /\ p \in assigned[c]
    BY DEF IInv, ConsumerInv, Fetch
<1>2. message[c] = NoItem
    BY <1>1 DEF MessageValid, NeedsMessage
<1>3. Fetched(c, p) \in Items /\ InLog(Fetched(c, p))
    BY <1>1, FetchedItem
<1>4. NoItem \notin Items
    BY ConsumerAssumption DEF Items
<1>5. ASSUME NEW e \in Earlier(Fetched(c, p)) PROVE Durable(e) \/ e \in BatchItems(c)
    <2>1. Durable(e) \/ InHand(c, e)
        BY <1>1 DEF PolledBy, Fetched
    <2>2. e \in Items
        BY <1>3, EarlierItems
    <2> QED BY <1>2, <1>4, <2>1, <2>2 DEF InHand
<1> QED BY <1>2, <1>3, <1>5

\* After a poll, everything below the new positions is durable or in hand.
LEMMA PollingGoesOn ==
    ASSUME IInv, Grows, NEW c \in Consumers, NEW p \in Partitions, Fetch(c, p),
           NEW x \in Items, x = Fetched(c, p), InHand(c, x)',
           assigned'[c] = assigned[c], BatchItems(c) \subseteq BatchItems(c)'
    PROVE  PolledBy(c)'
<1>1. TypeOK /\ PolledBy(c) /\ pc[c] = "poll" /\ message[c] = NoItem
    BY PolledItem DEF IInv, ConsumerInv, Fetch
<1>2. NoItem \notin Items
    BY ConsumerAssumption DEF Items
<1>3. ASSUME NEW q \in assigned[c],
             NEW e \in Earlier([partition |-> q, offset |-> position'[c][q]])
      PROVE  Durable(e)' \/ InHand(c, e)'
    <2>1. q \in Partitions /\ position[c][q] \in Nat
        BY <1>1 DEF TypeOK
    <2>2. position'[c][q] = IF q = p THEN position[c][q] + 1 ELSE position[c][q]
        BY <1>1, <2>1 DEF Fetch, TypeOK
    <2>3. \/ e \in Earlier([partition |-> q, offset |-> position[c][q]])
          \/ e = x
        BY <2>1, <2>2, EarlierThanNext DEF Fetched
    <2>4. CASE e = x
        BY <2>4
    <2>5. CASE e \in Earlier([partition |-> q, offset |-> position[c][q]])
        <3>1. [partition |-> q, offset |-> position[c][q]] \in Items
            BY <2>1 DEF Items
        <3>2. e \in Items
            BY <2>5, <3>1, EarlierItems
        <3>3. Durable(e) \/ e \in BatchItems(c)
            BY <1>1, <1>2, <2>5, <3>2 DEF PolledBy, InHand
        <3> QED BY <1>1, <3>2, <3>3, DurableGrows DEF InHand
    <2> QED BY <2>3, <2>4, <2>5
<1> QED BY <1>3 DEF PolledBy, Earlier

LEMMA PollValidKeeps ==
    ASSUME IInv, Grows, NEW c \in Consumers, NEW p \in Partitions, PollValid(c, p)
    PROVE  ConsumerInv(c)'
<1>1. TypeOK /\ BatchValid(c) /\ HeldIsContiguous(c) /\ Fetch(c, p)
    BY DEF IInv, ConsumerInv, PollValid
<1>2. PICK x \in Items : x = Fetched(c, p)
    BY <1>1, PolledItem
<1>3. /\ InLog(x) /\ MessageAt(x) # Malformed /\ message[c] = NoItem
      /\ \A e \in Earlier(x) : Durable(e) \/ e \in BatchItems(c)
    BY <1>1, <1>2, PolledItem DEF PollValid
<1>4. UNCHANGED <<log, message, assigned, rows, deadLetters>>
    BY DEF PollValid, brokerVars, dbVars
<1>5. BatchItems(c)' = BatchItems(c) \cup {x}
    <2> DEFINE s == batch[c]
               longer == Append(s, x)
    <2>1. batch' = [batch EXCEPT ![c] = longer]
        BY <1>2 DEF PollValid
    <2>2. s \in Seq(Items) /\ Len(s) \in Nat
        BY <1>1, LenProperties DEF TypeOK
    <2>3. /\ Len(longer) = Len(s) + 1
          /\ \A i \in 1..Len(s) : longer[i] = s[i]
          /\ longer[Len(s) + 1] = x
        BY <2>2, AppendProperties
    <2> HIDE DEF longer
    <2>4. batch'[c] = longer
        BY <1>1, <2>1 DEF TypeOK
    <2>5. 1..Len(longer) = 1..Len(s) \cup {Len(s) + 1}
        BY <2>2, <2>3
    <2> QED BY <2>3, <2>4, <2>5 DEF BatchItems
<1>6. /\ \/ pc'[c] = "persist" /\ next'[c] = "loop"
         \/ pc'[c] = "loop"
      /\ batch'[c] # <<>>
    <2>1. batch[c] \in Seq(Items)
        BY <1>1 DEF TypeOK
    <2>2. batch'[c] # <<>>
        BY <1>1, <1>2, <2>1, AppendProperties DEF PollValid, TypeOK
    <2> QED BY <1>1, <2>2 DEF PollValid, TypeOK
<1>7. BatchValid(c)'
    BY <1>1, <1>3, <1>4, <1>5 DEF BatchValid, InLog, MessageAt
<1>8. MessageValid(c)' /\ StoredBeforeCommit(c)'
    BY <1>3, <1>4, <1>6 DEF MessageValid, NeedsMessage, StoredBeforeCommit
<1>9. HeldIsContiguous(c)'
    <2>1. Held(c)' = BatchItems(c) \cup {x}
        BY <1>3, <1>4, <1>5 DEF Held
    <2>2. ASSUME NEW item \in BatchItems(c) \cup {x}, NEW e \in Earlier(item)
          PROVE  Durable(e)' \/ e \in BatchItems(c)'
        <3>1. Durable(e) \/ e \in BatchItems(c)
            BY <1>1, <1>3 DEF HeldIsContiguous, Held
        <3>2. Durable(e) => Durable(e)'
            BY <1>4 DEF Durable, MessageAt
        <3> QED BY <1>5, <3>1, <3>2
    <2> QED BY <2>1, <2>2 DEF HeldIsContiguous, Earlier
<1>10. PolledBy(c)'
    <2>1. InHand(c, x)'
        BY <1>5 DEF InHand
    <2> QED BY <1>1, <1>2, <1>4, <1>5, <2>1, PollingGoesOn
<1> QED BY <1>7, <1>8, <1>9, <1>10 DEF ConsumerInv

LEMMA PollMalformedKeeps ==
    ASSUME IInv, Grows, NEW c \in Consumers, NEW p \in Partitions, PollMalformed(c, p)
    PROVE  ConsumerInv(c)'
<1>1. TypeOK /\ BatchValid(c) /\ HeldIsContiguous(c) /\ Fetch(c, p)
    BY DEF IInv, ConsumerInv, PollMalformed
<1>2. PICK x \in Items : x = Fetched(c, p)
    BY <1>1, PolledItem
<1>3. /\ InLog(x) /\ MessageAt(x) = Malformed
      /\ \A e \in Earlier(x) : Durable(e) \/ e \in BatchItems(c)
    BY <1>1, <1>2, PolledItem DEF PollMalformed
<1>4. UNCHANGED <<log, batch, assigned, rows, deadLetters>>
    BY DEF PollMalformed, brokerVars, dbVars
<1>5. BatchItems(c)' = BatchItems(c) /\ BatchValid(c)'
    BY <1>4, BatchStays
<1>6. message'[c] = x /\ x # NoItem
    BY <1>1, <1>2, ConsumerAssumption DEF PollMalformed, TypeOK, Items
<1>7. \/ batch[c] = <<>> /\ pc'[c] = "deadLetter"
      \/ batch[c] # <<>> /\ pc'[c] = "persist" /\ next'[c] = "deadLetter"
    BY <1>1 DEF PollMalformed, FlushThen, TypeOK
<1>8. MessageValid(c)' /\ StoredBeforeCommit(c)'
    <2>1. InLog(message[c])' /\ MessageAt(message[c])' = Malformed
        BY <1>3, <1>4, <1>6 DEF InLog, MessageAt
    <2> QED BY <1>4, <1>6, <1>7, <2>1 DEF MessageValid, NeedsMessage, StoredBeforeCommit
<1>9. HeldIsContiguous(c)'
    <2>1. Held(c)' = BatchItems(c) \cup {x}
        BY <1>5, <1>6 DEF Held
    <2>2. ASSUME NEW item \in BatchItems(c) \cup {x}, NEW e \in Earlier(item)
          PROVE  Durable(e)' \/ e \in BatchItems(c)'
        <3>1. Durable(e) \/ e \in BatchItems(c)
            BY <1>1, <1>3 DEF HeldIsContiguous, Held
        <3>2. Durable(e) => Durable(e)'
            BY <1>4 DEF Durable, MessageAt
        <3> QED BY <1>5, <3>1, <3>2
    <2> QED BY <2>1, <2>2 DEF HeldIsContiguous, Earlier
<1>10. PolledBy(c)'
    <2>1. InHand(c, x)'
        BY <1>6 DEF InHand
    <2> QED BY <1>1, <1>2, <1>4, <1>5, <2>1, PollingGoesOn
<1> QED BY <1>5, <1>8, <1>9, <1>10 DEF ConsumerInv

\* The transaction makes every event of the batch durable.
LEMMA InsertedIsDurable ==
    ASSUME IInv, NEW c \in Consumers, InsertRows(c), UNCHANGED <<log, batch>>
    PROVE  \A item \in BatchItems(c) : Durable(item)'
<1> SUFFICES ASSUME NEW item \in BatchItems(c) PROVE Durable(item)'
    OBVIOUS
<1>1. InLog(item) /\ MessageAt(item) # Malformed
    BY DEF IInv, ConsumerInv, BatchValid
<1>2. MessageAt(item) \in rows'
    BY DEF InsertRows, EventsOf
<1> QED BY <1>1, <1>2 DEF Durable, InLog, MessageAt

LEMMA PersistBatchKeeps ==
    ASSUME IInv, Grows, NEW c \in Consumers, PersistBatch(c)
    PROVE  ConsumerInv(c)'
<1>1. TypeOK /\ MessageValid(c) /\ pc[c] = "persist" /\ InsertRows(c)
    BY DEF IInv, ConsumerInv, PersistBatch
<1>2. UNCHANGED <<log, batch, message, next, assigned, position>> /\ pc'[c] = "commit"
    BY <1>1 DEF PersistBatch, brokerVars, groupVars, TypeOK
<1>3. BatchItems(c)' = BatchItems(c) /\ BatchValid(c)' /\ HeldIsContiguous(c)' /\ PolledBy(c)'
    BY <1>1, <1>2, BatchStays, HandsStay, PollingStays
<1>4. message[c] # NoItem => InLog(message[c])' /\ MessageAt(message[c])' = Malformed
    BY <1>2, MessageStays
<1>5. MessageValid(c)'
    BY <1>1, <1>2, <1>4 DEF MessageValid, NeedsMessage
<1>6. StoredBeforeCommit(c)'
    BY <1>1, <1>2, <1>3, InsertedIsDurable DEF StoredBeforeCommit
<1> QED BY <1>3, <1>5, <1>6 DEF ConsumerInv

\* A failed flush or dead letter leaves the consumer closing, with nothing.
LEMMA FailureKeeps ==
    ASSUME IInv, TypeOK', NEW c \in Consumers, FlushFails(c)
    PROVE  ConsumerInv(c)'
<1>1. batch'[c] = <<>> /\ message'[c] = NoItem /\ pc'[c] = "close"
    BY DEF IInv, TypeOK, FlushFails
<1> QED BY <1>1, EmptyHands

LEMMA OutcomeLostKeeps ==
    ASSUME IInv, TypeOK', Grows, NEW c \in Consumers,
           PersistOutcomeLost(c) \/ DeadLetterOutcomeLost(c)
    PROVE  ConsumerInv(c)'
<1>1. \/ FlushFails(c)
      \/ UNCHANGED <<pc, batch, message, next, assigned, position>>
    BY Zenon DEF PersistOutcomeLost, DeadLetterOutcomeLost, groupVars
<1> QED BY <1>1, FailureKeeps, ConsumerStays

\* After a commit the batch is gone and was durable.
LEMMA CommitBatchKeeps ==
    ASSUME IInv, Grows, NEW c \in Consumers, CommitBatch(c)
    PROVE  ConsumerInv(c)'
<1>1. /\ TypeOK /\ MessageValid(c) /\ StoredBeforeCommit(c)
      /\ HeldIsContiguous(c) /\ PolledBy(c) /\ pc[c] = "commit"
    BY DEF IInv, ConsumerInv, CommitBatch
<1>2. /\ UNCHANGED <<log, message, assigned, position, rows, deadLetters>>
      /\ batch'[c] = <<>>
      /\ pc'[c] = next[c]
    BY <1>1 DEF CommitBatch, groupVars, dbVars, TypeOK
<1>3. BatchItems(c)' = {}
    <2>1. Len(batch'[c]) = 0
        BY <1>2, EmptySeq
    <2>2. 1..Len(batch'[c]) = {}
        BY <2>1
    <2> QED BY <2>2 DEF BatchItems
<1>4. \A item \in BatchItems(c) : Durable(item)
    BY <1>1 DEF StoredBeforeCommit
<1>5. message[c] # NoItem => InLog(message[c])' /\ MessageAt(message[c])' = Malformed
    BY <1>2, MessageStays
<1>6. MessageValid(c)' /\ StoredBeforeCommit(c)' /\ BatchValid(c)'
    <2>1. next[c] \in {"loop", "deadLetter", "close"}
        BY <1>1 DEF TypeOK
    <2>2. message[c] # NoItem <=> next[c] = "deadLetter"
        BY <1>1 DEF MessageValid, NeedsMessage
    <2> QED
        BY <1>2, <1>3, <1>5, <2>1, <2>2
        DEF MessageValid, NeedsMessage, StoredBeforeCommit, BatchValid
<1>7. \A e : Durable(e) => Durable(e)'
    BY <1>2 DEF Durable, MessageAt
<1>8. HeldIsContiguous(c)'
    BY <1>1, <1>2, <1>3, <1>4, <1>7 DEF HeldIsContiguous, Held, Earlier
<1>9. PolledBy(c)'
    BY <1>1, <1>2, <1>4, <1>7 DEF PolledBy, InHand, Earlier
<1> QED BY <1>6, <1>8, <1>9 DEF ConsumerInv

LEMMA PersistDeadLetterKeeps ==
    ASSUME IInv, Grows, NEW c \in Consumers, PersistDeadLetter(c)
    PROVE  ConsumerInv(c)'
<1>1. TypeOK /\ MessageValid(c) /\ pc[c] = "deadLetter" /\ InsertDeadLetter(c)
    BY DEF IInv, ConsumerInv, PersistDeadLetter
<1>2. /\ UNCHANGED <<log, batch, message, next, assigned, position>>
      /\ pc'[c] = "deadLetterCommit"
    BY <1>1 DEF PersistDeadLetter, brokerVars, groupVars, TypeOK
<1>3. BatchValid(c)' /\ HeldIsContiguous(c)' /\ PolledBy(c)'
    BY <1>1, <1>2, BatchStays, HandsStay, PollingStays
<1>4. message[c] # NoItem /\ InLog(message[c])' /\ MessageAt(message[c])' = Malformed
    BY <1>1, <1>2, MessageStays DEF MessageValid, NeedsMessage
<1>5. message[c] \in deadLetters'
    BY <1>1 DEF InsertDeadLetter
<1>6. Durable(message[c])'
    BY <1>2, <1>4, <1>5 DEF Durable, InLog
<1>7. MessageValid(c)' /\ StoredBeforeCommit(c)'
    BY <1>1, <1>2, <1>4, <1>6 DEF MessageValid, NeedsMessage, StoredBeforeCommit
<1> QED BY <1>3, <1>7 DEF ConsumerInv

LEMMA CommitDeadLetterKeeps ==
    ASSUME IInv, Grows, NEW c \in Consumers, CommitDeadLetter(c)
    PROVE  ConsumerInv(c)'
<1>1. /\ TypeOK /\ MessageValid(c) /\ StoredBeforeCommit(c) /\ HeldIsContiguous(c)
      /\ PolledBy(c) /\ pc[c] = "deadLetterCommit"
    BY DEF IInv, ConsumerInv, CommitDeadLetter
<1>2. /\ UNCHANGED <<log, batch, assigned, position, rows, deadLetters>>
      /\ message'[c] = NoItem
      /\ pc'[c] = "loop"
    BY <1>1 DEF CommitDeadLetter, groupVars, dbVars, TypeOK
<1>3. BatchItems(c)' = BatchItems(c) /\ BatchValid(c)'
    BY <1>2, BatchStays
<1>4. Durable(message[c])
    BY <1>1 DEF StoredBeforeCommit
<1>5. MessageValid(c)' /\ StoredBeforeCommit(c)'
    BY <1>2 DEF MessageValid, NeedsMessage, StoredBeforeCommit
<1>6. \A e : Durable(e) => Durable(e)'
    BY <1>2 DEF Durable, MessageAt
<1>7. HeldIsContiguous(c)'
    BY <1>1, <1>2, <1>3, <1>6 DEF HeldIsContiguous, Held, Earlier
<1>8. PolledBy(c)'
    BY <1>1, <1>2, <1>3, <1>4, <1>6 DEF PolledBy, InHand, Earlier
<1> QED BY <1>3, <1>5, <1>7, <1>8 DEF ConsumerInv

LEMMA RebalanceKeeps ==
    ASSUME IInv, Grows, Rebalance, NEW c \in Consumers
    PROVE  ConsumerInv(c)'
<1>1. TypeOK /\ CommittedIsDurable /\ ConsumerInv(c)
    BY DEF IInv
<1>2. UNCHANGED <<log, committed, pc, next, batch, message, rows, deadLetters>>
    BY DEF Rebalance, brokerVars, localVars, dbVars
<1>3. PICK owner \in [Partitions -> Joined] : Assign(owner)
    BY DEF Rebalance
<1>4. CASE c \notin Joined
    <2>1. assigned'[c] = assigned[c] /\ position'[c] = position[c]
        BY <1>1, <1>3, <1>4 DEF Assign, TypeOK
    <2> QED BY <1>2, <2>1, ConsumerStays
<1>5. CASE c \in Joined
    <2>1. pc[c] = "poll"
        BY <1>5 DEF Joined
    <2>2. BatchValid(c)' /\ HeldIsContiguous(c)'
        BY <1>2, BatchStays, HandsStay
    <2>3. message'[c] = NoItem
        BY <1>1, <1>2, <2>1 DEF ConsumerInv, MessageValid, NeedsMessage
    <2>4. MessageValid(c)' /\ StoredBeforeCommit(c)'
        BY <1>2, <2>1, <2>3 DEF MessageValid, NeedsMessage, StoredBeforeCommit
    <2>5. ASSUME NEW p \in assigned'[c] PROVE p \in Partitions /\ position'[c][p] = committed[p]
        BY <1>3, <1>5, <2>5 DEF Assign
    <2>6. ASSUME NEW p \in assigned'[c],
                 NEW e \in Earlier([partition |-> p, offset |-> position'[c][p]])
          PROVE  Durable(e)'
        <3>1. Durable(e)
            BY <1>1, <2>5 DEF CommittedIsDurable
        <3> QED BY <1>2, <3>1 DEF Durable, MessageAt
    <2>7. PolledBy(c)'
        BY <2>6 DEF PolledBy, Earlier
    <2> QED BY <2>2, <2>4, <2>7 DEF ConsumerInv
<1> QED BY <1>4, <1>5

LEMMA ProcessKeeps ==
    ASSUME IInv, TypeOK', Grows, NEW c \in Consumers, Fence(c) \/ Rejoin(c) \/ Process(c)
    PROVE  ConsumerInv(c)'
<1>1. TypeOK
    BY DEF IInv
<1>2. CASE Fence(c)
    BY <1>2, ConsumerStays DEF Fence, localVars
<1>3. CASE Rejoin(c)
    BY <1>3, RejoinKeeps
<1>4. CASE Start(c)
    BY <1>4, StartKeeps
<1>5. CASE Signal(c)
    BY <1>5, ConsumerStays DEF Signal, groupVars
<1>6. CASE Crash(c) \/ Close(c)
    <2>1. /\ batch'[c] = <<>> /\ message'[c] = NoItem
          /\ pc'[c] = "down" /\ assigned'[c] = {}
        BY <1>1, <1>6 DEF Crash, Close, Gone, TypeOK
    <2> QED BY <2>1, EmptyHands
<1>7. CASE LoopHead(c)
    BY <1>7, LoopHeadKeeps
<1>8. CASE Poll(c)
    <2>1. ASSUME NEW p \in Partitions, PollValid(c, p) PROVE ConsumerInv(c)'
        BY <2>1, PollValidKeeps
    <2>2. ASSUME NEW p \in Partitions, PollMalformed(c, p) PROVE ConsumerInv(c)'
        BY <2>2, PollMalformedKeeps
    <2>3. CASE PollNothing(c)
        BY <2>3, FlushThenKeeps DEF PollNothing, groupVars
    <2>4. CASE PollRaises(c)
        BY <2>4, FlushThenKeeps DEF PollRaises, groupVars
    <2> QED BY <1>8, <2>1, <2>2, <2>3, <2>4 DEF Poll
<1>9. CASE Flush(c)
    BY <1>9, PersistBatchKeeps, OutcomeLostKeeps, FailureKeeps, CommitBatchKeeps
    DEF Flush, PersistGivesUp, CommitBatchRaises
<1>10. CASE DeadLetter(c)
    BY <1>10, PersistDeadLetterKeeps, OutcomeLostKeeps, FailureKeeps, CommitDeadLetterKeeps
    DEF DeadLetter, DeadLetterGivesUp, CommitDeadLetterRaises
<1> QED
    BY <1>2, <1>3, <1>4, <1>5, <1>6, <1>7, <1>8, <1>9, <1>10 DEF Process

\* A process changes nothing of another.
LEMMA OthersStay ==
    ASSUME IInv, Grows, NEW c \in Consumers, Fence(c) \/ Rejoin(c) \/ Process(c),
           NEW d \in Consumers, d # c
    PROVE  ConsumerInv(d)'
<1> DEFINE Untouched ==
               /\ batch'[d] = batch[d] /\ message'[d] = message[d]
               /\ assigned'[d] = assigned[d] /\ position'[d] = position[d]
               /\ pc'[d] = pc[d] /\ next'[d] = next[d]
<1>1. TypeOK
    BY DEF IInv
<1>2. CASE Fence(c) \/ Rejoin(c)
    <2>1. Untouched
        BY <1>1, <1>2 DEF Fence, Rejoin, localVars, TypeOK
    <2> QED BY <2>1, ConsumerStays
<1>3. CASE Start(c) \/ Signal(c) \/ Crash(c) \/ Close(c) \/ LoopHead(c)
    <2>1. Untouched
        BY <1>1, <1>3
        DEF Start, Signal, Crash, Close, Gone, LoopHead, FlushThen, groupVars, TypeOK
    <2> QED BY <2>1, ConsumerStays
<1>4. CASE Poll(c)
    <2>1. Untouched
        BY <1>1, <1>4
        DEF Poll, PollValid, PollMalformed, PollNothing, PollRaises, Fetch, FlushThen,
            groupVars, TypeOK
    <2> QED BY <2>1, ConsumerStays
<1>5. CASE Flush(c)
    <2>1. Untouched
        BY <1>1, <1>5
        DEF Flush, PersistBatch, PersistOutcomeLost, PersistGivesUp, CommitBatch,
            CommitBatchRaises, FlushFails, groupVars, TypeOK
    <2> QED BY <2>1, ConsumerStays
<1>6. CASE DeadLetter(c)
    <2>1. Untouched
        BY <1>1, <1>6
        DEF DeadLetter, PersistDeadLetter, DeadLetterOutcomeLost, DeadLetterGivesUp,
            CommitDeadLetter, CommitDeadLetterRaises, FlushFails, groupVars, TypeOK
    <2> QED BY <2>1, ConsumerStays
<1> QED BY <1>2, <1>3, <1>4, <1>5, <1>6 DEF Process

----------------------------------------------------------------------------
(* Committed offsets.                                                      *)

\* Offsets that cover durable messages only.
LEMMA CoversDurable ==
    ASSUME IInv, NEW item \in Items, Durable(item),
           \A e \in Earlier(item) : Durable(e)
    PROVE  \A e \in Earlier([partition |-> item.partition, offset |-> item.offset + 1]) :
               Durable(e)
<1>1. item.partition \in Partitions /\ item.offset \in Nat
    BY DEF Items
<1>2. item = [partition |-> item.partition, offset |-> item.offset]
    BY DEF Items
<1> QED BY <1>1, <1>2, EarlierThanNext

\* Whatever commit() stores, or fails to store, of a durable batch.
LEMMA BatchOffsetsCoverDurable ==
    ASSUME IInv, NEW c \in Consumers, pc[c] = "commit",
           StoreOffsets(c, OffsetsFor(BatchItems(c)))
    PROVE  \A p \in Partitions :
               \A e \in Earlier([partition |-> p, offset |-> committed'[p]]) : Durable(e)
<1> TAKE p \in Partitions
<1>1. /\ StoredBeforeCommit(c) /\ HeldIsContiguous(c) /\ CommittedIsDurable
      /\ BatchItems(c) \subseteq Items
    BY ItemsOfBatch DEF IInv, ConsumerInv
<1>2. CASE committed'[p] = committed[p]
    BY <1>1, <1>2 DEF CommittedIsDurable
<1>3. ASSUME NEW item \in BatchItems(c),
             item.partition = p, committed'[p] = item.offset + 1
      PROVE  \A e \in Earlier([partition |-> p, offset |-> committed'[p]]) : Durable(e)
    <2>1. \A i \in BatchItems(c) : Durable(i)
        BY <1>1 DEF StoredBeforeCommit
    <2>2. \A e \in Earlier(item) : Durable(e)
        BY <1>1, <2>1 DEF HeldIsContiguous, Held
    <2> QED BY <1>1, <1>3, <2>1, <2>2, CoversDurable
<1> QED BY <1>2, <1>3, StoredOffsets

LEMMA DeadLetterOffsetCoversDurable ==
    ASSUME IInv, NEW c \in Consumers, pc[c] = "deadLetterCommit",
           StoreOffsets(c, DeadLetterOffset(c))
    PROVE  \A p \in Partitions :
               \A e \in Earlier([partition |-> p, offset |-> committed'[p]]) : Durable(e)
<1> TAKE p \in Partitions
<1>1. /\ TypeOK /\ CommittedIsDurable /\ MessageValid(c)
      /\ StoredBeforeCommit(c) /\ HeldIsContiguous(c)
    BY DEF IInv, ConsumerInv
<1>2. message[c] # NoItem /\ message[c] \in Items /\ BatchItems(c) = {}
    BY <1>1, ItemsOfBatch DEF MessageValid, NeedsMessage, TypeOK
<1>3. Durable(message[c]) /\ \A e \in Earlier(message[c]) : Durable(e)
    BY <1>1, <1>2 DEF StoredBeforeCommit, HeldIsContiguous, Held
<1>4. \/ committed'[p] = committed[p]
      \/ p = message[c].partition /\ committed'[p] = message[c].offset + 1
    BY DEF StoreOffsets, DeadLetterOffset
<1> QED BY <1>1, <1>2, <1>3, <1>4, CoversDurable DEF CommittedIsDurable

\* A step that stores offsets stores no message and the reverse, and new
\* offsets cover durable messages.
LEMMA CommitStep ==
    ASSUME IInv, Next
    PROVE  \/ UNCHANGED committed
           \/ /\ UNCHANGED <<log, rows, deadLetters>>
              /\ \A p \in Partitions :
                    \A e \in Earlier([partition |-> p, offset |-> committed'[p]]) : Durable(e)
<1>1. CASE \E p \in Partitions, m \in Messages : Publish(p, m)
    BY <1>1 DEF Publish
<1>2. CASE Rebalance
    BY <1>2 DEF Rebalance, brokerVars
<1>3. ASSUME NEW c \in Consumers, Fence(c) \/ Rejoin(c) PROVE UNCHANGED committed
    BY <1>3 DEF Fence, Rejoin, brokerVars
<1>4. ASSUME NEW c \in Consumers, Start(c) \/ Signal(c) \/ Crash(c) \/ Close(c) \/ LoopHead(c)
      PROVE  UNCHANGED committed
    BY <1>4 DEF Start, Signal, Crash, Close, Gone, LoopHead, brokerVars
<1>5. ASSUME NEW c \in Consumers, Poll(c) PROVE UNCHANGED committed
    BY <1>5 DEF Poll, PollValid, PollMalformed, PollNothing, PollRaises, brokerVars
<1>6. ASSUME NEW c \in Consumers,
             \/ PersistBatch(c) \/ PersistOutcomeLost(c) \/ PersistGivesUp(c)
             \/ PersistDeadLetter(c) \/ DeadLetterOutcomeLost(c) \/ DeadLetterGivesUp(c)
      PROVE  UNCHANGED committed
    BY <1>6
    DEF PersistBatch, PersistOutcomeLost, PersistGivesUp, PersistDeadLetter,
        DeadLetterOutcomeLost, DeadLetterGivesUp, brokerVars
<1>7. ASSUME NEW c \in Consumers, CommitBatch(c) \/ CommitBatchRaises(c)
      PROVE  \/ UNCHANGED committed
             \/ /\ UNCHANGED <<log, rows, deadLetters>>
                /\ pc[c] = "commit" /\ StoreOffsets(c, OffsetsFor(BatchItems(c)))
    BY <1>7 DEF CommitBatch, CommitBatchRaises, CommitRaises, dbVars
<1>8. ASSUME NEW c \in Consumers, CommitDeadLetter(c) \/ CommitDeadLetterRaises(c)
      PROVE  \/ UNCHANGED committed
             \/ /\ UNCHANGED <<log, rows, deadLetters>>
                /\ pc[c] = "deadLetterCommit" /\ StoreOffsets(c, DeadLetterOffset(c))
    BY <1>8 DEF CommitDeadLetter, CommitDeadLetterRaises, CommitRaises, dbVars
<1>9. ASSUME NEW c \in Consumers, Process(c)
      PROVE  \/ UNCHANGED committed
             \/ /\ UNCHANGED <<log, rows, deadLetters>>
                /\ \A p \in Partitions :
                      \A e \in Earlier([partition |-> p, offset |-> committed'[p]]) : Durable(e)
    BY <1>4, <1>5, <1>6, <1>7, <1>8, <1>9, BatchOffsetsCoverDurable,
       DeadLetterOffsetCoversDurable
    DEF Process, Flush, DeadLetter
<1> QED BY <1>1, <1>2, <1>3, <1>9 DEF Next

LEMMA CommittedStep ==
    ASSUME IInv, Grows, Next
    PROVE  CommittedIsDurable'
<1> SUFFICES ASSUME NEW p \in Partitions,
                    NEW e \in Earlier([partition |-> p, offset |-> committed'[p]])
             PROVE  Durable(e)'
    BY DEF CommittedIsDurable, Earlier
<1>1. TypeOK /\ CommittedIsDurable
    BY DEF IInv
<1>2. CASE UNCHANGED committed
    <2>1. Durable(e)
        BY <1>1, <1>2 DEF CommittedIsDurable
    <2>2. [partition |-> p, offset |-> committed[p]] \in Items
        BY <1>1 DEF TypeOK, Items
    <2>3. e \in Items
        BY <1>2, <2>2, EarlierItems
    <2> QED BY <1>1, <2>1, <2>3, DurableGrows
<1>3. CASE UNCHANGED <<log, rows, deadLetters>> /\ Durable(e)
    BY <1>3 DEF Durable, MessageAt
<1> QED BY <1>2, <1>3, CommitStep

----------------------------------------------------------------------------
(* The theorems.                                                           *)

LEMMA InvInit == Init => IInv
<1> SUFFICES ASSUME Init PROVE IInv
    OBVIOUS
<1>1. TypeOK
    BY TypeInit
<1>2. CommittedIsDurable
    <2>1. \A p \in Partitions : Earlier([partition |-> p, offset |-> 0]) = {}
        BY DEF Earlier
    <2> QED BY <2>1 DEF Init, CommittedIsDurable
<1>3. ASSUME NEW c \in Consumers PROVE ConsumerInv(c)
    <2>1. /\ batch[c] = <<>> /\ message[c] = NoItem
          /\ pc[c] = "down" /\ assigned[c] = {}
        BY DEF Init
    <2>2. BatchItems(c) = {}
        BY <1>1, <2>1, ItemsOfBatch
    <2>3. Held(c) = {}
        BY <2>1, <2>2 DEF Held
    <2> QED
        BY <2>1, <2>2, <2>3
        DEF ConsumerInv, BatchValid, MessageValid, NeedsMessage, StoredBeforeCommit,
            HeldIsContiguous, PolledBy
<1> QED BY <1>1, <1>2, <1>3 DEF IInv

LEMMA InvStep == IInv /\ [Next]_vars => IInv'
<1> SUFFICES ASSUME IInv, [Next]_vars PROVE IInv'
    OBVIOUS
<1>1. CASE Next
    <2>1. TypeOK' /\ Grows
        BY <1>1, TypeStep, NextGrows DEF IInv
    <2>2. CommittedIsDurable'
        BY <1>1, <2>1, CommittedStep
    <2>3. ASSUME NEW c \in Consumers PROVE ConsumerInv(c)'
        <3>1. CASE \E p \in Partitions, m \in Messages : Publish(p, m)
            BY <2>1, <3>1, ConsumerStays DEF Publish, groupVars, localVars
        <3>2. CASE Rebalance
            BY <2>1, <3>2, RebalanceKeeps
        <3>3. CASE \E d \in Consumers : Fence(d) \/ Rejoin(d) \/ Process(d)
            BY <2>1, <3>3, ProcessKeeps, OthersStay
        <3> QED BY <1>1, <3>1, <3>2, <3>3 DEF Next
    <2> QED BY <2>1, <2>2, <2>3 DEF IInv
<1>2. CASE UNCHANGED vars
    <2>1. UNCHANGED <<brokerVars, groupVars, localVars, dbVars, faults>>
        BY <1>2 DEF vars
    <2>2. TypeOK'
        BY <2>1 DEF IInv, TypeOK, brokerVars, groupVars, localVars, dbVars
    <2>3. \A item : Durable(item) => Durable(item)'
        BY <2>1 DEF Durable, MessageAt, brokerVars, dbVars
    <2>4. CommittedIsDurable'
        BY <2>1, <2>3 DEF IInv, CommittedIsDurable, Earlier, brokerVars
    <2>5. Grows
        BY <2>1, LenProperties DEF IInv, TypeOK, Grows, brokerVars, dbVars
    <2>6. ASSUME NEW c \in Consumers PROVE ConsumerInv(c)'
        BY <2>1, <2>5, ConsumerStays DEF groupVars, localVars
    <2> QED BY <2>2, <2>4, <2>6 DEF IInv
<1> QED BY <1>1, <1>2

THEOREM InvariantHolds == Spec => []IInv
BY InvInit, InvStep, PTL DEF Spec

\* Every variable keeps its type.
THEOREM TypeCorrect == Spec => []TypeOK
<1>1. IInv => TypeOK
    BY DEF IInv
<1> QED BY <1>1, InvariantHolds, PTL

\* No offset is committed before what it covers is durable: consume_to_postgres
\* loses no message, for any group size, batch size and number of faults.
THEOREM CommitsAreSafe == Spec => []CommittedIsDurable
<1>1. IInv => CommittedIsDurable
    BY DEF IInv
<1> QED BY <1>1, InvariantHolds, PTL

\* The consumer passes over no message it polled.
THEOREM PollsAreSafe == Spec => []PolledIsDurableOrInHand
<1>1. IInv => PolledIsDurableOrInHand
    BY DEF IInv, ConsumerInv, PolledBy, PolledIsDurableOrInHand
<1> QED BY <1>1, InvariantHolds, PTL

----------------------------------------------------------------------------
(* The metrics.  Their totals are right because a replay or a lost outcome *)
(* finds its rows in the table, in the transaction that counts them.       *)

MetricsInv ==
    /\ IsFiniteSet(rows) /\ IsFiniteSet(deadLetters)
    /\ MetricsAgreeWithTables

LEMMA NewAreCounted ==
    ASSUME NEW S, NEW T, IsFiniteSet(S), IsFiniteSet(T)
    PROVE  /\ IsFiniteSet(S \cup (T \ S))
           /\ Cardinality(S \cup (T \ S)) = Cardinality(S) + Cardinality(T \ S)
<1>1. IsFiniteSet(T \ S)
    BY FS_Subset
<1>2. Cardinality(S \cap (T \ S)) = 0
    <2>1. S \cap (T \ S) = {}
        OBVIOUS
    <2> QED BY <2>1, FS_EmptySet, Zenon
<1>3. Cardinality(S) \in Nat /\ Cardinality(T \ S) \in Nat
    BY <1>1, FS_CardinalityType
<1>4. /\ IsFiniteSet(S \cup (T \ S))
      /\ Cardinality(S \cup (T \ S)) =
             Cardinality(S) + Cardinality(T \ S) - Cardinality(S \cap (T \ S))
    BY <1>1, FS_Union
<1> QED BY <1>2, <1>3, <1>4

\* The tables and the totals change in the two transactions only.
LEMMA TablesChange ==
    ASSUME [Next]_vars
    PROVE  \/ UNCHANGED dbVars
           \/ \E c \in Consumers : InsertRows(c) \/ InsertDeadLetter(c)
<1>1. CASE UNCHANGED vars
    BY <1>1 DEF vars
<1>2. CASE Rebalance \/ \E p \in Partitions, m \in Messages : Publish(p, m)
    BY <1>2 DEF Publish, Rebalance
<1>3. ASSUME NEW c \in Consumers,
             \/ Fence(c) \/ Rejoin(c) \/ Start(c) \/ Signal(c) \/ Crash(c) \/ Close(c)
             \/ LoopHead(c) \/ Poll(c)
      PROVE  UNCHANGED dbVars
    BY <1>3 DEF Fence, Rejoin, Start, Signal, Crash, Close, Gone, LoopHead, Poll, PollValid,
       PollMalformed, PollNothing, PollRaises
<1>4. ASSUME NEW c \in Consumers, Flush(c)
      PROVE  InsertRows(c) \/ UNCHANGED dbVars
    BY <1>4 DEF Flush, PersistBatch, PersistOutcomeLost, PersistGivesUp, CommitBatch,
       CommitBatchRaises
<1>5. ASSUME NEW c \in Consumers, DeadLetter(c)
      PROVE  InsertDeadLetter(c) \/ UNCHANGED dbVars
    BY <1>5 DEF DeadLetter, PersistDeadLetter, DeadLetterOutcomeLost, DeadLetterGivesUp,
       CommitDeadLetter, CommitDeadLetterRaises
<1> QED BY <1>1, <1>2, <1>3, <1>4, <1>5 DEF Next, Process

LEMMA MetricsStep == IInv /\ MetricsInv /\ [Next]_vars => MetricsInv'
<1> SUFFICES ASSUME IInv, MetricsInv, [Next]_vars PROVE MetricsInv'
    OBVIOUS
<1>1. CASE UNCHANGED dbVars
    BY <1>1 DEF MetricsInv, MetricsAgreeWithTables, dbVars
<1>2. ASSUME NEW c \in Consumers, InsertRows(c) PROVE MetricsInv'
    <2> DEFINE E == EventsOf(BatchItems(c))
    <2>1. IsFiniteSet(E)
        BY EventsOfBatch DEF IInv, ConsumerInv
    <2>2. /\ rows' = rows \cup (E \ rows) /\ deadLetters' = deadLetters
          /\ metrics' = [metrics EXCEPT !.persisted = @ + Cardinality(E \ rows)]
        BY <1>2 DEF InsertRows, CountMetric
    <2> HIDE DEF E
    <2>3. IsFiniteSet(rows') /\ Cardinality(rows') = Cardinality(rows) + Cardinality(E \ rows)
        BY <2>1, <2>2, NewAreCounted DEF MetricsInv
    <2>4. metrics \in [persisted : Nat, dead : Nat]
        BY DEF IInv, TypeOK
    <2> QED BY <2>2, <2>3, <2>4 DEF MetricsInv, MetricsAgreeWithTables
<1>3. ASSUME NEW c \in Consumers, InsertDeadLetter(c) PROVE MetricsInv'
    <2> DEFINE D == {message[c]}
    <2>1. IsFiniteSet(D)
        BY FS_Singleton
    <2>2. /\ deadLetters' = deadLetters \cup (D \ deadLetters) /\ rows' = rows
          /\ metrics' = [metrics EXCEPT !.dead = @ + Cardinality(D \ deadLetters)]
        BY <1>3 DEF InsertDeadLetter, CountMetric
    <2> HIDE DEF D
    <2>3. /\ IsFiniteSet(deadLetters')
          /\ Cardinality(deadLetters') = Cardinality(deadLetters) + Cardinality(D \ deadLetters)
        BY <2>1, <2>2, NewAreCounted DEF MetricsInv
    <2>4. metrics \in [persisted : Nat, dead : Nat]
        BY DEF IInv, TypeOK
    <2> QED BY <2>2, <2>3, <2>4 DEF MetricsInv, MetricsAgreeWithTables
<1> QED BY <1>1, <1>2, <1>3, TablesChange

\* Every row and every dead letter is counted once, whatever is replayed.
THEOREM MetricsAreExact == Spec => []MetricsAgreeWithTables
<1>1. Init => MetricsInv
    BY FS_EmptySet DEF Init, MetricsInv, MetricsAgreeWithTables
<1>2. MetricsInv => MetricsAgreeWithTables
    BY DEF MetricsInv
<1> QED BY <1>1, <1>2, MetricsStep, InvariantHolds, PTL DEF Spec

----------------------------------------------------------------------------
(* --max-messages.  A process polls only below its limit, so that the      *)
(* message it then has in hand is the last one allowed.                    *)

InHandCount(c) == IF message[c] = NoItem THEN 0 ELSE 1

WithinLimit(c) ==
    Limited(c) =>
        /\ done[c] + Len(batch[c]) + InHandCount(c) <= MaxMessages[c]
        /\ pc[c] = "poll" => done[c] + Len(batch[c]) < MaxMessages[c]

LimitInv == \A c \in Consumers : WithinLimit(c)

\* What a step has to leave alone, or to empty, for the limit to stay kept.
LEMMA LimitStays ==
    ASSUME IInv, NEW c \in Consumers, WithinLimit(c),
           done'[c] = done[c],
           batch'[c] = batch[c] \/ batch'[c] = <<>>,
           message'[c] = message[c] \/ message'[c] = NoItem,
           pc'[c] = "poll" => pc[c] = "poll" /\ batch'[c] = batch[c]
    PROVE  WithinLimit(c)'
<1>1. /\ Len(batch[c]) \in Nat /\ Len(<<>>) = 0 /\ done[c] \in Nat
    BY LenProperties, EmptySeq DEF IInv, TypeOK
<1>2. Limited(c) => MaxMessages[c] \in Nat
    BY ConsumerAssumption DEF Limited
<1>3. Len(batch'[c]) \in Nat /\ Len(batch'[c]) <= Len(batch[c])
    BY <1>1
<1>4. InHandCount(c)' \in {0, 1} /\ InHandCount(c) \in {0, 1} /\ InHandCount(c)' <= InHandCount(c)
    BY DEF InHandCount
<1>5. Limited(c)' = Limited(c)
    BY DEF Limited
<1> QED BY <1>1, <1>2, <1>3, <1>4, <1>5 DEF WithinLimit

LEMMA LimitStep ==
    ASSUME IInv, NEW c \in Consumers, WithinLimit(c), [Next]_vars
    PROVE  WithinLimit(c)'
<1>t. TypeOK
    BY DEF IInv
<1>n. Len(batch[c]) \in Nat /\ done[c] \in Nat /\ (Limited(c) => MaxMessages[c] \in Nat)
    BY ConsumerAssumption, LenProperties DEF IInv, TypeOK, Limited
<1>m. message[c] # NoItem <=> NeedsMessage(c)
    BY DEF IInv, ConsumerInv, MessageValid
<1>1. ASSUME NEW d \in Consumers, Fence(d) \/ Rejoin(d) \/ Process(d), d # c
      PROVE  WithinLimit(c)'
    <2> DEFINE Untouched ==
                   /\ batch'[c] = batch[c] /\ message'[c] = message[c]
                   /\ pc'[c] = pc[c] /\ done'[c] = done[c]
    <2>1. CASE Fence(d) \/ Rejoin(d) \/ Start(d) \/ Signal(d) \/ Crash(d) \/ Close(d)
        <3>1. Untouched
            BY <1>t, <1>1, <2>1
            DEF Fence, Rejoin, Start, Signal, Crash, Close, Gone, localVars, TypeOK
        <3> QED BY <3>1, LimitStays
    <2>2. CASE LoopHead(d) \/ Poll(d)
        <3>1. Untouched
            BY <1>t, <1>1, <2>2
            DEF LoopHead, Poll, PollValid, PollMalformed, PollNothing, PollRaises, FlushThen,
                TypeOK
        <3> QED BY <3>1, LimitStays
    <2>3. CASE Flush(d)
        <3>1. Untouched
            BY <1>t, <1>1, <2>3
            DEF Flush, PersistBatch, PersistOutcomeLost, PersistGivesUp, CommitBatch,
                CommitBatchRaises, FlushFails, TypeOK
        <3> QED BY <3>1, LimitStays
    <2>4. CASE DeadLetter(d)
        <3>1. Untouched
            BY <1>t, <1>1, <2>4
            DEF DeadLetter, PersistDeadLetter, DeadLetterOutcomeLost, DeadLetterGivesUp,
                CommitDeadLetter, CommitDeadLetterRaises, FlushFails, TypeOK
        <3> QED BY <3>1, LimitStays
    <2> QED BY <1>1, <2>1, <2>2, <2>3, <2>4 DEF Process
<1>2. CASE Fence(c) \/ Rejoin(c) \/ Start(c) \/ Signal(c)
    BY <1>t, <1>2, LimitStays DEF Fence, Rejoin, Start, Signal, localVars, TypeOK
<1>3. CASE Crash(c) \/ Close(c)
    <2>1. /\ done'[c] = 0 /\ Len(batch'[c]) = 0 /\ message'[c] = NoItem /\ pc'[c] = "down"
        BY <1>t, <1>3, EmptySeq DEF Crash, Close, Gone, TypeOK
    <2> QED BY <1>n, <2>1 DEF WithinLimit, InHandCount, Limited
<1>4. CASE LoopHead(c)
    <2>1. CASE pc'[c] = "poll"
        <3>1. pc[c] = "loop" /\ ~LimitReached(c) /\ UNCHANGED <<batch, message, done>>
            BY <1>t, <1>4, <2>1 DEF LoopHead, FlushThen, TypeOK
        <3>2. message[c] = NoItem
            BY <1>m, <3>1 DEF NeedsMessage
        <3> QED BY <1>n, <3>1, <3>2 DEF WithinLimit, InHandCount, LimitReached, Limited
    <2>2. CASE pc'[c] # "poll"
        BY <1>4, <2>2, LimitStays DEF LoopHead
    <2> QED BY <2>1, <2>2
<1>5. ASSUME NEW p \in Partitions, PollValid(c, p) PROVE WithinLimit(c)'
    <2>1. Fetched(c, p) \in Items
        BY <1>t, <1>5, FetchedItem DEF PollValid
    <2>2. Len(batch'[c]) = Len(batch[c]) + 1
        BY <1>t, <1>5, <2>1, AppendProperties DEF PollValid, TypeOK
    <2>3. /\ pc[c] = "poll" /\ pc'[c] # "poll" /\ UNCHANGED <<message, done>>
        BY <1>t, <1>5 DEF PollValid, Fetch, TypeOK
    <2>4. message[c] = NoItem
        BY <1>m, <2>3 DEF NeedsMessage
    <2> QED BY <1>n, <2>2, <2>3, <2>4 DEF WithinLimit, InHandCount, Limited
<1>6. ASSUME NEW p \in Partitions, PollMalformed(c, p) PROVE WithinLimit(c)'
    <2>1. /\ pc[c] = "poll" /\ pc'[c] # "poll" /\ UNCHANGED <<batch, done>>
        BY <1>t, <1>6 DEF PollMalformed, Fetch, FlushThen, TypeOK
    <2> QED BY <1>n, <2>1 DEF WithinLimit, InHandCount, Limited
<1>7. CASE PollNothing(c) \/ PollRaises(c)
    BY <1>t, <1>7, LimitStays DEF PollNothing, PollRaises, FlushThen, TypeOK
<1>8. CASE PersistBatch(c) \/ PersistOutcomeLost(c) \/ PersistGivesUp(c) \/ CommitBatchRaises(c)
    BY <1>t, <1>8, LimitStays
    DEF PersistBatch, PersistOutcomeLost, PersistGivesUp, CommitBatchRaises, FlushFails, TypeOK
<1>9. CASE CommitBatch(c)
    <2>1. /\ done'[c] = done[c] + Len(batch[c]) /\ Len(batch'[c]) = 0
          /\ pc'[c] # "poll" /\ UNCHANGED message
        BY <1>t, <1>9, EmptySeq DEF CommitBatch, TypeOK
    <2> QED BY <1>n, <2>1 DEF WithinLimit, InHandCount, Limited
<1>10. CASE PersistDeadLetter(c) \/ DeadLetterOutcomeLost(c) \/ DeadLetterGivesUp(c)
            \/ CommitDeadLetterRaises(c)
    BY <1>t, <1>10, LimitStays
    DEF PersistDeadLetter, DeadLetterOutcomeLost, DeadLetterGivesUp, CommitDeadLetterRaises,
        FlushFails, TypeOK
<1>11. CASE CommitDeadLetter(c)
    <2>1. /\ done'[c] = done[c] + 1 /\ message'[c] = NoItem /\ pc'[c] # "poll"
          /\ UNCHANGED batch
        BY <1>t, <1>11 DEF CommitDeadLetter, TypeOK
    <2>2. message[c] # NoItem
        BY <1>m, <1>11 DEF CommitDeadLetter, NeedsMessage
    <2> QED BY <1>n, <2>1, <2>2 DEF WithinLimit, InHandCount, Limited
<1>12. CASE UNCHANGED localVars
    BY <1>12, LimitStays DEF localVars
<1>13. CASE Process(c)
    BY <1>2, <1>3, <1>4, <1>5, <1>6, <1>7, <1>8, <1>9, <1>10, <1>11, <1>13
    DEF Process, Poll, Flush, DeadLetter
<1> QED
    BY <1>1, <1>2, <1>12, <1>13 DEF Next, Publish, Rebalance, vars

\* --max-messages is never exceeded.
THEOREM LimitsAreRespected == Spec => []LimitRespected
<1>1. Init => LimitInv
    <2> SUFFICES ASSUME Init, NEW c \in Consumers PROVE WithinLimit(c)
        BY DEF LimitInv
    <2>1. done[c] = 0 /\ Len(batch[c]) = 0 /\ message[c] = NoItem /\ pc[c] = "down"
        BY EmptySeq DEF Init
    <2> QED BY <2>1, ConsumerAssumption DEF WithinLimit, InHandCount, Limited
<1>2. IInv /\ LimitInv /\ [Next]_vars => LimitInv'
    BY LimitStep DEF LimitInv
<1>3. LimitInv => LimitRespected
    BY DEF LimitInv, WithinLimit, InHandCount, LimitRespected
<1> QED BY <1>1, <1>2, <1>3, InvariantHolds, PTL DEF Spec

----------------------------------------------------------------------------
(* The consumer implements EventSink.                                      *)

SinkLength == [p \in Partitions |-> Len(log[p])]

LEMMA DurableItemsAre ==
    ASSUME TypeOK
    PROVE  DurableItems = {item \in Items : Durable(item)}
<1>1. ASSUME NEW item \in DurableItems PROVE item \in Items /\ Durable(item)
    <2>1. PICK p \in Partitions : item \in Earlier([partition |-> p, offset |-> Len(log[p])])
        BY DEF DurableItems
    <2>2. [partition |-> p, offset |-> Len(log[p])] \in Items
        BY LenProperties DEF TypeOK, Items
    <2> QED BY <2>1, <2>2, EarlierItems DEF DurableItems
<1>2. ASSUME NEW item \in Items, Durable(item) PROVE item \in DurableItems
    <2>1. item.partition \in Partitions /\ item.offset \in Nat
        BY DEF Items
    <2>2. Len(log[item.partition]) \in Nat
        BY <2>1, LenProperties DEF TypeOK
    <2>3. item.offset \in 0..(Len(log[item.partition]) - 1)
        BY <1>2, <2>1, <2>2 DEF Durable
    <2>4. item = [partition |-> item.partition, offset |-> item.offset]
        BY DEF Items
    <2>5. item \in Earlier([partition |-> item.partition, offset |-> Len(log[item.partition])])
        BY <2>3, <2>4 DEF Earlier
    <2> QED BY <1>2, <2>1, <2>5 DEF DurableItems
<1> QED BY <1>1, <1>2

\* The same in the next state.
LEMMA NextDurableItemsAre ==
    ASSUME TypeOK'
    PROVE  DurableItems' = {item \in Items : Durable(item)'}
<1>1. ASSUME NEW item \in DurableItems' PROVE item \in Items /\ Durable(item)'
    <2>1. PICK p \in Partitions : item \in Earlier([partition |-> p, offset |-> Len(log'[p])])
        BY DEF DurableItems, Earlier
    <2>2. [partition |-> p, offset |-> Len(log'[p])] \in Items
        BY LenProperties DEF TypeOK, Items
    <2> QED BY <2>1, <2>2, EarlierItems DEF DurableItems
<1>2. ASSUME NEW item \in Items, Durable(item)' PROVE item \in DurableItems'
    <2>1. item.partition \in Partitions /\ item.offset \in Nat
        BY DEF Items
    <2>2. Len(log'[item.partition]) \in Nat
        BY <2>1, LenProperties DEF TypeOK
    <2>3. item.offset \in 0..(Len(log'[item.partition]) - 1)
        BY <1>2, <2>1, <2>2 DEF Durable
    <2>4. item = [partition |-> item.partition, offset |-> item.offset]
        BY DEF Items
    <2> QED BY <1>2, <2>1, <2>3, <2>4 DEF DurableItems, Earlier
<1> QED BY <1>1, <1>2

\* Below of EventSink is Earlier here.
LEMMA SinkBelow ==
    ASSUME NEW p, NEW n
    PROVE  Sink!Below(p, n) = Earlier([partition |-> p, offset |-> n])
BY DEF Sink!Below, Earlier

LEMMA SinkPublished ==
    DurableItems \subseteq Sink!Published(SinkLength)
BY SinkBelow DEF DurableItems, Sink!Published, SinkLength

LEMMA SinkStep ==
    ASSUME IInv, Next
    PROVE  Sink!Next \/ UNCHANGED Sink!vars
<1>1. TypeOK /\ TypeOK' /\ Grows
    BY TypeStep, NextGrows DEF IInv
<1>0. /\ DurableItems = {item \in Items : Durable(item)}
       /\ DurableItems' = {item \in Items : Durable(item)'}
    BY <1>1, DurableItemsAre, NextDurableItemsAre
<1>2. DurableItems \subseteq DurableItems'
    BY <1>1, <1>0, DurableGrows
<1>3. CASE \E p \in Partitions, m \in Messages : Publish(p, m)
    <2>1. PICK p \in Partitions, m \in Messages : Publish(p, m)
        BY <1>3
    <2> DEFINE s == log[p]
               longer == Append(s, m)
    <2>2. log' = [log EXCEPT ![p] = longer] /\ UNCHANGED <<committed, rows, deadLetters>>
        BY <2>1 DEF Publish, dbVars
    <2>3. s \in Seq(Messages) /\ Len(s) \in Nat
        BY <1>1, LenProperties DEF TypeOK
    <2>4. /\ Len(longer) = Len(s) + 1
          /\ \A i \in 1..Len(s) : longer[i] = s[i]
        BY <2>3, AppendProperties
    <2> HIDE DEF longer
    <2>5. \A q \in Partitions : log'[q] = IF q = p THEN longer ELSE log[q]
        BY <1>1, <2>2 DEF TypeOK
    <2>6. SinkLength' = [SinkLength EXCEPT ![p] = @ + 1]
        BY <2>4, <2>5 DEF SinkLength
    <2>7. ASSUME NEW item \in Items, Durable(item)', item # [partition |-> p, offset |-> Len(s)]
          PROVE  Durable(item)
        <3>1. item.partition \in Partitions /\ item.offset \in Nat
            BY DEF Items
        <3>2. item.offset < Len(log'[item.partition])
            BY <2>7 DEF Durable
        <3>3. item.partition = p => item.offset # Len(s)
            BY <2>7 DEF Items
        <3>4. Len(log[item.partition]) \in Nat
            BY <1>1, <3>1, LenProperties DEF TypeOK
        <3>5. item.offset < Len(log[item.partition])
            <4>1. CASE item.partition = p
                BY <2>3, <2>4, <2>5, <3>1, <3>2, <3>3, <4>1
            <4>2. CASE item.partition # p
                BY <2>5, <3>1, <3>2, <4>2
            <4> QED BY <4>1, <4>2
        <3>6. MessageAt(item)' = MessageAt(item)
            BY <1>1, <3>5, StaysDurable DEF InLog
        <3> QED BY <2>2, <2>7, <3>5, <3>6 DEF Durable
    <2>8. DurableItems' \subseteq DurableItems \cup {[partition |-> p, offset |-> Len(s)]}
        BY <1>1, <1>0, <2>7
    <2>9. SinkLength[p] = Len(s)
        BY DEF SinkLength
    <2> QED BY <1>2, <2>2, <2>6, <2>8, <2>9 DEF Sink!Next, Sink!Publish, SinkLength
<1>4. CASE UNCHANGED <<log, committed>>
    <2>1. SinkLength' = SinkLength
        BY <1>4 DEF SinkLength
    <2>2. DurableItems' \subseteq Sink!Published(SinkLength)
        BY <1>4, <2>1, SinkBelow DEF DurableItems, Earlier, Sink!Published, SinkLength
    <2> QED BY <1>2, <1>4, <2>1, <2>2 DEF Sink!Next, Sink!Store, SinkLength
<1>5. CASE /\ UNCHANGED <<log, rows, deadLetters>>
           /\ \A p \in Partitions :
                 \A e \in Earlier([partition |-> p, offset |-> committed'[p]]) : Durable(e)
    <2>1. SinkLength' = SinkLength /\ DurableItems' = DurableItems
        BY <1>5 DEF SinkLength, DurableItems, Durable, MessageAt, Earlier
    <2>2. committed' \in [Partitions -> Nat]
        BY <1>1 DEF TypeOK
    <2>3. ASSUME NEW p \in Partitions PROVE Sink!Below(p, committed'[p]) \subseteq DurableItems
        <3>1. [partition |-> p, offset |-> committed'[p]] \in Items
            BY <2>2 DEF Items
        <3>2. Earlier([partition |-> p, offset |-> committed'[p]]) \subseteq Items
            BY <3>1, EarlierItems
        <3> QED BY <1>1, <1>5, <3>2, SinkBelow, DurableItemsAre
    <2> QED BY <2>1, <2>2, <2>3 DEF Sink!Next, Sink!Acknowledge, SinkLength
<1>6. UNCHANGED log \/ \E p \in Partitions, m \in Messages : Publish(p, m)
    BY DEF Next, Rebalance, Fence, Rejoin, Process, Start, Signal, Crash, Close, Gone, LoopHead,
           Poll, PollValid, PollMalformed, PollNothing, PollRaises, Flush, PersistBatch,
           PersistOutcomeLost, PersistGivesUp, CommitBatch, CommitBatchRaises, DeadLetter,
           PersistDeadLetter, DeadLetterOutcomeLost, DeadLetterGivesUp, CommitDeadLetter,
           CommitDeadLetterRaises, brokerVars
<1> QED BY <1>3, <1>4, <1>5, <1>6, CommitStep

\* The consumer implements the at-least-once sink the README promises.
THEOREM ImplementsSink == Spec => SinkSpec
<1>1. Init => Sink!Init
    <2> SUFFICES ASSUME Init PROVE Sink!Init
        OBVIOUS
    <2>1. \A p \in Partitions : Len(log[p]) = 0
        BY EmptySeq DEF Init
    <2>2. SinkLength = [p \in Partitions |-> 0]
        BY <2>1 DEF SinkLength
    <2>3. DurableItems = {}
        BY <2>1 DEF DurableItems, Earlier
    <2> QED BY <2>2, <2>3 DEF Init, Sink!Init, SinkLength
<1>2. IInv /\ [Next]_vars => [Sink!Next]_(Sink!vars)
    <2> SUFFICES ASSUME IInv, [Next]_vars PROVE Sink!Next \/ UNCHANGED Sink!vars
        OBVIOUS
    <2>1. CASE Next
        BY <2>1, SinkStep
    <2>2. CASE UNCHANGED vars
        BY <2>2
        DEF vars, brokerVars, dbVars, Sink!vars, DurableItems, Durable, MessageAt, Earlier
    <2> QED BY <2>1, <2>2
<1> QED BY <1>1, <1>2, InvariantHolds, PTL DEF Spec, SinkSpec, Sink!Spec

\* What the sink promises: whatever is below an acknowledged offset is stored.
AckedIsStored == \A p \in Partitions : Sink!Below(p, committed[p]) \subseteq DurableItems

\* EventSink is strong enough to promise it: anything that implements it, and
\* not only this consumer, acknowledges stored messages only, since what is
\* stored stays and each acknowledgement looks at all that is below it.
THEOREM SinkKeepsItsPromise == SinkSpec => []AckedIsStored
<1>1. Sink!Init => AckedIsStored
    <2> SUFFICES ASSUME Sink!Init, NEW p \in Partitions
                 PROVE  Sink!Below(p, committed[p]) \subseteq DurableItems
        BY DEF AckedIsStored
    <2>1. committed[p] = 0
        BY DEF Sink!Init
    <2> QED BY <2>1 DEF Sink!Below
<1>2. ASSUME AckedIsStored, [Sink!Next]_(Sink!vars) PROVE AckedIsStored'
    <2>1. CASE /\ UNCHANGED committed
               /\ DurableItems \subseteq DurableItems'
        BY <1>2, <2>1 DEF AckedIsStored, Sink!Below
    <2>2. CASE Sink!Acknowledge
        <3> SUFFICES ASSUME NEW p \in Partitions
                     PROVE  Sink!Below(p, committed'[p]) \subseteq DurableItems'
            BY DEF AckedIsStored, Sink!Below
        <3>1. DurableItems' = DurableItems
            BY <2>2 DEF Sink!Acknowledge
        <3>2. CASE committed'[p] = committed[p]
            BY <1>2, <3>1, <3>2 DEF AckedIsStored
        <3>3. CASE committed'[p] # committed[p]
            BY <2>2, <3>1, <3>3 DEF Sink!Acknowledge
        <3> QED BY <3>2, <3>3
    <2> QED
        BY <1>2, <2>1, <2>2 DEF Sink!Next, Sink!Publish, Sink!Store, Sink!vars
<1> QED BY <1>1, <1>2, PTL DEF SinkSpec, Sink!Spec

============================================================================
