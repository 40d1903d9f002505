------------------------- MODULE FeedProducerProofs -------------------------
(***************************************************************************)
(* Proofs about FeedProducer, for every feed, every retry delay and any    *)
(* number of faults.                                                       *)
(***************************************************************************)
EXTENDS FeedProducer, TLAPS

(***************************************************************************)
(* The inductive invariant.  That a recorded ingestion is published rests  *)
(* on what the cycle knows at each of its steps.                           *)
(***************************************************************************)

\* The payload of the snapshot the cycle publishes is saved.
CurrentIsSaved == pc \in {"produce", "flush", "record"} => current \in raw

\* While flush() waits, an event of the snapshot that no callback of this call
\* reported as an error is in the topic or still queued by this call.  Those
\* that earlier calls queued do not count: their errors are not seen.
CurrentIsQueued ==
    pc = "flush" /\ ~failed =>
        \A e \in EventsIn[current] : e \in topic \/ [event |-> e, late |-> FALSE] \in queue

\* After flush() they are in the topic.
CurrentIsPublished == pc = "record" => EventsIn[current] \subseteq topic

IInv ==
    /\ TypeOK
    /\ CurrentIsSaved
    /\ CurrentIsQueued
    /\ CurrentIsPublished
    /\ RecordedIsPublished

----------------------------------------------------------------------------
(* Lemmas.                                                                 *)

\* Min of FiniteSetsExt, of two numbers.
LEMMA MinOfTwo ==
    ASSUME NEW a \in Int, NEW b \in Int
    PROVE  Min({a, b}) = IF a <= b THEN a ELSE b
<1>1. CASE a <= b
    BY <1>1 DEF Min
<1>2. CASE ~(a <= b)
    BY <1>2 DEF Min
<1> QED BY <1>1, <1>2

\* The events of a snapshot are events.
LEMMA EventsOfSnapshot == ASSUME NEW s \in Snapshots PROVE EventsIn[s] \subseteq Events
BY DEF Events

\* The values a process starts with.
LEMMA FirstValues ==
    1 \in Snapshots /\ InitialDelay \in InitialDelay..MaxDelay /\ 0 \in 0..MaxFailures
<1>1. 1 \in Snapshots
    BY ProducerAssumption
<1>2. InitialDelay \in InitialDelay..MaxDelay
    BY ProducerAssumption
<1>3. 0 \in 0..MaxFailures
    BY ProducerAssumption
<1> QED BY <1>1, <1>2, <1>3

\* Initially nothing is recorded, queued or saved.
LEMMA InitEstablishesIInv == Init => IInv
<1> SUFFICES ASSUME Init PROVE IInv
    OBVIOUS
<1>1. TypeOK
    BY FirstValues DEF Init, TypeOK, ControlStates
<1> QED
    BY <1>1 DEF Init, IInv, CurrentIsSaved, CurrentIsQueued, CurrentIsPublished,
                RecordedIsPublished

LEMMA StutterKeepsIInv == ASSUME IInv, UNCHANGED vars PROVE IInv'
BY DEF IInv, vars, cycleVars, clientVars, TypeOK, CurrentIsSaved, CurrentIsQueued,
       CurrentIsPublished, RecordedIsPublished

\* The two ways a cycle that did not succeed goes on keep the types.
LEMMA EndsKeepTypes ==
    ASSUME TypeOK, OtherFailure \/ Success \/ Uncaught
    PROVE  /\ pc' \in {"wait", "close"}
           /\ delay' \in InitialDelay..MaxDelay
           /\ failures' \in 0..MaxFailures
BY ProducerAssumption DEF TypeOK, OtherFailure, Success, Uncaught

LEMMA TransientKeepsTypes ==
    ASSUME TypeOK, TransientFailure
    PROVE  /\ pc' = "wait"
           /\ delay' \in InitialDelay..MaxDelay
           /\ failures' \in 0..MaxFailures
<1>1. delay' = IF delay * 2 <= MaxDelay THEN delay * 2 ELSE MaxDelay
    BY MinOfTwo, ProducerAssumption DEF TypeOK, TransientFailure
<1>2. failures' = IF failures + 1 <= MaxFailures THEN failures + 1 ELSE MaxFailures
    BY MinOfTwo, ProducerAssumption DEF TypeOK, TransientFailure
<1> QED BY <1>1, <1>2, ProducerAssumption DEF TypeOK, TransientFailure

\* Steps that leave the stores and the queue alone, and end the cycle or go on
\* to its fetch, disturb nothing.
LEMMA BetweenCyclesKeepsIInv ==
    ASSUME IInv, TypeOK',
           pc' \in {"down", "loop", "fetch", "wait", "close"},
           UNCHANGED <<topic, raw, metadata>>
    PROVE  IInv'
BY DEF IInv, CurrentIsSaved, CurrentIsQueued, CurrentIsPublished, RecordedIsPublished

----------------------------------------------------------------------------
(* The feed server and the Kafka client.                                   *)

LEMMA AdvanceKeepsIInv == ASSUME IInv, Advance PROVE IInv'
<1>1. TypeOK'
    BY ProducerAssumption DEF IInv, TypeOK, Advance, cycleVars, clientVars
<1> QED
    BY <1>1 DEF IInv, Advance, cycleVars, clientVars, CurrentIsSaved, CurrentIsQueued,
                CurrentIsPublished, RecordedIsPublished

\* A message that leaves the queue for the topic is one fewer to wait for.
LEMMA DeliverKeepsIInv == ASSUME IInv, NEW m \in queue, Deliver(m) PROVE IInv'
<1>1. m \in [event : Events, late : BOOLEAN]
    BY DEF IInv, TypeOK
<1>2. TypeOK'
    BY <1>1 DEF IInv, TypeOK, Deliver, cycleVars
<1>3. CurrentIsQueued'
    <2>1. \A e : [event |-> e, late |-> FALSE] \in queue /\ e # m.event
                    => [event |-> e, late |-> FALSE] \in queue'
        BY <1>1 DEF Deliver
    <2> QED BY <2>1 DEF IInv, CurrentIsQueued, Deliver, cycleVars
<1> QED
    BY <1>2, <1>3 DEF IInv, Deliver, cycleVars, CurrentIsSaved, CurrentIsPublished,
                      RecordedIsPublished

\* An error of this call is noted; one of an earlier call takes nothing that
\* this call queued.
LEMMA UndeliverKeepsIInv == ASSUME IInv, NEW m \in queue, Undeliver(m) PROVE IInv'
<1>1. m \in [event : Events, late : BOOLEAN]
    BY DEF IInv, TypeOK
<1>2. topic \subseteq topic' /\ topic' \subseteq topic \cup {m.event}
    BY DEF Undeliver
<1>3. TypeOK'
    BY <1>1, <1>2 DEF IInv, TypeOK, Undeliver, Fault, cycleVars
<1>4. CurrentIsQueued'
    <2>1. ~failed' => ~failed /\ m.late
        BY DEF Undeliver
    <2>2. m.late => \A e : [event |-> e, late |-> FALSE] \in queue
                                => [event |-> e, late |-> FALSE] \in queue'
        BY <1>1 DEF Undeliver
    <2> QED BY <1>2, <2>1, <2>2 DEF IInv, CurrentIsQueued, Undeliver, cycleVars
<1> QED
    BY <1>2, <1>3, <1>4 DEF IInv, Undeliver, cycleVars, CurrentIsSaved, CurrentIsPublished,
                            RecordedIsPublished

----------------------------------------------------------------------------
(* The process.                                                            *)

LEMMA StartKeepsIInv == ASSUME IInv, Start PROVE IInv'
<1>1. TypeOK'
    BY FirstValues DEF IInv, TypeOK, ControlStates, Start, clientVars
<1> QED BY <1>1, BetweenCyclesKeepsIInv DEF Start

LEMMA SignalKeepsIInv == ASSUME IInv, Signal PROVE IInv'
<1>1. TypeOK'
    BY DEF IInv, TypeOK, Signal, Fault, cycleVars, clientVars
<1> QED
    BY <1>1 DEF IInv, Signal, cycleVars, clientVars, CurrentIsSaved, CurrentIsQueued,
                CurrentIsPublished, RecordedIsPublished

\* A crash may send what was queued, and takes nothing out of the topic.
LEMMA CrashKeepsIInv == ASSUME IInv, Crash PROVE IInv'
<1>1. PICK sent \in SUBSET queue : topic' = topic \cup {m.event : m \in sent}
    BY DEF Crash
<1>2. {m.event : m \in sent} \subseteq Events
    BY DEF IInv, TypeOK
<1>3. topic' \subseteq Events
    BY <1>1, <1>2 DEF IInv, TypeOK
<1>4. TypeOK'
    <2>1. /\ pc' = "down" /\ queue' = {} /\ failed' = FALSE
          /\ faults' \in Nat
          /\ UNCHANGED <<feed, stop, current, delay, failures, raw, metadata>>
        BY DEF IInv, TypeOK, Crash, Fault, cycleVars
    <2> QED BY <1>3, <2>1 DEF IInv, TypeOK, ControlStates
<1> QED
    BY <1>1, <1>4 DEF IInv, Crash, CurrentIsSaved, CurrentIsQueued, CurrentIsPublished,
                      RecordedIsPublished

LEMMA LoopHeadKeepsIInv == ASSUME IInv, LoopHead PROVE IInv'
<1>1. TypeOK'
    BY DEF IInv, TypeOK, ControlStates, LoopHead, cycleVars, clientVars
<1> QED BY <1>1, BetweenCyclesKeepsIInv DEF LoopHead

LEMMA WaitKeepsIInv == ASSUME IInv, Wait PROVE IInv'
<1>1. TypeOK'
    BY DEF IInv, TypeOK, ControlStates, Wait, cycleVars, clientVars
<1> QED BY <1>1, BetweenCyclesKeepsIInv DEF Wait

LEMMA CloseKeepsIInv == ASSUME IInv, Close PROVE IInv'
<1>1. TypeOK'
    BY DEF IInv, TypeOK, ControlStates, Close, cycleVars
<1> QED BY <1>1, BetweenCyclesKeepsIInv DEF Close

\* The payload is saved before it is parsed.
LEMMA FetchKeepsIInv == ASSUME IInv, Fetch PROVE IInv'
<1>1. pc' \in {"wait", "produce"} /\ delay' \in InitialDelay..MaxDelay
        /\ failures' \in 0..MaxFailures
    BY EndsKeepTypes, ProducerAssumption DEF IInv, TypeOK, Fetch, OtherFailure
<1>2. TypeOK'
    BY <1>1 DEF IInv, TypeOK, ControlStates, Fetch, clientVars
<1> QED
    BY <1>1, <1>2 DEF IInv, Fetch, clientVars, CurrentIsSaved, CurrentIsQueued,
                      CurrentIsPublished, RecordedIsPublished

LEMMA FetchTransientKeepsIInv == ASSUME IInv, FetchTransient PROVE IInv'
<1>1. TypeOK' /\ pc' = "wait"
    BY TransientKeepsTypes DEF IInv, TypeOK, ControlStates, FetchTransient, clientVars
<1> QED BY <1>1, BetweenCyclesKeepsIInv DEF FetchTransient

LEMMA FetchFailsKeepsIInv == ASSUME IInv, FetchFails PROVE IInv'
<1>1. TypeOK' /\ pc' \in {"wait", "close"}
    BY EndsKeepTypes DEF IInv, TypeOK, ControlStates, FetchFails, Fault, clientVars
<1> QED BY <1>1, BetweenCyclesKeepsIInv DEF FetchFails

\* What Enqueue leaves in the queue are messages, those of this call included.
LEMMA EnqueueQueues ==
    ASSUME TypeOK, NEW events \in SUBSET Events, Enqueue(events)
    PROVE  /\ queue' \subseteq [event : Events, late : BOOLEAN]
           /\ failed' = FALSE
           /\ \A e \in events : [event |-> e, late |-> FALSE] \in queue'
<1>1. {m.event : m \in queue} \subseteq Events
    BY DEF TypeOK
<1> QED BY <1>1 DEF Enqueue

LEMMA ProduceKeepsIInv == ASSUME IInv, Produce PROVE IInv'
<1>1. EventsIn[current] \in SUBSET Events
    BY EventsOfSnapshot DEF IInv, TypeOK
<1>2. /\ queue' \subseteq [event : Events, late : BOOLEAN]
      /\ failed' = FALSE
      /\ \A e \in EventsIn[current] : [event |-> e, late |-> FALSE] \in queue'
    BY <1>1, EnqueueQueues DEF IInv, Produce
<1>3. TypeOK'
    BY <1>2 DEF IInv, TypeOK, ControlStates, Produce, cycleVars
<1> QED
    BY <1>2, <1>3 DEF IInv, Produce, cycleVars, CurrentIsSaved, CurrentIsQueued,
                      CurrentIsPublished, RecordedIsPublished

LEMMA ProduceRaisesKeepsIInv == ASSUME IInv, ProduceRaises PROVE IInv'
<1>1. EventsIn[current] \in SUBSET Events
    BY EventsOfSnapshot DEF IInv, TypeOK
<1>2. PICK some \in SUBSET EventsIn[current] : Enqueue(some)
    BY DEF ProduceRaises
<1>3. queue' \subseteq [event : Events, late : BOOLEAN] /\ failed' = FALSE
    BY <1>1, <1>2, EnqueueQueues DEF IInv
<1>4. /\ pc' \in {"wait", "close"}
      /\ delay' \in InitialDelay..MaxDelay
      /\ failures' \in 0..MaxFailures
    BY EndsKeepTypes DEF IInv, ProduceRaises
<1>5. faults' \in Nat /\ UNCHANGED <<feed, stop, current, topic, raw, metadata>>
    BY DEF IInv, TypeOK, ProduceRaises, Fault
<1>6. TypeOK'
    BY <1>3, <1>4, <1>5 DEF IInv, TypeOK, ControlStates
<1> QED BY <1>4, <1>5, <1>6, BetweenCyclesKeepsIInv

\* The queue is empty: what this call queued, and no error took, is in the
\* topic.
LEMMA FlushKeepsIInv == ASSUME IInv, Flush PROVE IInv'
<1>1. CASE failed
    <2>1. TypeOK' /\ pc' = "wait"
        BY <1>1, EndsKeepTypes
            DEF IInv, TypeOK, ControlStates, Flush, OtherFailure, clientVars
    <2> QED BY <2>1, BetweenCyclesKeepsIInv DEF Flush
<1>2. CASE ~failed
    <2>1. TypeOK' /\ pc' = "record"
        BY <1>2 DEF IInv, TypeOK, ControlStates, Flush, clientVars
    <2>2. EventsIn[current] \subseteq topic
        BY <1>2 DEF IInv, CurrentIsQueued, Flush
    <2> QED
        BY <2>1, <2>2 DEF IInv, Flush, clientVars, CurrentIsSaved, CurrentIsQueued,
                          CurrentIsPublished, RecordedIsPublished
<1> QED BY <1>1, <1>2

LEMMA RecordKeepsIInv == ASSUME IInv, Record PROVE IInv'
<1>1. TypeOK' /\ pc' = "wait"
    BY EndsKeepTypes DEF IInv, TypeOK, ControlStates, Record, Success, clientVars
<1> QED
    BY <1>1 DEF IInv, Record, clientVars, CurrentIsSaved, CurrentIsQueued,
                CurrentIsPublished, RecordedIsPublished

LEMMA RecordFailsKeepsIInv == ASSUME IInv, RecordFails PROVE IInv'
<1>1. TypeOK' /\ pc' = "close"
    BY EndsKeepTypes DEF IInv, TypeOK, ControlStates, RecordFails, Uncaught, Fault, clientVars
<1> QED BY <1>1, BetweenCyclesKeepsIInv DEF RecordFails

LEMMA NextKeepsIInv == ASSUME IInv, [Next]_vars PROVE IInv'
<1>1. CASE UNCHANGED vars
    BY <1>1, StutterKeepsIInv
<1>2. CASE Advance
    BY <1>2, AdvanceKeepsIInv
<1>3. CASE Client
    BY <1>3, DeliverKeepsIInv, UndeliverKeepsIInv DEF Client
<1>4. CASE Process
    BY <1>4, StartKeepsIInv, SignalKeepsIInv, CrashKeepsIInv, LoopHeadKeepsIInv,
       WaitKeepsIInv, CloseKeepsIInv, FetchKeepsIInv, FetchTransientKeepsIInv,
       FetchFailsKeepsIInv, ProduceKeepsIInv, ProduceRaisesKeepsIInv, FlushKeepsIInv,
       RecordKeepsIInv, RecordFailsKeepsIInv
        DEF Process
<1> QED BY <1>1, <1>2, <1>3, <1>4 DEF Next

----------------------------------------------------------------------------
(* Theorems.                                                               *)

\* The inductive invariant holds: run_continuously knows at each step of a
\* cycle where the events of its snapshot are.
THEOREM InvariantHolds == Spec => []IInv
<1> QED BY InitEstablishesIInv, NextKeepsIInv, PTL DEF Spec

\* The type invariant; its part about the delay says that run_continuously
\* never waits less than the poll interval or longer than the maximum.
THEOREM TypeCorrect == Spec => []TypeOK
<1>1. IInv => TypeOK
    BY DEF IInv
<1> QED BY <1>1, InvariantHolds, PTL

\* A row of raw.ingestion_metadata has its payload file and all its events in
\* the topic, whatever the callbacks of earlier produce_events calls report.
THEOREM RecordedAlwaysPublished == Spec => []RecordedIsPublished
<1>1. IInv => RecordedIsPublished
    BY DEF IInv
<1> QED BY <1>1, InvariantHolds, PTL

----------------------------------------------------------------------------
(* The retry delay.  The provers know nothing of exponentiation, so its    *)
(* recursion for base 2 is a hypothesis of the lemma and the theorem.      *)

PowersOfTwo == 2^0 = 1 /\ \A n \in Nat : 2^n \in Nat /\ 2^(n + 1) = 2 * 2^n

\* Doubling a capped delay and capping it again.
LEMMA DoubledIsCapped ==
    ASSUME NEW a \in Nat, NEW p \in Nat, NEW cap \in Nat, NEW d, NEW e,
           d = IF a * p <= cap THEN a * p ELSE cap,
           e = IF d * 2 <= cap THEN d * 2 ELSE cap
    PROVE  e = IF a * (2 * p) <= cap THEN a * (2 * p) ELSE cap
<1> DEFINE q == a * p
<1>1. q \in Nat /\ a * (2 * p) = 2 * q
    OBVIOUS
<1> HIDE DEF q
<1>2. d = IF q <= cap THEN q ELSE cap
    BY DEF q
<1> QED BY <1>1, <1>2

\* A transient failure doubles the delay and counts one more, or both stay
\* where they cannot grow.
LEMMA BackoffStep ==
    ASSUME PowersOfTwo, TypeOK, BackoffMatchesFailures, [Next]_vars
    PROVE  BackoffMatchesFailures'
<1> DEFINE Capped(n) == IF InitialDelay * 2^n <= MaxDelay THEN InitialDelay * 2^n ELSE MaxDelay
<1>1. \A n \in Nat : 2^n \in Nat /\ Min({InitialDelay * 2^n, MaxDelay}) = Capped(n)
    <2> TAKE n \in Nat
    <2>1. 2^n \in Nat
        BY DEF PowersOfTwo
    <2>2. InitialDelay * 2^n \in Int
        BY <2>1, ProducerAssumption
    <2> QED BY <2>1, <2>2, MinOfTwo, ProducerAssumption
<1>2. delay = Capped(failures) /\ failures \in Nat
    BY <1>1, ProducerAssumption DEF BackoffMatchesFailures, TypeOK
<1>3. CASE failures' = 0 /\ delay' = InitialDelay
    <2>1. Capped(0) = InitialDelay
        BY ProducerAssumption DEF PowersOfTwo
    <2> QED BY <1>1, <1>3, <2>1 DEF BackoffMatchesFailures
<1>4. CASE UNCHANGED <<delay, failures>>
    BY <1>4 DEF BackoffMatchesFailures
<1>5. CASE TransientFailure
    <2>1. delay' = IF delay * 2 <= MaxDelay THEN delay * 2 ELSE MaxDelay
        BY <1>5, MinOfTwo, ProducerAssumption DEF TypeOK, TransientFailure
    <2>2. failures' = IF failures + 1 <= MaxFailures THEN failures + 1 ELSE MaxFailures
        BY <1>5, MinOfTwo, ProducerAssumption DEF TypeOK, TransientFailure
    <2>3. delay' = Capped(failures + 1)
        <3>1. delay' = IF InitialDelay * (2 * 2^failures) <= MaxDelay
                       THEN InitialDelay * (2 * 2^failures) ELSE MaxDelay
            BY <1>1, <1>2, <2>1, DoubledIsCapped, ProducerAssumption
        <3>2. 2^(failures + 1) = 2 * 2^failures
            BY <1>2 DEF PowersOfTwo
        <3> QED BY <3>1, <3>2
    <2>4. CASE failures < MaxFailures
        <3>1. failures' = failures + 1 /\ failures' \in Nat
            BY <1>2, <2>2, <2>4, ProducerAssumption
        <3>2. Min({InitialDelay * 2^failures', MaxDelay}) = Capped(failures')
            BY <1>1, <3>1
        <3> QED BY <2>3, <3>1, <3>2 DEF BackoffMatchesFailures
    <2>5. CASE failures = MaxFailures
        <3>1. failures' = MaxFailures
            BY <2>2, <2>5, ProducerAssumption
        <3>2. Capped(MaxFailures) = MaxDelay
            <4>1. 2^MaxFailures \in Nat
                BY <1>1, ProducerAssumption
            <4>2. InitialDelay * 2^MaxFailures \in Nat
                BY <4>1, ProducerAssumption
            <4> QED BY <4>2, ProducerAssumption
        <3>3. delay' = MaxDelay
            BY <1>2, <2>1, <2>5, <3>2, ProducerAssumption
        <3> QED BY <1>1, <3>1, <3>2, <3>3, ProducerAssumption DEF BackoffMatchesFailures
    <2> QED BY <2>4, <2>5, ProducerAssumption DEF TypeOK
<1>6. \/ failures' = 0 /\ delay' = InitialDelay
      \/ UNCHANGED <<delay, failures>>
      \/ TransientFailure
    <2>1. OtherFailure \/ Success => failures' = 0 /\ delay' = InitialDelay
        BY DEF OtherFailure, Success
    <2>2. Uncaught => UNCHANGED <<delay, failures>>
        BY DEF Uncaught
    <2>3. CASE Process
        BY <2>1, <2>2, <2>3
            DEF Process, Start, Signal, Crash, LoopHead, Wait, Close, Fetch, FetchTransient,
                FetchFails, Produce, ProduceRaises, Flush, Record, RecordFails, cycleVars
    <2>4. CASE Advance \/ Client \/ UNCHANGED vars
        BY <2>4 DEF Advance, Client, Deliver, Undeliver, vars, cycleVars
    <2> QED BY <2>3, <2>4 DEF Next
<1> QED BY <1>3, <1>4, <1>5, <1>6

\* The delay of run_continuously is the poll interval doubled once for every
\* transient failure in a row and capped, for any interval and maximum.
THEOREM BackoffAlwaysMatches ==
    ASSUME PowersOfTwo
    PROVE  Spec => []BackoffMatchesFailures
<1>1. Init => BackoffMatchesFailures
    <2>1. InitialDelay * 2^0 = InitialDelay
        BY ProducerAssumption DEF PowersOfTwo
    <2> QED BY <2>1, MinOfTwo, ProducerAssumption DEF Init, BackoffMatchesFailures
<1>2. ASSUME TypeOK, BackoffMatchesFailures, [Next]_vars PROVE BackoffMatchesFailures'
    BY <1>2, BackoffStep
<1> QED BY <1>1, <1>2, TypeCorrect, PTL DEF Spec

=============================================================================
