------------------------ MODULE DelayTrainingProofs ------------------------
(***************************************************************************)
(* Proofs about DelayTraining: for every lateness and travel time whose    *)
(* sum is within the lookback, what differs from a full refresh is inside  *)
(* the window of the next run, an observation has one row, and a label is  *)
(* kept or improved as long as staging has what it was computed from.      *)
(***************************************************************************)
EXTENDS DelayTraining, FiniteSetTheorems, TLAPS

----------------------------------------------------------------------------
(* The inductive invariant.  The window is counted from the newest row of  *)
(* the mart, and a run loads what it selected before later observations    *)
(* came: so the invariant also says what the mart will be after the load.  *)

NothingIsSelected == run \notin {"loading", "replacing"} => delta = {}

\* The observation is in the window whether or not the run loads.
InBothWindows(o) == \A r \in training \cup delta : o.time >= r.of.time - Lookback

IdsAreUnique ==
    /\ IsFiniteSet(received)
    /\ \A o \in received : o.id <= Cardinality(received)
    /\ \A o, p \in received : o.id = p.id => o = p

\* Every set of observations has an earliest one.
FirstsExist == \A set \in SUBSET received : set # {} => \E p \in set : First(p, set)

\* What a row says of its observations stays true when staging drops them.
IsMatched(r) ==
    /\ r.of \in received /\ r.target \in received /\ r.history \subseteq received
    /\ r.target.trip = r.of.trip
    /\ r.target.stop = r.of.stop + Ahead
    /\ r.target.time > r.of.time

RowsAreMatched == \A r \in training \cup delta : IsMatched(r)

OneRowInDelta == \A r, s \in delta : r.of = s.of => r = s

IsAsGood(p, q) == p = q \/ Before(p, q)

DeltaImproves ==
    \A r \in training, d \in delta :
        r.of = d.of /\ r.target \in staged => IsAsGood(d.target, r.target)

\* A full refresh of the mart selects what staging still has a label for.
ReplacementIsComplete ==
    run = "replacing" =>
        \A r \in training :
            r.of \in staged /\ r.target \in staged => \E d \in delta : d.of = r.of

LoadedRowsAreInWindow ==
    \A o \in staged :
        RowsOf(o, After) # RowsOf(o, Labelled) =>
            InBothWindows(o) \/ \E r \in RowsOf(o, After) : ~Sourced(r)

IInv ==
    /\ TypeOK
    /\ NothingIsSelected
    /\ IdsAreUnique
    /\ FirstsExist
    /\ RowsAreMatched
    /\ OneRowPerObservation
    /\ OneRowInDelta
    /\ DeltaImproves
    /\ ReplacementIsComplete
    /\ LateRowsAreInWindow
    /\ LoadedRowsAreInWindow

----------------------------------------------------------------------------
(* Lemmas about the operators.                                             *)

\* The order of observations is a strict total order.
LEMMA BeforeIsOrder ==
    ASSUME NEW a \in Observations, NEW b \in Observations, NEW c \in Observations
    PROVE  /\ Before(a, b) /\ Before(b, c) => Before(a, c)
           /\ ~(Before(a, b) /\ Before(b, a))
           /\ a.id # b.id => Before(a, b) \/ Before(b, a)
BY TrainingAssumption DEF Before, Observations

\* The row of an observation with target p.
Row(o, p) == [of |-> o, target |-> p, history |-> History(o)]

IsTarget(p, o) == p \in Candidates(o) /\ First(p, Candidates(o))

\* The rows of the feature view that have a label, and those of one observation.
LEMMA LabelledRows ==
    /\ \A r : r \in Labelled <=> \E o \in staged : \E p : IsTarget(p, o) /\ r = Row(o, p)
    /\ \A o \in staged : \A r : r \in RowsOf(o, Labelled) <=> \E p : IsTarget(p, o) /\ r = Row(o, p)
<1>1. \A r : r \in Labelled <=> \E o \in staged : \E p : IsTarget(p, o) /\ r = Row(o, p)
    BY DEF Labelled, IsTarget, Row
<1>2. ASSUME NEW o \in staged, NEW r
      PROVE  r \in RowsOf(o, Labelled) <=> \E p : IsTarget(p, o) /\ r = Row(o, p)
    <2>1. \A q, p : Row(q, p).of = q
        BY DEF Row
    <2> QED BY <1>1, <2>1 DEF RowsOf
<1> QED BY <1>1, <1>2

\* The same rows after a step.
LEMMA LabelledRowsAfter ==
    /\ \A r : r \in Labelled' <=> \E o \in staged' : \E p : IsTarget(p, o)' /\ r = Row(o, p)'
    /\ \A o \in staged' : \A r :
           r \in RowsOf(o, Labelled') <=> \E p : IsTarget(p, o)' /\ r = Row(o, p)'
<1>1. \A r : r \in Labelled' <=> \E o \in staged' : \E p : IsTarget(p, o)' /\ r = Row(o, p)'
    BY DEF Labelled, IsTarget, Row
<1>2. ASSUME NEW o \in staged', NEW r
      PROVE  r \in RowsOf(o, Labelled') <=> \E p : IsTarget(p, o)' /\ r = Row(o, p)'
    <2>1. \A q, p : Row(q, p)'.of = q
        BY DEF Row
    <2> QED BY <1>1, <2>1 DEF RowsOf
<1> QED BY <1>1, <1>2

LEMMA StagedTypes ==
    ASSUME IInv
    PROVE  staged \subseteq Observations /\ received \subseteq Observations
BY DEF IInv, TypeOK

LEMMA LabelledTypes ==
    ASSUME staged \subseteq received, received \subseteq Observations
    PROVE  /\ Labelled \subseteq TrainingRows
           /\ \A r \in Labelled : Sourced(r) /\ IsMatched(r)
<1> SUFFICES ASSUME NEW r \in Labelled
             PROVE  r \in TrainingRows /\ Sourced(r) /\ IsMatched(r)
    OBVIOUS
<1>1. PICK o \in staged, p \in staged : IsTarget(p, o) /\ r = Row(o, p)
    BY LabelledRows DEF IsTarget, Candidates
<1>2. r.of = o /\ r.target = p /\ r.history = History(o)
    BY <1>1 DEF Row
<1>3. History(o) \subseteq staged
    BY DEF History
<1>4. r \in TrainingRows
    BY <1>1, <1>3 DEF Row, TrainingRows
<1>5. Sourced(r)
    BY <1>1, <1>2, <1>3 DEF Sourced
<1>6. p.trip = o.trip /\ p.stop = o.stop + Ahead /\ p.time > o.time
    BY <1>1 DEF IsTarget, Candidates
<1>7. IsMatched(r)
    BY <1>1, <1>2, <1>3, <1>6 DEF IsMatched
<1> QED BY <1>4, <1>5, <1>7

\* An observation has one label.
LEMMA OneLabel ==
    ASSUME staged \subseteq Observations, NEW r \in Labelled, NEW s \in Labelled, r.of = s.of
    PROVE  r = s
<1>1. PICK o \in staged, p \in staged : IsTarget(p, o) /\ r = Row(o, p)
    BY LabelledRows DEF IsTarget, Candidates
<1>2. PICK u \in staged, q \in staged : IsTarget(q, u) /\ s = Row(u, q)
    BY LabelledRows DEF IsTarget, Candidates
<1>3. o = u
    BY <1>1, <1>2 DEF Row
<1>4. p \in Observations /\ q \in Observations
    BY <1>1, <1>2 DEF IsTarget, Candidates
<1>5. p # q => Before(p, q) /\ Before(q, p)
    BY <1>1, <1>2, <1>3 DEF IsTarget, First
<1>6. p = q
    BY <1>4, <1>5, BeforeIsOrder
<1> QED BY <1>1, <1>2, <1>3, <1>6

\* While staging has the observation and its target, the feature view has a
\* label for it that is as good: the target is still a candidate.
LEMMA LabelsAreKept ==
    ASSUME IInv, NEW r \in training \cup delta, r.of \in staged, r.target \in staged
    PROVE  \E s \in Labelled : s.of = r.of /\ IsAsGood(s.target, r.target)
<1>1. r.target \in Candidates(r.of)
    BY DEF IInv, RowsAreMatched, IsMatched, Candidates
<1>2. Candidates(r.of) \in SUBSET received
    BY DEF IInv, TypeOK, Candidates
<1>3. PICK p \in Candidates(r.of) : First(p, Candidates(r.of))
    BY <1>1, <1>2 DEF IInv, FirstsExist
<1>4. Row(r.of, p) \in Labelled
    BY <1>3, LabelledRows DEF IsTarget
<1>5. IsAsGood(p, r.target)
    BY <1>1, <1>3 DEF First, IsAsGood
<1> QED BY <1>4, <1>5 DEF Row

----------------------------------------------------------------------------
(* An observation arrives.                                                 *)

NewObservation(trip, stop, time) ==
    [id |-> Cardinality(received) + 1, trip |-> trip, stop |-> stop, time |-> time]

\* The new observation has a new id, the greatest.
LEMMA ArriveIsNew ==
    ASSUME IInv, NEW trip \in Trips, NEW stop \in Stops, NEW time \in 0..MaxTime,
           Arrive(trip, stop, time), NEW x, x = NewObservation(trip, stop, time)
    PROVE  /\ x \in Observations /\ x \notin received
           /\ received' = received \cup {x}
           /\ staged' = staged \cup {x}
           /\ \A o \in received : o.id < x.id
           /\ IdsAreUnique'
<1> USE TrainingAssumption DEF IInv
<1>1. received' = received \cup {x} /\ staged' = staged \cup {x}
    BY DEF Arrive, NewObservation
<1>2. Cardinality(received) \in Nat
    BY FS_CardinalityType DEF IdsAreUnique
<1>3. x.id = Cardinality(received) + 1 /\ x.id <= MaxRows
    BY DEF Arrive, NewObservation
<1>4. x \in Observations
    BY <1>2, <1>3 DEF NewObservation, Observations
<1>5. \A o \in received : o.id \in Nat
    BY DEF TypeOK, Observations
<1>6. \A o \in received : o.id < x.id
    BY <1>2, <1>3, <1>5 DEF IdsAreUnique
<1>7. x \notin received
    BY <1>5, <1>6
<1>8. IsFiniteSet(received') /\ Cardinality(received') = Cardinality(received) + 1
    BY <1>1, <1>7, FS_AddElement DEF IdsAreUnique
<1>9. \A o \in received' : o.id <= Cardinality(received')
    BY <1>1, <1>2, <1>3, <1>5, <1>8 DEF IdsAreUnique
<1>10. \A o, p \in received' : o.id = p.id => o = p
    BY <1>1, <1>5, <1>6 DEF IdsAreUnique
<1> QED BY <1>1, <1>4, <1>6, <1>7, <1>8, <1>9, <1>10 DEF IdsAreUnique

\* The first of a set and of the new observation is one of the two.
LEMMA ArriveKeepsFirsts ==
    ASSUME IInv, NEW x \in Observations, x \notin received, \A o \in received : o.id < x.id,
           received' = received \cup {x}
    PROVE  FirstsExist'
<1> SUFFICES ASSUME NEW set \in SUBSET (received \cup {x}), set # {}
             PROVE  \E p \in set : First(p, set)
    BY DEF FirstsExist, First, Before
<1>1. received \subseteq Observations
    BY StagedTypes
<1>2. CASE x \notin set
    BY <1>2 DEF IInv, FirstsExist
<1>3. CASE set = {x}
    BY <1>3 DEF First
<1>4. CASE x \in set /\ set # {x}
    <2>1. set \ {x} \in SUBSET received /\ set \ {x} # {}
        BY <1>4
    <2>2. PICK p \in set \ {x} : First(p, set \ {x})
        BY <2>1 DEF IInv, FirstsExist
    <2>3. p \in Observations /\ p.id < x.id
        BY <1>1, <2>1, <2>2
    <2>4. p.id # x.id
        BY <2>3, TrainingAssumption DEF Observations
    <2>5. CASE Before(p, x)
        BY <2>2, <2>5 DEF First
    <2>6. CASE Before(x, p)
        <3>1. \A q \in set \ {x} : Before(x, q)
            <4> TAKE q \in set \ {x}
            <4>1. q \in Observations
                BY <1>1, <2>1
            <4>2. q = p \/ Before(p, q)
                BY <2>2 DEF First
            <4> QED BY <2>3, <2>6, <4>1, <4>2, BeforeIsOrder
        <3> QED BY <1>4, <3>1 DEF First
    <2> QED BY <2>3, <2>4, <2>5, <2>6, BeforeIsOrder
<1> QED BY <1>2, <1>3, <1>4

LEMMA ArriveViews ==
    ASSUME NEW x, staged' = staged \cup {x}, NEW o
    PROVE  /\ Candidates(o) \subseteq Candidates(o)'
           /\ Candidates(o)' \subseteq Candidates(o) \cup {x}
           /\ x \in Candidates(o)' <=> x.trip = o.trip /\ x.stop = o.stop + Ahead /\ x.time > o.time
           /\ ~Before(x, o) => History(o)' = History(o)
BY DEF Candidates, History, Before

\* What is too old for the window does not change: a newer observation is at
\* most Lateness behind the newest, so it is neither history of an older one
\* nor four stops ahead of it within Travel.
LEMMA ArriveFarIsUnchanged ==
    ASSUME IInv, NEW trip \in Trips, NEW stop \in Stops, NEW time \in 0..MaxTime,
           Arrive(trip, stop, time), NEW x, x = NewObservation(trip, stop, time),
           NEW o \in staged, NEW p \in received, ~(o.time >= p.time - Lookback)
    PROVE  RowsOf(o, Labelled') = RowsOf(o, Labelled)
<1>1. /\ x \in Observations
      /\ staged' = staged \cup {x}
      /\ staged \subseteq received
      /\ received \subseteq Observations
    BY ArriveIsNew DEF IInv, TypeOK
<1>2. x.trip = trip /\ x.stop = stop /\ x.time = time
    BY DEF NewObservation
<1>3. /\ o.time \in Nat /\ p.time \in Nat /\ x.time \in Nat
    BY <1>1 DEF Observations
<1>4. /\ p.time - x.time <= Lateness
      /\ o.trip = x.trip /\ x.stop = o.stop + Ahead => x.time - o.time <= Travel
    BY <1>1, <1>2 DEF Arrive
<1>5. x.time > o.time /\ ~(x.time - o.time <= Travel)
    BY <1>3, <1>4, TrainingAssumption
<1>6. ~Before(x, o)
    BY <1>3, <1>5 DEF Before
<1>7. x \notin Candidates(o)'
    BY <1>1, <1>4, <1>5, ArriveViews
<1>8. Candidates(o)' = Candidates(o) /\ History(o)' = History(o)
    <2>1. /\ Candidates(o) \subseteq Candidates(o)'
          /\ Candidates(o)' \subseteq Candidates(o) \cup {x}
          /\ History(o)' = History(o)
        BY <1>1, <1>6, ArriveViews
    <2>2. Candidates(o)' \subseteq Candidates(o)
        BY <1>7, <2>1
    <2> QED BY <2>1, <2>2
<1>9. \A q : (IsTarget(q, o)' <=> IsTarget(q, o)) /\ Row(o, q)' = Row(o, q)
    BY <1>8 DEF IsTarget, First, Row, Before
<1>10. \A r : r \in RowsOf(o, Labelled') <=> r \in RowsOf(o, Labelled)
    BY <1>1, <1>9, LabelledRows, LabelledRowsAfter
<1> QED BY <1>10 DEF RowsOf

\* Nothing that staging has dropped comes back.
LEMMA ArriveKeepsSources ==
    ASSUME IInv, NEW x, x \notin received, staged' = staged \cup {x},
           NEW r \in training \cup delta
    PROVE  /\ Sourced(r)' <=> Sourced(r)
           /\ r.of \in staged' <=> r.of \in staged
           /\ r.target \in staged' <=> r.target \in staged
BY DEF Sourced, IInv, RowsAreMatched, IsMatched

LEMMA ArriveKeepsIInv ==
    ASSUME IInv, NEW trip \in Trips, NEW stop \in Stops, NEW time \in 0..MaxTime,
           Arrive(trip, stop, time)
    PROVE  IInv'
<1>1. PICK x : x = NewObservation(trip, stop, time)
    OBVIOUS
<1>2. /\ x \in Observations /\ x \notin received
      /\ received' = received \cup {x}
      /\ staged' = staged \cup {x}
      /\ \A o \in received : o.id < x.id
      /\ IdsAreUnique'
    BY <1>1, ArriveIsNew
<1>3. UNCHANGED <<training, delta, run, faults>>
    BY DEF Arrive
<1>4. After' = After /\ After \subseteq training \cup delta
    BY <1>3 DEF After, Untouched
<1>5. TypeOK'
    BY <1>2, <1>3 DEF IInv, TypeOK
<1>6. FirstsExist'
    BY <1>2, ArriveKeepsFirsts
<1>7. RowsAreMatched'
    BY <1>2, <1>3 DEF IInv, RowsAreMatched, IsMatched
<1>8. NothingIsSelected' /\ OneRowPerObservation' /\ OneRowInDelta'
    BY <1>3 DEF IInv, NothingIsSelected, OneRowPerObservation, OneRowInDelta
<1>9. \A r \in training \cup delta :
          /\ Sourced(r)' <=> Sourced(r)
          /\ r.of \in staged' <=> r.of \in staged
          /\ r.target \in staged' <=> r.target \in staged
    BY <1>2, ArriveKeepsSources
<1>10. DeltaImproves'
    BY <1>3, <1>9 DEF IInv, DeltaImproves, IsAsGood, Before
<1>11. ReplacementIsComplete'
    BY <1>3, <1>9 DEF IInv, ReplacementIsComplete
<1>12. \A r \in training \cup delta : r.of \in received /\ r.of.time \in Nat
    BY DEF IInv, RowsAreMatched, IsMatched, TypeOK, Observations
<1>13. InBothWindows(x)
    <2>1. \A p \in received : p.time - x.time <= Lateness
        BY <1>1 DEF Arrive, NewObservation
    <2>2. x.time \in Nat
        BY <1>2 DEF Observations
    <2> QED BY <1>12, <2>1, <2>2, TrainingAssumption DEF InBothWindows
<1>14. ASSUME NEW o \in staged, ~InBothWindows(o)
       PROVE  RowsOf(o, Labelled') = RowsOf(o, Labelled)
    BY <1>1, <1>12, <1>14, ArriveFarIsUnchanged DEF InBothWindows
<1>15. ASSUME NEW o \in staged, ~InWindow(o)
       PROVE  ~InBothWindows(o)
    BY <1>15 DEF InWindow, InBothWindows
<1>16. LateRowsAreInWindow'
    <2> SUFFICES ASSUME NEW o \in staged', RowsOf(o, training) # RowsOf(o, Labelled'),
                        ~InWindow(o)
                 PROVE  \E r \in RowsOf(o, training) : ~Sourced(r)'
        BY <1>3 DEF LateRowsAreInWindow, InWindow, RowsOf
    <2>1. CASE o = x
        BY <1>13, <2>1 DEF InWindow, InBothWindows
    <2>2. CASE o \in staged
        <3>1. RowsOf(o, training) # RowsOf(o, Labelled)
            BY <1>14, <1>15, <2>2
        <3>2. PICK r \in RowsOf(o, training) : ~Sourced(r)
            BY <2>2, <3>1 DEF IInv, LateRowsAreInWindow
        <3> QED BY <1>9, <3>2 DEF RowsOf
    <2> QED BY <1>2, <2>1, <2>2
<1>17. LoadedRowsAreInWindow'
    <2> SUFFICES ASSUME NEW o \in staged', RowsOf(o, After) # RowsOf(o, Labelled'),
                        ~InBothWindows(o)
                 PROVE  \E r \in RowsOf(o, After) : ~Sourced(r)'
        BY <1>3, <1>4 DEF LoadedRowsAreInWindow, InBothWindows, RowsOf
    <2>1. CASE o = x
        BY <1>13, <2>1
    <2>2. CASE o \in staged
        <3>1. RowsOf(o, After) # RowsOf(o, Labelled)
            BY <1>14, <2>2
        <3>2. PICK r \in RowsOf(o, After) : ~Sourced(r)
            BY <2>2, <3>1 DEF IInv, LoadedRowsAreInWindow
        <3> QED BY <1>4, <1>9, <3>2 DEF RowsOf
    <2> QED BY <1>2, <2>1, <2>2
<1> QED BY <1>2, <1>5, <1>6, <1>7, <1>8, <1>10, <1>11, <1>16, <1>17 DEF IInv

----------------------------------------------------------------------------
(* A run, a full refresh, and those that fail.                             *)

\* What the feature view has depends only on staging.
LEMMA ViewIsUnchanged ==
    ASSUME UNCHANGED staged
    PROVE  Labelled' = Labelled /\ \A r : Sourced(r)' <=> Sourced(r)
BY DEF Labelled, Candidates, First, History, Before, Sourced

\* The parts of the invariant that are about what was received.
LEMMA ReceivedKeeps ==
    ASSUME IInv, UNCHANGED received
    PROVE  /\ IdsAreUnique' /\ FirstsExist'
           /\ training' \cup delta' \subseteq training \cup delta \cup Labelled => RowsAreMatched'
<1>1. IdsAreUnique' /\ FirstsExist'
    BY DEF IInv, IdsAreUnique, FirstsExist, First, Before
<1>2. \A r \in training \cup delta \cup Labelled : IsMatched(r) /\ IsMatched(r)'
    BY LabelledTypes DEF IInv, TypeOK, RowsAreMatched, IsMatched
<1> QED BY <1>1, <1>2 DEF RowsAreMatched

\* Of each observation a run selects what makes the mart right again: its row
\* in the window, and nothing outside, where nothing is wrong.
LEMMA SelectionMatches ==
    ASSUME IInv, Select, NEW o \in staged
    PROVE  RowsOf(o, After') = RowsOf(o, Labelled) \/ \E r \in RowsOf(o, After') : ~Sourced(r)
<1>1. /\ delta = {} /\ run' = "loading"
      /\ delta' = {r \in Labelled : InWindow(r.of)}
      /\ UNCHANGED <<received, staged, training, faults>>
    BY DEF Select, IInv, NothingIsSelected
<1>2. /\ \A r \in Labelled : r.of \in staged /\ r.of \in received
      /\ \A r, s \in Labelled : r.of = s.of => r = s
    BY LabelledTypes, OneLabel DEF IInv, TypeOK, Sourced, IsMatched
<1>3. \A r : r \in After' <=> \/ r \in training /\ \A d \in delta' : d.of.id # r.of.id
                              \/ r \in Labelled /\ InWindow(r.of)
    BY <1>1 DEF After, Untouched
<1>4. \A r \in training : r.of \in received
    BY DEF IInv, RowsAreMatched, IsMatched
<1>5. CASE InWindow(o)
    <2>1. CASE \E r \in training : r \in After' /\ r.of = o
        <3>1. PICK r \in training : r \in After' /\ r.of = o
            BY <2>1
        <3>2. CASE r \in Labelled /\ InWindow(r.of)
            BY <1>1, <1>2, <1>3, <1>5, <3>1, <3>2 DEF RowsOf
        <3>3. CASE \A d \in delta' : d.of.id # r.of.id
            <4>1. \A s \in Labelled : s.of # o
                BY <1>1, <1>5, <3>1, <3>3
            <4>2. ~Sourced(r)
                BY <3>1, <4>1, LabelsAreKept DEF Sourced
            <4> QED BY <3>1, <4>2 DEF RowsOf
        <3> QED BY <1>3, <3>1, <3>2, <3>3
    <2>2. CASE ~\E r \in training : r \in After' /\ r.of = o
        BY <1>3, <1>5, <2>2 DEF RowsOf
    <2> QED BY <2>1, <2>2
<1>6. CASE ~InWindow(o)
    <2>1. \A d \in delta' : d.of # o /\ d.of \in received
        BY <1>1, <1>2, <1>6
    <2>2. \A d \in delta' : d.of.id # o.id
        BY <2>1 DEF IInv, TypeOK, IdsAreUnique
    <2>3. \A r : r.of = o => (r \in After' <=> r \in training)
        BY <1>3, <1>6, <2>2
    <2>4. RowsOf(o, After') = RowsOf(o, training)
        BY <2>3 DEF RowsOf
    <2> QED BY <1>6, <2>4 DEF IInv, LateRowsAreInWindow
<1> QED BY <1>5, <1>6

LEMMA SelectKeepsIInv ==
    ASSUME IInv, Select
    PROVE  IInv'
<1>1. /\ delta = {} /\ run' = "loading"
      /\ delta' = {r \in Labelled : InWindow(r.of)}
      /\ UNCHANGED <<received, staged, training, faults>>
    BY DEF Select, IInv, NothingIsSelected
<1>2. Labelled' = Labelled /\ \A r : Sourced(r)' <=> Sourced(r)
    BY <1>1, ViewIsUnchanged
<1>3. /\ Labelled \subseteq TrainingRows
      /\ \A r, s \in Labelled : r.of = s.of => r = s
      /\ \A r \in Labelled : r.of \in staged
    BY LabelledTypes, OneLabel DEF IInv, TypeOK, Sourced
<1>4. TypeOK'
    BY <1>1, <1>3 DEF IInv, TypeOK
<1>5. IdsAreUnique' /\ FirstsExist' /\ RowsAreMatched'
    BY <1>1, ReceivedKeeps
<1>6. /\ NothingIsSelected' /\ OneRowPerObservation' /\ OneRowInDelta'
      /\ ReplacementIsComplete'
    BY <1>1, <1>3 DEF IInv, NothingIsSelected, OneRowPerObservation, OneRowInDelta,
                      ReplacementIsComplete
<1>7. DeltaImproves'
    <2> SUFFICES ASSUME NEW r \in training, NEW d \in delta', r.of = d.of, r.target \in staged
                 PROVE  IsAsGood(d.target, r.target)
        BY <1>1 DEF DeltaImproves, IsAsGood, Before
    <2>1. d \in Labelled /\ r.of \in staged
        BY <1>1, <1>3
    <2>2. PICK s \in Labelled : s.of = r.of /\ IsAsGood(s.target, r.target)
        BY <2>1, LabelsAreKept
    <2>3. s = d
        BY <1>3, <2>1, <2>2
    <2> QED BY <2>2, <2>3
<1>8. LateRowsAreInWindow'
    BY <1>1, <1>2 DEF IInv, LateRowsAreInWindow, RowsOf, InWindow
<1>9. \A o \in staged :
          \/ RowsOf(o, After') = RowsOf(o, Labelled)
          \/ \E r \in RowsOf(o, After') : ~Sourced(r)
    BY SelectionMatches
<1>10. LoadedRowsAreInWindow'
    BY <1>1, <1>2, <1>9 DEF LoadedRowsAreInWindow, RowsOf
<1> QED BY <1>4, <1>5, <1>6, <1>7, <1>8, <1>10 DEF IInv

\* A row whose sources are still staged stays the one of the feature view.
LEMMA RefreshKeepsRows ==
    ASSUME IInv, staged' \subseteq staged, NEW o \in staged',
           \A r \in RowsOf(o, Labelled) : Sourced(r)'
    PROVE  RowsOf(o, Labelled') = RowsOf(o, Labelled)
<1>1. /\ o \in staged /\ received \subseteq Observations
      /\ Candidates(o) \in SUBSET received
      /\ Candidates(o)' = Candidates(o) \cap staged'
      /\ History(o)' = History(o) \cap staged'
    BY DEF IInv, TypeOK, Candidates, History, Before
<1>2. ASSUME NEW p, IsTarget(p, o)
      PROVE  IsTarget(p, o)' /\ Row(o, p)' = Row(o, p)
    <2>1. Row(o, p) \in RowsOf(o, Labelled)
        BY <1>1, <1>2, LabelledRows
    <2>2. p \in staged' /\ History(o) \subseteq staged'
        BY <2>1 DEF Row, Sourced
    <2>3. p \in Candidates(o)' /\ Candidates(o)' \subseteq Candidates(o)
        BY <1>1, <1>2, <2>2 DEF IsTarget
    <2>4. IsTarget(p, o)'
        BY <1>2, <2>3 DEF IsTarget, First, Before
    <2>5. History(o)' = History(o)
        BY <1>1, <2>2
    <2> QED BY <2>4, <2>5 DEF Row
<1>3. ASSUME NEW p, IsTarget(p, o)'
      PROVE  IsTarget(p, o) /\ Row(o, p)' = Row(o, p)
    <2>1. p \in Candidates(o)' /\ p \in Candidates(o)
        BY <1>1, <1>3 DEF IsTarget
    <2>2. PICK q \in Candidates(o) : First(q, Candidates(o))
        BY <1>1, <2>1 DEF IInv, FirstsExist
    <2>3. IsTarget(q, o)
        BY <2>2 DEF IsTarget
    <2>4. IsTarget(q, o)'
        BY <1>2, <2>3
    <2>5. p # q => Before(p, q) /\ Before(q, p)
        BY <1>3, <2>4 DEF IsTarget, First, Before
    <2>6. p = q
        BY <1>1, <2>1, <2>2, <2>5, BeforeIsOrder
    <2> QED BY <1>2, <2>3, <2>6
<1>4. \A r : r \in RowsOf(o, Labelled') <=> r \in RowsOf(o, Labelled)
    BY <1>1, <1>2, <1>3, LabelledRows, LabelledRowsAfter
<1> QED BY <1>4 DEF RowsOf

LEMMA RefreshStagingKeepsIInv ==
    ASSUME IInv, NEW left \in SUBSET staged, RefreshStaging(left)
    PROVE  IInv'
<1>1. /\ delta = {} /\ delta' = {} /\ run' = "refreshing" /\ staged' \subseteq staged
      /\ UNCHANGED <<received, training, faults>>
    BY DEF RefreshStaging, IInv, NothingIsSelected
<1>2. After' = training
    BY <1>1 DEF After, Untouched
<1>3. TypeOK'
    BY <1>1 DEF IInv, TypeOK
<1>4. IdsAreUnique' /\ FirstsExist' /\ RowsAreMatched'
    BY <1>1, ReceivedKeeps
<1>5. /\ NothingIsSelected' /\ OneRowPerObservation' /\ OneRowInDelta'
      /\ DeltaImproves' /\ ReplacementIsComplete'
    BY <1>1 DEF IInv, NothingIsSelected, OneRowPerObservation, OneRowInDelta,
                DeltaImproves, ReplacementIsComplete
<1>6. ASSUME NEW o \in staged', RowsOf(o, training) # RowsOf(o, Labelled'),
             \A r \in RowsOf(o, training) : Sourced(r)'
      PROVE  InWindow(o)
    <2>1. \A r \in RowsOf(o, training) : Sourced(r)
        BY <1>1, <1>6 DEF Sourced
    <2>2. CASE RowsOf(o, training) = RowsOf(o, Labelled)
        BY <1>1, <1>6, <2>2, RefreshKeepsRows
    <2>3. CASE RowsOf(o, training) # RowsOf(o, Labelled)
        BY <1>1, <2>1, <2>3 DEF IInv, LateRowsAreInWindow
    <2> QED BY <2>2, <2>3
<1>7. \A o : InWindow(o) => InWindow(o)' /\ InBothWindows(o)'
    BY <1>1 DEF InWindow, InBothWindows
<1>8. LateRowsAreInWindow' /\ LoadedRowsAreInWindow'
    BY <1>1, <1>2, <1>6, <1>7 DEF LateRowsAreInWindow, LoadedRowsAreInWindow, RowsOf
<1> QED BY <1>3, <1>4, <1>5, <1>8 DEF IInv

LEMMA SelectAllKeepsIInv ==
    ASSUME IInv, SelectAll
    PROVE  IInv'
<1>1. /\ run = "refreshing" /\ delta = {} /\ run' = "replacing" /\ delta' = Labelled
      /\ UNCHANGED <<received, staged, training, faults>>
    BY DEF SelectAll, IInv, NothingIsSelected
<1>2. Labelled' = Labelled /\ \A r : Sourced(r)' <=> Sourced(r)
    BY <1>1, ViewIsUnchanged
<1>3. After' = Labelled
    BY <1>1 DEF After, Untouched
<1>4. /\ Labelled \subseteq TrainingRows
      /\ \A r, s \in Labelled : r.of = s.of => r = s
      /\ \A r \in Labelled : r.of \in staged
    BY LabelledTypes, OneLabel DEF IInv, TypeOK, Sourced
<1>5. TypeOK'
    BY <1>1, <1>4 DEF IInv, TypeOK
<1>6. IdsAreUnique' /\ FirstsExist' /\ RowsAreMatched'
    BY <1>1, ReceivedKeeps
<1>7. NothingIsSelected' /\ OneRowPerObservation' /\ OneRowInDelta'
    BY <1>1, <1>4 DEF IInv, NothingIsSelected, OneRowPerObservation, OneRowInDelta
<1>8. ReplacementIsComplete'
    BY <1>1, LabelsAreKept DEF ReplacementIsComplete
<1>9. DeltaImproves'
    <2> SUFFICES ASSUME NEW r \in training, NEW d \in Labelled, r.of = d.of, r.target \in staged
                 PROVE  IsAsGood(d.target, r.target)
        BY <1>1 DEF DeltaImproves, IsAsGood, Before
    <2>1. PICK s \in Labelled : s.of = r.of /\ IsAsGood(s.target, r.target)
        BY <1>4, LabelsAreKept
    <2> QED BY <1>4, <2>1
<1>10. LateRowsAreInWindow'
    BY <1>1, <1>2 DEF IInv, LateRowsAreInWindow, RowsOf, InWindow
<1>11. LoadedRowsAreInWindow'
    BY <1>1, <1>2, <1>3 DEF LoadedRowsAreInWindow, RowsOf
<1> QED BY <1>5, <1>6, <1>7, <1>8, <1>9, <1>10, <1>11 DEF IInv

LEMMA LoadKeepsIInv ==
    ASSUME IInv, Load
    PROVE  IInv'
<1>1. /\ training' = After /\ delta' = {} /\ run' = "idle"
      /\ UNCHANGED <<received, staged, faults>>
    BY DEF Load, After
<1>2. After \subseteq training \cup delta
    BY DEF After
<1>3. Labelled' = Labelled /\ \A r : Sourced(r)' <=> Sourced(r)
    BY <1>1, ViewIsUnchanged
<1>4. After' = After
    BY <1>1 DEF After, Untouched
<1>5. TypeOK'
    BY <1>1, <1>2 DEF IInv, TypeOK
<1>6. IdsAreUnique' /\ FirstsExist' /\ RowsAreMatched'
    BY <1>1, <1>2, ReceivedKeeps
<1>7. NothingIsSelected' /\ OneRowInDelta' /\ DeltaImproves' /\ ReplacementIsComplete'
    BY <1>1 DEF NothingIsSelected, OneRowInDelta, DeltaImproves, ReplacementIsComplete
<1>8. OneRowPerObservation'
    <2> SUFFICES ASSUME NEW r \in After, NEW s \in After, r.of.id = s.of.id
                 PROVE  r = s
        BY <1>1 DEF OneRowPerObservation
    <2>1. CASE r \in delta /\ s \in delta
        <3>1. r.of = s.of
            BY <2>1 DEF IInv, RowsAreMatched, IsMatched, IdsAreUnique
        <3> QED BY <2>1, <3>1 DEF IInv, OneRowInDelta
    <2>2. CASE r \notin delta \/ s \notin delta
        BY <2>2 DEF After, Untouched, IInv, OneRowPerObservation
    <2> QED BY <2>1, <2>2
<1>9. \A o : InBothWindows(o) => InWindow(o)' /\ InBothWindows(o)'
    BY <1>1, <1>2 DEF InBothWindows, InWindow
<1>10. LateRowsAreInWindow'
    BY <1>1, <1>3, <1>9 DEF IInv, LateRowsAreInWindow, LoadedRowsAreInWindow, RowsOf
<1>11. LoadedRowsAreInWindow'
    BY <1>1, <1>3, <1>4, <1>9 DEF IInv, LoadedRowsAreInWindow, RowsOf
<1> QED BY <1>5, <1>6, <1>7, <1>8, <1>10, <1>11 DEF IInv

LEMMA RunFailsKeepsIInv ==
    ASSUME IInv, RunFails
    PROVE  IInv'
<1>1. /\ delta' = {} /\ run' = "idle" /\ faults' \in 0..MaxFaults
      /\ UNCHANGED <<received, staged, training>>
    BY TrainingAssumption DEF RunFails, IInv, TypeOK
<1>2. Labelled' = Labelled /\ \A r : Sourced(r)' <=> Sourced(r)
    BY <1>1, ViewIsUnchanged
<1>3. After' = training
    BY <1>1 DEF After, Untouched
<1>4. TypeOK'
    BY <1>1 DEF IInv, TypeOK
<1>5. IdsAreUnique' /\ FirstsExist' /\ RowsAreMatched'
    BY <1>1, ReceivedKeeps
<1>6. /\ NothingIsSelected' /\ OneRowInDelta' /\ DeltaImproves'
      /\ ReplacementIsComplete' /\ OneRowPerObservation'
    BY <1>1 DEF IInv, NothingIsSelected, OneRowInDelta, DeltaImproves,
                ReplacementIsComplete, OneRowPerObservation
<1>7. \A o : InWindow(o) => InWindow(o)' /\ InBothWindows(o)'
    BY <1>1 DEF InWindow, InBothWindows
<1>8. LateRowsAreInWindow' /\ LoadedRowsAreInWindow'
    BY <1>1, <1>2, <1>3, <1>7 DEF IInv, LateRowsAreInWindow, LoadedRowsAreInWindow, RowsOf
<1> QED BY <1>4, <1>5, <1>6, <1>8 DEF IInv

LEMMA InitEstablishesIInv ==
    ASSUME Init
    PROVE  IInv
<1>1. /\ received = {} /\ staged = {} /\ training = {} /\ delta = {}
      /\ run = "idle" /\ faults = 0
    BY DEF Init
<1>2. IdsAreUnique
    BY <1>1, FS_EmptySet DEF IdsAreUnique
<1>3. TypeOK
    BY <1>1, TrainingAssumption DEF TypeOK
<1>4. /\ NothingIsSelected /\ FirstsExist /\ RowsAreMatched /\ OneRowPerObservation
      /\ OneRowInDelta /\ DeltaImproves /\ ReplacementIsComplete
    BY <1>1 DEF NothingIsSelected, FirstsExist, RowsAreMatched, OneRowPerObservation,
                OneRowInDelta, DeltaImproves, ReplacementIsComplete
<1>5. LateRowsAreInWindow /\ LoadedRowsAreInWindow
    BY <1>1 DEF LateRowsAreInWindow, LoadedRowsAreInWindow
<1> QED BY <1>2, <1>3, <1>4, <1>5 DEF IInv

LEMMA StutterKeepsIInv ==
    ASSUME IInv, UNCHANGED vars
    PROVE  IInv'
<1>1. UNCHANGED <<received, staged, training, delta, run, faults>>
    BY DEF vars
<1>2. Labelled' = Labelled /\ \A r : Sourced(r)' <=> Sourced(r)
    BY <1>1, ViewIsUnchanged
<1>3. After' = After
    BY <1>1 DEF After, Untouched
<1>4. IdsAreUnique' /\ FirstsExist' /\ RowsAreMatched'
    BY <1>1, ReceivedKeeps
<1>5. TypeOK'
    BY <1>1 DEF IInv, TypeOK
<1>6. /\ NothingIsSelected' /\ OneRowInDelta' /\ DeltaImproves'
      /\ ReplacementIsComplete' /\ OneRowPerObservation'
    BY <1>1 DEF IInv, NothingIsSelected, OneRowInDelta, DeltaImproves, IsAsGood, Before,
                ReplacementIsComplete, OneRowPerObservation
<1>7. LateRowsAreInWindow' /\ LoadedRowsAreInWindow'
    BY <1>1, <1>2, <1>3 DEF IInv, LateRowsAreInWindow, LoadedRowsAreInWindow, RowsOf,
                            InWindow, InBothWindows
<1> QED BY <1>4, <1>5, <1>6, <1>7 DEF IInv

LEMMA NextKeepsIInv ==
    ASSUME IInv, [Next]_vars
    PROVE  IInv'
BY ArriveKeepsIInv, SelectKeepsIInv, RefreshStagingKeepsIInv, SelectAllKeepsIInv,
   LoadKeepsIInv, RunFailsKeepsIInv, StutterKeepsIInv DEF Next

----------------------------------------------------------------------------
(* The theorems.                                                           *)

\* The inductive invariant holds in every reachable state.
THEOREM InvariantHolds == Spec => []IInv
<1>1. Init => IInv
    BY InitEstablishesIInv
<1>2. IInv /\ [Next]_vars => IInv'
    BY NextKeepsIInv
<1> QED BY <1>1, <1>2, PTL DEF Spec

\* The staged observations, the mart and the selected rows keep their types.
THEOREM TypeCorrect == Spec => []TypeOK
<1>1. IInv => TypeOK
    BY DEF IInv
<1> QED BY <1>1, InvariantHolds, PTL

\* The lookback is wide enough: what a full refresh would change is always
\* inside the window of the next incremental run of ml_delay_training.sql,
\* but for rows whose sources a refresh of staging has dropped.
THEOREM LateRowsAlwaysInWindow == Spec => []LateRowsAreInWindow
<1>1. IInv => LateRowsAreInWindow
    BY DEF IInv
<1> QED BY <1>1, InvariantHolds, PTL

\* delete+insert with the unique key observation_id, and the replacement of
\* the table, keep one row for each observation of the mart.
THEOREM OneRow == Spec => []OneRowPerObservation
<1>1. IInv => OneRowPerObservation
    BY DEF IInv
<1> QED BY <1>1, InvariantHolds, PTL

\* While staging has an observation and its target, no load of
\* ml_delay_training.sql, incremental or full, loses the label, and its target
\* is only replaced by an earlier one.
THEOREM LabelsImprove == Spec => LabelsOnlyImprove
<1> DEFINE Improves ==
        \A r \in training :
            r.of \in staged /\ r.target \in staged =>
                \E s \in training' :
                    /\ s.of = r.of
                    /\ s.target = r.target \/ Before(s.target, r.target)
<1>1. ASSUME IInv, [Next]_vars
      PROVE  Improves
    <2> SUFFICES ASSUME NEW r \in training, r.of \in staged, r.target \in staged
                 PROVE  \E s \in training' : s.of = r.of /\ IsAsGood(s.target, r.target)
        BY DEF IsAsGood
    <2>1. CASE training' = training
        BY <2>1 DEF IsAsGood
    <2>2. CASE Load
        <3>1. CASE Untouched(r)
            BY <2>2, <3>1 DEF Load, IsAsGood
        <3>2. CASE ~Untouched(r)
            <4>1. PICK d \in delta : d.of = r.of
                <5>1. CASE run = "replacing"
                    BY <1>1, <5>1 DEF IInv, ReplacementIsComplete
                <5>2. CASE \E d \in delta : d.of.id = r.of.id
                    BY <1>1, <5>2 DEF IInv, RowsAreMatched, IsMatched, IdsAreUnique
                <5> QED BY <3>2, <5>1, <5>2 DEF Untouched
            <4>2. IsAsGood(d.target, r.target)
                BY <1>1, <4>1 DEF IInv, DeltaImproves
            <4> QED BY <2>2, <4>1, <4>2 DEF Load
        <3> QED BY <3>1, <3>2
    <2> QED BY <1>1, <2>1, <2>2
            DEF Next, Arrive, Select, RefreshStaging, SelectAll, RunFails, vars
<1>2. IInv /\ [Next]_vars => [Improves]_vars
    BY <1>1
<1> QED BY <1>2, InvariantHolds, PTL DEF Spec, LabelsOnlyImprove

\* An incremental run that no observation interrupts is as good as a full
\* refresh, whatever arrived late, and whatever failed or was skipped, before.
THEOREM EachRunCatchesUp == Spec => RunsCatchUp
<1> DEFINE CatchesUp == Select => AsRefreshed(After)'
<1>1. ASSUME IInv, Select
      PROVE  AsRefreshed(After)'
    <2>1. Labelled' = Labelled /\ \A r : Sourced(r)' <=> Sourced(r)
        BY <1>1, ViewIsUnchanged DEF Select
    <2>2. \A r \in Labelled : r.of \in staged
        BY <1>1, LabelledTypes DEF IInv, TypeOK, Sourced
    <2> SUFFICES ASSUME NEW r \in After' \cup Labelled
                 PROVE  \/ r \in After' /\ r \in Labelled
                        \/ \E s \in RowsOf(r.of, After') : ~Sourced(s)
        BY <2>1 DEF AsRefreshed, RowsOf
    <2>3. CASE r.of \in staged
        <3>1. CASE RowsOf(r.of, After') = RowsOf(r.of, Labelled)
            BY <3>1 DEF RowsOf
        <3>2. CASE RowsOf(r.of, After') # RowsOf(r.of, Labelled)
            BY <1>1, <2>3, <3>2, SelectionMatches
        <3> QED BY <3>1, <3>2
    <2>4. CASE r.of \notin staged
        BY <2>2, <2>4 DEF RowsOf, Sourced
    <2> QED BY <2>3, <2>4
<1>2. IInv /\ [Next]_vars => [CatchesUp]_vars
    BY <1>1
<1> QED BY <1>2, InvariantHolds, PTL DEF Spec, RunsCatchUp

=============================================================================
