--------------------------- MODULE DelayTraining ---------------------------
(***************************************************************************)
(* The training mart (dbt/models/marts/ml_delay_training.sql): an          *)
(* observation enters it when the same vehicle was seen on the same trip   *)
(* four stop sequences later.  Observations reach staging out of order, so *)
(* that a row may get a label, an earlier label or another history long    *)
(* after it was staged; an incremental run computes again only what is     *)
(* within a lookback of the newest row of the mart.  A full refresh stages *)
(* again what retention left of the raw table (ingestion/retention.py),    *)
(* and replaces the mart in a later step, which may not come.              *)
(*                                                                         *)
(* A trip stands for one vehicle's run of a trip; each observation has its *)
(* scheduled stop, and the schedule does not change.  A row's features are *)
(* abstracted to the observations they are computed from.  dbt and         *)
(* PostgreSQL are modelled from how the code uses them.                    *)
(***************************************************************************)
EXTENDS Integers, FiniteSets

CONSTANTS
    Trips,         \* runs of trips
    Stops,         \* stop sequences
    Lateness,      \* how far behind a newer observation one may be staged
    Travel,        \* how long a trip takes for Ahead stops
    Lookback,      \* realtime_incremental_lookback_hours
    MaxRows,       \* bound: observations
    MaxTime,       \* bound: their timestamps
    MaxDropped,    \* bound: those retention has deleted
    MaxFaults      \* bound: failed runs

ASSUME TrainingAssumption ==
    /\ Stops \subseteq Nat
    /\ Lateness \in Nat
    /\ Travel \in Nat
    /\ Lookback \in Nat /\ Lateness + Travel <= Lookback
    /\ MaxRows \in Nat
    /\ MaxTime \in Nat
    /\ MaxDropped \in Nat
    /\ MaxFaults \in Nat

Ahead == 4

VARIABLES
    received,      \* all observations ever staged; their ids count up
    staged,        \* those staging holds
    training,      \* the rows of the mart
    delta,         \* the rows the running model selected
    run,           \* what a run of dbt is at
    faults         \* faults so far

vars == <<received, staged, training, delta, run, faults>>

Observations == [id : 1..MaxRows, trip : Trips, stop : Stops, time : 0..MaxTime]

\* A row: the observation, its target and those its history averages over.
TrainingRows == [of : Observations, target : Observations, history : SUBSET Observations]

TypeOK ==
    /\ received \subseteq Observations
    /\ staged \subseteq received
    /\ training \subseteq TrainingRows
    /\ delta \subseteq TrainingRows
    /\ run \in {"idle", "loading", "refreshing", "replacing"}
    /\ faults \in 0..MaxFaults

Init ==
    /\ received = {}
    /\ staged = {}
    /\ training = {}
    /\ delta = {}
    /\ run = "idle"
    /\ faults = 0

----------------------------------------------------------------------------
(* The feature view, int_delay_prediction_features.                        *)

\* order by event_timestamp, observation_id
Before(o, p) == o.time < p.time \/ (o.time = p.time /\ o.id < p.id)

\* future_candidates: strictly later, Ahead stop sequences further on.
Candidates(o) ==
    {p \in staged : p.trip = o.trip /\ p.stop = o.stop + Ahead /\ p.time > o.time}

\* Mutant of First: the order is descending.
Last(p, set) == \A q \in set \ {p} : Before(q, p)

\* target_rank = 1
First(p, set) == \A q \in set \ {p} : Before(p, q)

\* rows between unbounded preceding and 1 preceding
History(o) == {p \in staged : Before(p, o)}

\* The rows with has_target_delay_4_stops: what a full refresh makes the mart.
Labelled ==
    UNION {{[of |-> o, target |-> p, history |-> History(o)] :
                p \in {q \in Candidates(o) : First(q, Candidates(o))}} : o \in staged}

----------------------------------------------------------------------------

\* Mutant of InWindow: what is newer than the newest row of the mart.
NoLookback(o) == \A r \in training : o.time >= r.of.time

\* Mutant of InWindow: max over an empty mart is null.
NoCoalesce(o) == \E r \in training : o.time >= r.of.time - Lookback

\* event_timestamp >= max(prediction_timestamp) - the lookback
InWindow(o) == \A r \in training : o.time >= r.of.time - Lookback

\* An observation is staged.  It is at most Lateness behind the newest one
\* ever staged, and a trip is Ahead stops further within Travel.
Arrive(trip, stop, time) ==
    LET o == [id |-> Cardinality(received) + 1, trip |-> trip, stop |-> stop, time |-> time]
    IN  /\ o.id <= MaxRows
        /\ \A p \in received :
               /\ p.time - time <= Lateness
               /\ p.trip = trip /\ p.stop = stop + Ahead => p.time - time <= Travel
               /\ p.trip = trip /\ stop = p.stop + Ahead => time - p.time <= Travel
        /\ received' = received \cup {o}
        /\ staged' = staged \cup {o}
        /\ UNCHANGED <<training, delta, run, faults>>

\* An incremental run selects what it is to compute again, in one snapshot.
Select ==
    /\ run = "idle"
    /\ run' = "loading"
    /\ delta' = {r \in Labelled : InWindow(r.of)}
    /\ UNCHANGED <<received, staged, training, faults>>

\* dbt build --full-refresh: staging is made again from the raw table, from
\* which retention has deleted some: those fetched before its cutoff, whatever
\* that is, which need not be the first ones that were inserted.
RefreshStaging(left) ==
    /\ run = "idle"
    /\ Cardinality(received \ left) <= MaxDropped
    /\ run' = "refreshing"
    /\ staged' = left
    /\ UNCHANGED <<received, training, delta, faults>>

\* Then the mart is, from all of the feature view.
SelectAll ==
    /\ run = "refreshing"
    /\ run' = "replacing"
    /\ delta' = Labelled
    /\ UNCHANGED <<received, staged, training, faults>>

\* Mutant of Untouched: insert without delete.
Appended(r) == r \in training

\* What the load leaves alone: delete+insert with the unique key
\* observation_id, or the whole table replaced.
Untouched(r) == run # "replacing" /\ \A d \in delta : d.of.id # r.of.id

Load ==
    /\ run \in {"loading", "replacing"}
    /\ run' = "idle"
    /\ training' = {r \in training : Untouched(r)} \cup delta
    /\ delta' = {}
    /\ UNCHANGED <<received, staged, faults>>

\* The run ends without its load: it fails and is rolled back, or a test of
\* staging fails and dbt skips the mart.
RunFails ==
    /\ run # "idle"
    /\ faults < MaxFaults
    /\ faults' = faults + 1
    /\ run' = "idle"
    /\ delta' = {}
    /\ UNCHANGED <<received, staged, training>>

Next ==
    \/ \E trip \in Trips, stop \in Stops, time \in 0..MaxTime : Arrive(trip, stop, time)
    \/ \E left \in SUBSET staged : RefreshStaging(left)
    \/ Select \/ SelectAll \/ Load \/ RunFails

Spec == Init /\ [][Next]_vars

\* Fairness: the incremental model is run again and again, and a load ends.
\* Nobody has to ask for a full refresh.
FairSpec == Spec /\ WF_vars(Select) /\ WF_vars(Load)

----------------------------------------------------------------------------
(* Properties.                                                             *)

RowsOf(o, set) == {r \in set : r.of = o}

\* Everything the row was computed from is still in staging.
Sourced(r) == {r.of, r.target} \cup r.history \subseteq staged

\* The lookback is wide enough: an observation whose row in the mart, or the
\* lack of one, is not what a full refresh would make of it is inside the
\* window of the next run, however late what changed it was staged, in
\* whatever part of a run, and after whatever failures.  Left out are rows
\* computed from observations a full refresh of staging has dropped since.
LateRowsAreInWindow ==
    \A o \in staged :
        RowsOf(o, training) # RowsOf(o, Labelled) =>
            InWindow(o) \/ \E r \in RowsOf(o, training) : ~Sourced(r)

\* The dbt test "unique" of observation_id: one row per observation, although
\* a row is computed again and again and its label may change.
OneRowPerObservation == \A r, s \in training : r.of.id = s.of.id => r = s

\* A label is lost, or gets a later target, only when a full refresh has
\* dropped the observation or its target from staging: as long as staging has
\* both, a load, of an incremental run or of a full refresh, keeps the label
\* or replaces its target by an earlier one.
LabelsOnlyImprove ==
    [][\A r \in training :
          r.of \in staged /\ r.target \in staged =>
              \E s \in training' :
                  /\ s.of = r.of
                  /\ s.target = r.target \/ Before(s.target, r.target)]_vars

\* What the load of the running model makes of the mart.
After == {r \in training : Untouched(r)} \cup delta

\* The mart is what a full refresh would make it, but for observations whose
\* row was computed from what staging has dropped.
AsRefreshed(mart) ==
    \A r \in mart \cup Labelled :
        \/ r \in mart /\ r \in Labelled
        \/ \E s \in RowsOf(r.of, mart) : ~Sourced(s)

\* An incremental run is as good as a full refresh: what it selects makes the
\* mart what a full refresh would at that moment, whatever arrived late, and
\* whichever runs failed, or refreshed staging and not the mart, before it.
RunsCatchUp == [][Select => AsRefreshed(After)']_vars

\* When nothing arrives any more, and no one asks for a full refresh any more,
\* the incremental runs bring the mart to what a full refresh makes of all
\* that was staged (docs/dbt-incremental-processing.md, "This lookback allows
\* a recent observation to enter the mart when its four-stop-ahead target
\* arrives later").
TrainingCatchesUp == <>[](run # "refreshing") => <>[]AsRefreshed(training)

============================================================================
