\* Four observations of two trips at two stops, up to one hour late and one hour
\* on their way; a lookback of two hours; retention drops one; one failed run.
SPECIFICATION FairSpec
CONSTANTS
    t1 = t1
    t2 = t2
    Trips = {t1, t2}
    Stops = {1, 5}
    Lateness = 1
    Travel = 1
    Lookback = 2
    MaxRows = 4
    MaxTime = 4
    MaxDropped = 1
    MaxFaults = 1
INVARIANTS
    LateRowsAreInWindow
    OneRowPerObservation
PROPERTIES
    LabelsOnlyImprove
    RunsCatchUp
    TrainingCatchesUp
