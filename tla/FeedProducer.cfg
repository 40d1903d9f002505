\* Three snapshots, the second unparsable; two faults.
SPECIFICATION FairSpec
CONSTANTS
    e1 = e1
    e2 = e2
    e3 = e3
    EventsIn <- Feed
    Unparsable = {2}
    InitialDelay = 1
    MaxDelay = 6
    MaxFailures = 3
    MaxFaults = 2
INVARIANTS
    RecordedIsPublished
    BackoffMatchesFailures
PROPERTIES
    NewestIsPublished
    SignalStops
