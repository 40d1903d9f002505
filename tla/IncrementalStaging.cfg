\* Two writers, three events; the topic and the table keep an event for a day.
SPECIFICATION FairSpec
CONSTANTS
    w1 = w1
    w2 = w2
    e1 = e1
    e2 = e2
    e3 = e3
    Writers = {w1, w2}
    EventIds = {e1, e2, e3}
    BrokerDays = 1
    SourceDays = 1
    MaxTime = 3
    MaxId = 4
    MaxFaults = 1
INVARIANTS
    NothingIsPassedOver
    StagedEventsAreUnique
PROPERTIES
    NewRowsAreAbove
    SourceIsLoaded
