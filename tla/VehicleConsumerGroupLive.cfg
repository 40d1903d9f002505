\* Liveness: a deployed consumer and one started by hand with --max-messages 2
\* share a partition; one event, one fault.
SPECIFICATION FairSpec
CONSTANTS
    c1 = c1
    c2 = c2
    e1 = e1
    e2 = e2
    e3 = e3
    Consumers = {c1, c2}
    Partitions = {0}
    EventIds = {e1}
    Malformed = Malformed
    Unstorable = {}
    PartitionOf <- OnePartition
    NoItem = NoItem
    NoLimit = NoLimit
    BatchSize = 2
    MaxMessages <- OneLimited
    MaxLog = 2
    MaxFaults = 1
INVARIANT
    LimitRespected
PROPERTIES
    EveryMessageBecomesDurable
    LimitedRunEnds
