\* Two consumers share one partition with three messages, a batch holds three;
\* one fault; e3 is an event whose row is always refused, and the consumer that
\* holds it retries for ever (no deadlock check: the retry changes nothing).
SPECIFICATION Spec
CONSTANTS
    c1 = c1
    c2 = c2
    e1 = e1
    e2 = e2
    e3 = e3
    Consumers = {c1, c2}
    Partitions = {0}
    EventIds = {e1, e2, e3}
    Malformed = Malformed
    Unstorable = {e3}
    PartitionOf <- OnePartition
    NoItem = NoItem
    NoLimit = NoLimit
    BatchSize = 3
    MaxMessages <- Unlimited
    MaxLog = 3
    MaxFaults = 1
CHECK_DEADLOCK FALSE
SYMMETRY Symmetry
INVARIANTS
    CommittedIsDurable
    PolledIsDurableOrInHand
    MetricsAgreeWithTables
PROPERTY
    SinkSpec
