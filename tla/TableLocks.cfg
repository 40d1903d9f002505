\* Two consumers, a retention worker, a reader.
SPECIFICATION FairLocksSpec
CONSTANTS
    c1 = c1
    c2 = c2
    w1 = w1
    r1 = r1
    Consumers = {c1, c2}
    Workers = {w1}
    Readers = {r1}
INVARIANTS
    BatchesAreAlone
    OnlyConsumersDeadlock
PROPERTY
    ConsumersGoOn
