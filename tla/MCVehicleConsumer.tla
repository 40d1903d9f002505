-------------------------- MODULE MCVehicleConsumer --------------------------
(* Small instances of VehicleConsumer.                                      *)
EXTENDS VehicleConsumer, TLC

CONSTANTS c1, c2, e1, e2, e3

\* Every event in one partition.
OnePartition == [e \in EventIds |-> 0]

\* The deployed consumers, and one more started by hand with --max-messages 2.
Unlimited == [c \in Consumers |-> NoLimit]
OneLimited == [c \in Consumers |-> IF c = c2 THEN 2 ELSE NoLimit]

\* Consumers are interchangeable, and so are the events of one partition that
\* PostgreSQL accepts.
Symmetry == Permutations(Consumers) \cup Permutations(EventIds \ Unstorable)

============================================================================
