------------------------------ MODULE EventSink ------------------------------
(***************************************************************************)
(* What the consumer promises (README.md, "at-least-once processing with   *)
(* idempotent persistence"): a topic of growing partitions, the set of its *)
(* messages that are stored for good, and an acknowledged offset for each  *)
(* partition, from which a restart reads, that covers stored messages      *)
(* only.  An acknowledged offset may move back: that replays, and replays  *)
(* are harmless.                                                           *)
(***************************************************************************)
EXTENDS Integers

CONSTANT Partitions

VARIABLES
    length,        \* messages published to each partition
    durable,       \* the stored messages
    acked          \* the acknowledged offset of each partition

vars == <<length, durable, acked>>

Below(p, n) == {[partition |-> p, offset |-> o] : o \in 0..(n - 1)}

Published(sizes) == UNION {Below(p, sizes[p]) : p \in Partitions}

Init ==
    /\ length = [p \in Partitions |-> 0]
    /\ durable = {}
    /\ acked = [p \in Partitions |-> 0]

\* A message arrives; a repeated event is stored already.
Publish(p) ==
    /\ length' = [length EXCEPT ![p] = @ + 1]
    /\ durable \subseteq durable'
    /\ durable' \subseteq durable \cup {[partition |-> p, offset |-> length[p]]}
    /\ UNCHANGED acked

\* Messages that were published become stored, and nothing else changes.
Store ==
    /\ durable \subseteq durable'
    /\ durable' \subseteq Published(length)
    /\ UNCHANGED <<length, acked>>

\* An offset is acknowledged when everything before it is stored.
Acknowledge ==
    /\ acked' \in [Partitions -> Nat]
    /\ \A p \in Partitions : acked'[p] # acked[p] => Below(p, acked'[p]) \subseteq durable
    /\ UNCHANGED <<length, durable>>

Next == (\E p \in Partitions : Publish(p)) \/ Store \/ Acknowledge

Spec == Init /\ [][Next]_vars

============================================================================
