----------------------------- MODULE MCRetention -----------------------------
(* Small instances of Retention.                                            *)
EXTENDS Retention, TLC

CONSTANTS w1, w2

\* The repeating worker's pass ends before the backlog does; the one that an
\* operator starts may run another batch.
OneAndTwo == [w \in Workers |-> IF w = w1 THEN 1 ELSE 2]

============================================================================
