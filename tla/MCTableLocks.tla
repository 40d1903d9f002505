---------------------------- MODULE MCTableLocks ----------------------------
(* Small instances of TableLocks.                                           *)
EXTENDS TableLocks, TLC

CONSTANTS c1, c2, w1, r1

============================================================================
