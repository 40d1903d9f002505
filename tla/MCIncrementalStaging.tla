------------------------ MODULE MCIncrementalStaging ------------------------
(* Small instances of IncrementalStaging.                                   *)
EXTENDS IncrementalStaging, TLC

CONSTANTS w1, w2, e1, e2, e3

============================================================================
