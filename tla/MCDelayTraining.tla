-------------------------- MODULE MCDelayTraining --------------------------
(* Small instances of DelayTraining.                                        *)
EXTENDS DelayTraining

CONSTANTS t1, t2

============================================================================
