--------------------------- MODULE MCFeedProducer ---------------------------
(* A feed of three snapshots that share events: a vehicle that did not     *)
(* move is the same observation.                                           *)
EXTENDS FeedProducer

CONSTANTS e1, e2, e3

Feed == <<{e1, e2}, {e1}, {e2, e3}>>

============================================================================
