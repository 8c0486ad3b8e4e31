--------------------------- MODULE MCQueryRecord ---------------------------
(* One turn's record, with client timings that reach the turn's own worker  *)
(* and feedback that reaches another one.                                   *)
EXTENDS QueryRecord

CONSTANTS ownTiming, otherFeedback
=============================================================================
