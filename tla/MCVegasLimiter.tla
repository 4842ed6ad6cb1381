--------------------------- MODULE MCVegasLimiter ---------------------------
(* Model-checking instance of VegasLimiter: the code's alpha, beta and     *)
(* least limit, a window of four latencies, and limits on both sides of the*)
(* smallest one that is reachable.                                         *)
EXTENDS VegasLimiter
=============================================================================
