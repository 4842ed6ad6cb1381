---------------------------- MODULE MCTelemetry ----------------------------
(* Model-checking instance of Telemetry. *)
EXTENDS Telemetry, TLC

RequestSymmetry == Permutations(Requests)
=============================================================================
