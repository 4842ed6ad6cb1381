-------------------------- MODULE MCCircuitBreaker --------------------------
(* The model-checking instance of CircuitBreaker: two requests in flight.  *)
EXTENDS CircuitBreaker
=============================================================================
