-------------------------- MODULE MCCircuitBreaker --------------------------
(* CircuitBreaker for TLC.  No symmetry: one of its runs checks liveness.  *)
EXTENDS CircuitBreaker
=============================================================================
