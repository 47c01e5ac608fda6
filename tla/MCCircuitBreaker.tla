-------------------------- MODULE MCCircuitBreaker --------------------------
(* Model values for checking CircuitBreaker. *)
EXTENDS CircuitBreaker

CONSTANTS w1, w2

TwoWorkers == {w1, w2}
=============================================================================
