-------------------------- MODULE MCCircuitBreaker --------------------------
(* One key with up to three concurrent requests; the breaker trips at half *)
(* of two requests.                                                        *)
EXTENDS CircuitBreaker
=============================================================================
