-------------------------- MODULE MCCircuitBreaker --------------------------
(* Small instances of CircuitBreaker for TLC. *)
EXTENDS CircuitBreaker

CONSTANTS c1, c2, c3

TwoCallers == {c1, c2}
ThreeCallers == {c1, c2, c3}
=============================================================================
