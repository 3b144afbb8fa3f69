---------------------------- MODULE MCRateLimit ----------------------------
(* A small instance of RateLimit for TLC. *)
EXTENDS RateLimit

CONSTANTS c1, c2, c3

ThreeCallers == {c1, c2, c3}
=============================================================================
