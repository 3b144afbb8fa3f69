--------------------------- MODULE MCSingleflight ---------------------------
(* Small instances of Singleflight for TLC. *)
EXTENDS Singleflight

CONSTANTS c1, c2, c3

ThreeCallers == {c1, c2, c3}
=============================================================================
