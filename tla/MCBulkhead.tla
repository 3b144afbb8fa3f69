----------------------------- MODULE MCBulkhead -----------------------------
(* Small instances of Bulkhead for TLC. *)
EXTENDS Bulkhead

CONSTANTS w1, w2, r1, r2, r3

TwoWorkers == {w1, w2}
ThreeReqs == {r1, r2, r3}
NoHigh == {}
OneHigh == {r1}

FailFastOnly == {[maxQueue |-> 0, priority |-> FALSE]}
Queueing == {[maxQueue |-> 1, priority |-> p] : p \in BOOLEAN}
AllConfigs == FailFastOnly \union Queueing
=============================================================================
