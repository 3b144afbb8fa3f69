------------------------------ MODULE MCClient ------------------------------
(* Small clients for TLC; each is a configuration of its own. *)
EXTENDS Client

CONSTANTS c1, c2, c3, k1, k2

One == {c1}
Two == {c1, c2}
Three == {c1, c2, c3}
KeySet == {k1, k2}
RuledKeys == {k1}

Calling(chain, callers, keys, faults) ==
  [chain |-> chain, callers |-> callers, keys |-> keys, faults |-> faults,
   watch |-> "nothing", counted |-> TRUE]

Clients == {
  \* Three callers, two keys, room for one entry.
  Calling(<<"cache">>, Three, KeySet, {}),
  \* A cache that buffers inside a timeout, and one outside it.
  Calling(<<"timeout", "cache">>, Two, {k1}, {"context"}),
  Calling(<<"cache", "timeoutMap", "hooks">>, Two, KeySet, {}),
  Calling(<<"cache">>, Two, {k1}, {"context", "network"}),
  \* The order of README: the call is shared outside its timeout.
  Calling(<<"singleflight", "timeout", "hooks">>, Two, {k1}, {"context"}),
  Calling(<<"timeout", "singleflight">>, Two, KeySet, {}),
  \* Nested timeouts, with a fallback around and between them.
  Calling(<<"fallback", "timeout", "timeout", "hooks">>, One, {NoKey}, {"context"}),
  Calling(<<"timeout", "fallback", "adaptive">>, One, {NoKey}, {"context", "network"}),
  \* A fallback's answer, with or without a body, cached and shared.
  Calling(<<"adaptive", "singleflight", "cache", "fallback">>, Two, {k1}, {}),
  Calling(<<"singleflight", "fallback">>, Two, {k1}, {}),
  \* Three calls that set the timeout of one another.
  Calling(<<"adaptive">>, Three, {NoKey}, {}),
  \* A snapshot during two requests; a cache without the statistics; Close beside
  \* HealthChecker.
  [Calling(<<"cache">>, Two, {k1, NoKey}, {}) EXCEPT !.watch = "Stats"],
  [Calling(<<"cache", "fallback">>, Two, {k1}, {}) EXCEPT !.watch = "Stats", !.counted = FALSE],
  [Calling(<<"hooks">>, One, {NoKey}, {}) EXCEPT !.watch = "HealthChecker"] }
=============================================================================
