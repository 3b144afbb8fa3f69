----------------------------- MODULE ClientStats -----------------------------
(***************************************************************************)
(* statsRecorder (stats.go): atomic counters, added to by Do and by the    *)
(* cache, and read one by one by snapshot, in the order of its code.       *)
(*                                                                         *)
(* Left out: the counters that nothing adds to (New gives the policies the *)
(* recorder that it wraps only afterwards, so that retries, fallbacks,     *)
(* timeouts, the circuit's state and bulkheadDenied keep their zero        *)
(* values), durations, and the recorder that statsRecorder passes on to.   *)
(***************************************************************************)
EXTENDS Chain

VARIABLES stats,  \* requests, failed, cacheHits and cacheMisses
          seen,   \* what Stats has loaded of them
          reader  \* the next counter of Order that it loads

statsVars == <<stats, seen, reader>>

Counters == {"requests", "failed", "hits", "misses"}
Zero == [n \in Counters |-> 0]

StatsInit ==
  /\ stats = Zero
  /\ seen = Zero
  /\ reader = IF cfg.watch = "Stats" THEN 1 ELSE Cardinality(Counters) + 1

\* stats.n.Add(1)
Count(n) == stats' = [stats EXCEPT ![n] = @ + 1]

\* Do calls RecordRequest, which adds to requests ...
RecordRequest(c) ==
  /\ at[c] = 0 /\ pc[c] = "out" /\ ~Panicking(c)
  /\ Goto(c, "recorded")
  /\ Count("requests")
  /\ UNCHANGED <<context, at, resp, seen, reader>>

\* ... and then to failed, if there is no response or its status is 5xx, which
\* a response may have.
RecordFailed(c) ==
  /\ pc[c] = "recorded"
  /\ Goto(c, "returned")
  /\ \/ Count("failed")
     \/ resp[c].status = "ok" /\ UNCHANGED stats
  /\ UNCHANGED <<context, at, resp, seen, reader>>

\* Mutant: the cache's counters are loaded first.
CacheFirst == <<"hits", "misses", "requests", "failed">>

\* The order in which snapshot loads the counters.
Order == <<"requests", "failed", "hits", "misses">>

Snapshot ==
  /\ reader \in DOMAIN Order
  /\ seen' = [seen EXCEPT ![Order[reader]] = stats[Order[reader]]]
  /\ reader' = reader + 1
  /\ UNCHANGED <<chainVars, stats>>
=============================================================================
