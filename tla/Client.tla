------------------------------- MODULE Client -------------------------------
(***************************************************************************)
(* A Client whose chain holds caches, timeouts, fallbacks and hooks, with  *)
(* several goroutines in Do, one that takes a Stats snapshot, and one each *)
(* that calls HealthChecker and Close.                                     *)
(***************************************************************************)
EXTENDS Cache, SharedCall, Timeouts, HealthChecker

vars == <<chainVars, statsVars, cacheVars, sharedVars, timeoutVars, healthVars>>

Init ==
  /\ ChainInit
  /\ StatsInit
  /\ CacheInit
  /\ SharedInit
  /\ TimeoutsInit
  /\ HealthInit

\* It waits for a singleflight that a panic has left below zero.
Stuck(c) == pc[c] = "late" /\ Broken(leaderOf[c])

\* Every call is over or stuck, and neither Close nor the goroutine of the health
\* checker has a step to take.
Done ==
  /\ \A c \in cfg.callers : pc[c] = "done" \/ Panicked(c) \/ Stuck(c)
  /\ closer # "closing"
  /\ ~(loop = "running" /\ stopCh)

Terminating == Done /\ UNCHANGED vars

Execute(c) ==
  \/ ChainStep(c) /\ UNCHANGED <<statsVars, cacheVars, sharedVars, timeoutVars, healthVars>>
  \/ (RecordRequest(c) \/ RecordFailed(c)) /\ UNCHANGED <<cacheVars, sharedVars, timeoutVars, healthVars>>
  \/ CacheStep(c) /\ UNCHANGED <<sharedVars, timeoutVars, healthVars>>
  \/ SharedStep(c) /\ UNCHANGED <<statsVars, cacheVars, timeoutVars, healthVars>>
  \/ TimeoutsStep(c) /\ UNCHANGED <<statsVars, cacheVars, sharedVars, healthVars>>

Surroundings(c) ==
  \/ Fault(c) /\ UNCHANGED <<statsVars, cacheVars, sharedVars, timeoutVars, healthVars>>
  \/ Expire(c) /\ UNCHANGED <<statsVars, cacheVars, sharedVars, healthVars>>

Next ==
  \/ \E c \in cfg.callers : Execute(c) \/ Surroundings(c)
  \/ Tick /\ UNCHANGED <<statsVars, cacheVars, sharedVars, timeoutVars, healthVars>>
  \/ Snapshot /\ UNCHANGED <<cacheVars, sharedVars, timeoutVars, healthVars>>
  \/ HealthStep /\ UNCHANGED <<statsVars, cacheVars, sharedVars, timeoutVars>>
  \/ Terminating

Spec == Init /\ [][Next]_vars

\* The goroutine of the health checker and a Close under way are scheduled; a
\* Close need not come.
FairSpec == Spec /\ WF_vars(LoopStops /\ UNCHANGED <<statsVars, cacheVars, sharedVars, timeoutVars>>)
                 /\ WF_vars(CloseChecker /\ UNCHANGED <<statsVars, cacheVars, sharedVars, timeoutVars>>)

-----------------------------------------------------------------------------
(* Properties *)

Statuses == {"none", "ok", "nil", "err", "timeout", "fallback", "panic"}
Bodies == {"none", "nil", "stream", "whole", "part"}

\* The types.  The cache holds at most MaxEntries, but for those stored when all
\* of a full cache were stored at the same reading of the clock.
TypeOK ==
  /\ at \in [Callers -> 0 .. Network]
  /\ pc \in [Callers -> {"idle", "in", "out", "age", "store", "start", "judge", "wait", "late", "again",
                         "delete", "recorded", "returned", "done"}]
  /\ resp \in [Callers -> [status : Statuses, body : Bodies]]
  /\ \A c \in Callers : resp[c].status = "ok" <=> resp[c].body # "none"
  /\ ended \in [Callers -> SUBSET (0 .. Network)]
  /\ live \in [Callers -> SUBSET DOMAIN cfg.chain]
  /\ entries \in [Keys -> Entry \cup {NoEntry}]
  /\ found \in [Callers -> Entry \cup {NoEntry}]
  /\ Len(durations) <= MaxSamples
  /\ closer = "panicked" => stopCh
  /\ Cardinality(Stored) <= MaxEntries + ties

\* README: "Parent ctx cancellation takes precedence".  A call whose own context
\* ended before any timeout of the chain is not answered with ErrTimeout, however
\* many timeouts are nested and whichever of them looks first; but it may be given
\* that of a call it shares, whose own context did live.
ParentFirst ==
  \A c \in Callers : resp[c].status = "timeout" => ~callerFirst[c] \/ ~callerFirst[leaderOf[c]]

\* A truncated body, be it the caller's own response, one out of the cache or one
\* of a shared call, goes back to a call of the same key whose connection or
\* context ended before its body was read.  A timeout inside the cache or the
\* singleflight always ends it (timeout.go's deferred cancel); without faults and
\* such timeouts every body is whole.
BodyWhole ==
  \A c \in Callers : resp[c].body = "part" =>
    \E d \in Callers : key[d] = key[c] /\ ended[d] # {}

Skips == Cardinality({c \in Callers : pc[c] # "idle" /\ key[c] = NoKey})

\* With the cache outermost, and added by WithCache, every request has been a hit
\* or a miss by the time it is counted, also in a snapshot that is taken meanwhile,
\* counter by counter; and no request has failed that is not counted yet.
StatsOrdered ==
  /\ stats.failed <= stats.requests
  /\ cfg.chain # <<>> /\ Head(cfg.chain) = "cache" /\ cfg.counted =>
       /\ stats.requests <= stats.hits + stats.misses + Skips
       /\ reader > Len(Order) => seen.requests <= seen.hits + seen.misses + Skips

\* A call that the adaptive timeout has cut off does not make it shorter, but by
\* the time that passed between setting the deadline and starting the watch; not
\* so when older durations are dropped in the same step.
TimedOutNeverLowers ==
  [][\A c \in Callers :
       /\ At(c, "adaptive", "out") /\ pc'[c] = "judge"
       /\ at[c] \in ended[c] /\ limit[c] = median
       /\ Len(durations) \in MinSamples .. MaxSamples - 1
       => median' >= median - (begun[c] - (due[c] - limit[c]))]_vars

\* README: "Goroutine cleanup via client.Close()".  A Close that begins when
\* HealthChecker has returned ends the goroutine, however often Close is called.
CloseStopsHealth == (checker = "set" /\ closer = "closing") ~> loop = "ended"
=============================================================================
