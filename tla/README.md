# Ambatukam: verification project

Ambatukam is a Go HTTP client whose behaviour is a chain of policies around
`http.Client.Do`: retry, circuit breaker, bulkhead, rate limiter, singleflight,
timeouts, fallback, cache. Each policy has one method,
`Execute(ctx, req, next)`, called by as many goroutines as the program has
requests, and most keep state shared by all of them. What can go wrong is what
these goroutines do to that state between one another's steps; this project
models the policies at the grain of their locks, atomics and channel
operations, checks small instances with TLC and proves the main theorems, for
every number of callers and every configuration, with TLAPS.

## 1. Inventory

| Component (source) | State | Operations | Hard part | What makes it correct |
|---|---|---|---|---|
| Circuit breaker (`circuit.go`) | `state`, `failures`, `generation`, `openedAt`, half-open permits, under an RWMutex | `allowRequest`, `onSuccess`, `onFailure` | the lock is released between the read and the upgrade; outcomes return after the state has changed; `next` may panic | the state machine closed / open / half-open; no admission while open; bounded trials; stale outcomes ignored; half-open ends |
| Bulkhead (`bulkhead.go`) | two channels, worker goroutines, `inFlight`, `denied`, `closed` | `Execute` (fail-fast, queueing, priority), `worker`, `Close` | channel hand-over, random `select`, callers that give up while their request is queued or running, shutdown | counts exact; no lost wake-up; abandoned work bounded; all callers and workers come back |
| Singleflight (`singleflight.go`) | map of calls under a mutex, a WaitGroup per call | `Execute` as leader or follower, eviction of entries older than the TTL | entries replaced under their leader; panics of `next`; the deletion of somebody else's entry | one call per key; no wrong sharing; followers released with a result |
| Rate limiter (`ratelimit.go`) | channel of `Burst` tokens, refill goroutine, ticker | `Execute` (two selects and a loop), `refillLoop`, `Close` | token against timer, lost ticks, Close while callers wait | burst and rate over every interval; no lost token; every caller answered |
| Retry (`retry.go`) | local: attempt, last response; shared: the budget | `Execute`, `shouldRetry`, `nextDelay` | contexts that end during a pause; closing each response exactly once | no leaked or doubly closed body; attempts bounded; stops with the context |
| Retry budget (`budget.go`) | two atomic counters, an atomic window start, a mutex | `Allow` | checked and added in separate atomic steps; window reset under way | overshoot bounded; one reset per window |
| Response cache (`cache.go`) | map under an RWMutex | `Execute`: lookup, miss, eviction, store | concurrent misses, the age tested after the unlock, clock ties | bounded size, freshness |
| Timeouts (`timeout.go`) | none | `Execute` with a child context, `matchURL` | child deadline against the caller's own; map order of overlapping patterns | the right error for the right deadline |
| Adaptive timeout (`adaptive.go`) | window of durations, its percentile, under an RWMutex | `Execute`, `record` | timed-out calls feed the statistics that set the timeout | the timeout follows the latency |
| Backoff (`backoff.go`) | none | exponential, constant, linear delay | overflow, jitter past the maximum | delays within their limits |
| Fallback (`fallback.go`) | none | `Execute` | the response it replaces must be closed | always answers when it can |
| Client (`client.go`, `policy.go`) | the chain, built once | `New`, `Do`, `Close` | order of wiring (metrics, statistics, hooks), repeated Close | the documented policy order |
| Health checker (`health.go`), statistics (`stats.go`) | atomics | `getStatus`, `Close`, `snapshot` | double Close; counters read one by one | the goroutine ends with the client; the counters of one snapshot fit one another |
| Metrics, logging, options, presets, JSON, request ids, interceptors, errors | none shared | one function per request | | |

The policies interact only by calling `next`: whatever is inside may take any
time, fail, or panic, and a context may end at any moment. What one does to
another goes through the context it passes in and the response it passes out: a
timeout ends the context that a response's body still depends on, a cache or a
singleflight outside it reads that body for everybody. Two share an object:
`RetryPolicy` asks the `RetryBudget` that `Client.New` installs. `Client.Close`
closes the bulkhead and the rate limiter while requests are under way.

The "hazards" of `PROJECT.json` list, at their lines, the behaviours of this
code that a test would hardly reach and the property that covers each.

## 2. Modules and their correspondence to the code

Conventions. A goroutine running `Execute` is a caller with a program counter
`pc`; each critical section, atomic access or channel operation is one action
whose guard is the code's condition. `next` is nondeterministic: it returns
what the policy tells apart. Counters that would run for ever are bounded by a
named constant (`MaxCalls`, `MaxTicks`, `MaxTime`). `Terminating` is the
stuttering of a finished bounded run, so deadlock is checked everywhere.
Operators commented "Mutant" are plausible mistakes in the definition that
follows them; nothing in the specification uses them.

- **CircuitBreaker** (`circuit.go`). `allowRequest` is split at the lock
  upgrade: `AdmitClosed`, `RejectOpen`, `ReadExpired`, `ReadPermit`,
  `RejectHalfOpen` are what happens under `mu.RLock`; `EnterHalfOpen`,
  `TakePermitLate`, `RejectLate`, `TakePermit`, `RejectPermit` under `mu.Lock`.
  `OnSuccess` and `OnFailure` are the handlers, `Panic` their absence when
  `next` panics. `openAge` is `time.Since(openedAt)` in ticks, capped at
  `OpenDuration`. `admitGen` and `lostIn` are auxiliary.
- **BreakerSpec**: what a breaker promises, without locks, permits or
  generations: three states, a set of live calls, an outcome counted at most
  once. `CircuitBreaker` implements it with `live` as the calls in `next` whose
  generation is the current one.
- **Bulkhead** (`bulkhead.go`). Each Go channel is a sequence whose first
  `MaxQueue` places are the buffer and whose rest are blocked senders; a worker
  that finds nothing parks and is handed its next request directly. The
  priority select (a look at `highQ`, then a select over both) is two steps.
  Queue timeouts fire at any time; contexts end at any time when `MayCancel`.
- **BulkheadSpec**: what a bulkhead promises, without channels and workers. A
  request (`work`) and what its caller is told (`reply`) go their own ways; no
  request runs twice, no more than `MaxConcurrent` at once, and only one that has
  been run to its end is answered with a result. `Work` maps the channels, the
  workers' jobs and the result channels to it.
- **Singleflight** (`singleflight.go`). `Join` and `Lead` are the section under
  `sf.mu`; `NextReturns`, `NextPanics`, `Done`, `DoneTwice`, `Delete` are the
  leader's steps; `NoWait` and `Woken` the follower's. A call is named by its
  leader. A WaitGroup that is reused or goes below zero panics as Go's does.
  `Key` is `buildKey`: a hash, or the base key for a body above the limit and for
  none (`NoBody`); `KeyFails` returns when the body cannot be read, before the map
  is touched. `next` may return neither a response nor an error (`"nil"`):
  `Copied` then panics, as the dereference of `c.val` does.
- **SingleflightSpec**: without map, lock and WaitGroups. A caller makes a call
  of its own, beside a like one only when some such call has grown old, or shares
  a call of a like request that is under way; it is given what that call
  returned, and only a panic, or a call without a result, takes it down. Two
  requests are like if their bodies are equal or neither is hashed. `Stage` maps
  the positions to it.
- **RateLimit** (`ratelimit.go`). The two selects of `Execute` are `Try` and
  `Wait` / `Timeout` / `CtxDone`; the sign of `Rate` selects pass-through,
  deny-all or tokens. `Refill`, `Stop` are the loop's select, `Tick` the
  ticker with its channel of one tick. Receivers parked on the channel are
  served first come first served by `Refill`. With a token ready the second select
  may still take the timer or the context: `TimerFirst`, `CtxFirst`.
- **RateLimitSpec**: a credit that time adds to and each pass takes from; callers
  are refused only when they have found it all but used up, and not before their
  deadline if they may wait. The credit is `tokens + tick`.
- **RetryBudget** (`budget.go`). Every atomic load, store and addition of
  `Allow` is a step of its own; the double-checked reset under `rb.mu` too. The
  ratio is the fraction `Num / Den`. `granted` is auxiliary: what was granted since
  the total was last stored.
- **Delays** (`backoff.go`, `nextDelay` and `parseRetryAfter` of `retry.go`): the
  length of a pause as operators on integers that wrap at `MaxInt`. A strategy is a
  record with limits of its own, made by its constructor; `DefaultBackoff` is the one
  that `applyRetryDefaults` makes of `RetryConfig`'s. `NextDelay` caps what
  `Retry-After` asks for at `MaxBackoff`, and no strategy. A float out of range is
  `Converted` to either end of it: Go leaves that to the processor.
- **Retry** (`retry.go`) extends RetryBudget and Delays: the attempts of
  `Execute`, `shouldRetry` with the default predicate or a custom one (which may
  answer anything), with or without a budget (`budgeted`: `New` installs none by
  default), the pauses, and `held`, the response bodies open.
- **Chain** (`client.go`, `policy.go`, `fallback.go`): a caller in `Client.Do` is
  at a layer `at[c]` of the chain, `"in"` before its `next` or `"out"` after it;
  `CallNext` and `Return` are the nesting that `buildChain` makes. `resp` is the
  response or error on its way out, with a body that is still a `stream`, or in
  memory, `whole` or `part`. `ended[c]` names the layers whose context has ended
  (0 the caller's own). `HttpReturns` is `http.Client.Do`; `HooksBefore`,
  `HooksAfter`, `FallbackNext`, `FallbackReturns` the two policies without state. A
  fallback's handler may answer without a body (`OK("nil")`) or without a response
  (`Nil`). A panic on its way up the chain is the response `Panic`: every layer
  passes it on, without what it does after a return, and the singleflight alone
  recovers one.
- **Cache** (`cache.go`): `Lookup` under the read lock, `Hit` or `Miss` by the
  age afterwards, `Fill` (`io.ReadAll`) or `FillPanics` (of a nil body), `Store`
  under the write lock with the eviction. `CountHere` is `c.stats != nil`: `New` gives
  the statistics to a cache added by `WithCache` only (`counted`).
  **SharedCall** (`singleflight.go`): what callers of one key share, the companion of
  Singleflight without expiry. After a recovered panic `DoneAgain` takes the
  WaitGroup below zero (`Broken`), and `WakeBroken` is what becomes of those who wait.
- **Timeouts** (`timeout.go`, `adaptive.go`): entering makes a child context,
  `Expire` is its deadline, returning judges both contexts and cancels.
  `AdaptiveEnter`, `AdaptiveStart`, `AdaptiveRecord`, `AdaptiveReturns` are the
  four steps of the adaptive one, with the percentile as `Quantile`; a panic is
  not recorded.
- **ClientStats** (`stats.go`): the counters, each load of `snapshot` a step.
  **HealthChecker** (`health.go`, `client.go`): its goroutine, `hcOnce`, `Close`.
- **Client** composes the six: each disjunct of `Next` is a step of one of them
  that leaves the others alone. `cfg` chooses the chain. A chain may hold any
  number of fixed timeouts, fallbacks and hooks, but at most one cache, one
  singleflight and one adaptive timeout, whose state is modelled once.
- **MC...** modules name the small sets; the `.cfg` files choose the bounds.
- **CircuitBreakerProofs**, **RateLimitProofs**, **SingleflightProofs**,
  **BulkheadProofs**, **DelaysProofs**, **RetryBudgetProofs**, **RetryProofs**,
  **ClientProofs**: the invariants and the theorems of section 5, each module
  beside the one that it is named after.

## 3. Runs

| Run | Instance | Question and answer |
|---|---|---|
| CircuitBreaker | 3 callers, threshold 2, 2 permits, 9 calls, panics | Safety, refinement of BreakerSpec, and that half-open ends: holds |
| Bulkhead | 2 workers, 3 requests (1 priority), fail-fast, queueing and priority bulkheads, Close, cancellation | `InFlightExact`, `NoIdleWhileQueued`, `AbandonedBounded`, `FailFastNeverQueues`, `BoundedOvertaking`, refinement of BulkheadSpec, callers return, workers come back, Close ends the workers: hold |
| Singleflight | 3 callers, a hashed body, one above the limit and none, errors, calls without a result, panics, expiry | what the merging promises, with the exceptions each property names, and the refinement of SingleflightSpec: holds |
| RateLimit | 3 callers, burst 1, 3 ticks, every sign of Rate | rate and burst, no idle token, refinement of RateLimitSpec, everyone answered: holds |
| Retry | 2 callers, 2 retries, budget 1/2, one window reset; 1 caller without a budget, with each kind of strategy, limits above `MaxBackoff` and overflowing ones, and 9 headers | bodies, budget, reset, pauses, termination: hold |
| Client | 14 chains, each with 1 to 3 callers, 2 keys, room for 1 entry, 2 ticks | size of the cache, blame for a deadline, truncated bodies, statistics, adaptive limit, end of the health checker: hold |
| CircuitStaleTrial | 3 callers, 2 permits | `TrialDecides`: violated |
| BulkheadDeniesIdle | 2 workers, 3 requests, fail-fast | `DeniedOnlyWhenBusy`: violated |
| SingleflightEvicted | 3 callers, one key, expiry | `OneCallPerKey`: violated |
| SingleflightPanic | 3 callers, one key, panics | `WaitersReleased`: violated |
| SingleflightMerged | 3 callers, two bodies above the limit and none | `DifferentNeverMerged`: violated |
| RetryAfterDone | 2 callers, cancellation | `NoRetryAfterDone`: violated |

Why the bounds are enough. Three callers are the least with which one changes the
state between another's two locks while a third profits from it (in
SingleflightEvicted: a leader, its successor, and the one let in by the deleted
entry). Nine calls take a breaker of threshold 2 through closed, open, half-open,
open, half-open and closed again. In Bulkhead one request can run, one fill the
buffer of one place and one block behind it, while the other worker stands between
two selects, from where it serves nobody either; and one worker can find two normal
requests to take while a priority one waits. A burst of one makes every token
contested, and three ticks overrun the ticker's channel, fill the bucket and serve
parked callers. Two budget callers suffice for each interleaving of two `Allow`s,
and `MaxTime` lets one window move while an `Allow` of the window before is under
way. `MaxQueue` is 0 or 1, since a second place in the buffer only repeats the
first.

The chains of Client put each policy that keeps a response outside and inside a
timeout, nest two timeouts under a fallback, let three calls set the adaptive limit
of one another (a window of two samples, so that the third is trimmed), let a
fallback answer with and without a response or a body into caches and shared calls,
and take a snapshot during two requests, of a cache with the statistics and one
without. Three callers with two keys and one place overfill the cache and serve what
another has stored; `MaxAtOnce` lets two of them be in `Do` together, which is every
race of two critical sections. Two ticks are two TTLs and twice the initial limit.
Widths: with `MaxInt` 127 and `Second` 10 the headers lie below, at and above the
overflow.

Symmetry is not used: it is unsound with liveness, and the other runs are small.

Fairness. Weak fairness of each goroutine's own steps: Go's scheduler runs
every runnable goroutine, and timers fire. That `next` returns is assumed too;
under the package it does when the request has a deadline. In `Client` only the
goroutine of the health checker and a `Close` under way are fair. `Retry` uses strong
fairness because a goroutine may find `rb.mu` taken again and again; Go's mutex
hands itself to a waiter that has starved for a millisecond. Never assumed: that
a context ends, that anybody calls `Close`, that requests arrive, that a
`select` picks a particular ready case (each goroutine's steps are fair
together, not one by one), that the ticker ticks.

## 4. What the violations say

- **CircuitStaleTrial.** A caller reads the generation under `mu.RLock` of one
  half-open period and takes a permit under `mu.Lock` in a later one; its trial
  carries the older generation, so its outcome is ignored. The FAQ's
  "If the trial fails, it goes back to open" needs one permit per period
  (`SoleTrialDecides` proves that case).
- **BulkheadDeniesIdle.** With `MaxQueue = 0` the channel is unbuffered and the
  send is non-blocking: a worker that is between two requests is not yet
  receiving, and a request is denied although a worker is free.
- **SingleflightEvicted.** A leader older than the TTL is replaced in the map,
  and when it ends it deletes the entry of its successor: a third caller starts
  a call beside one that is not old.
- **SingleflightPanic.** After a recovered panic `wg.Done` runs twice. The
  second takes the counter below zero and panics, so the entry is never
  deleted, and a follower of that entry waits for ever.
- **SingleflightMerged.** A POST, PUT or PATCH whose body is above the limit gets
  the key without a hash, which one without a body has too. So two different
  oversized bodies are merged, and an oversized one with none, although README:260
  says that "Requests with different bodies are never merged" and README:268 that
  such bodies "skip singleflight dedup". (And `buildKey`, which reads only the limit
  and one byte more, leaves the request with that much of its body.)
- **RetryAfterDone.** When the pause's timer and the context are both ready the
  select may take the timer, and another attempt starts after the end of the
  context.

The passing properties also record limits of what the README promises.
`MergedOnlyWhenEqual` is what SingleflightMerged leaves of the promise: a body that
is hashed is merged only with its equals. `BoundedOvertaking` is the sense in which
priority requests "jump the queue": a worker between its two selects may still take
one normal request, so at most one per worker goes first. `AbandonedBounded` leaves
an abandoned request its place in the buffer, and each worker may run one.
`HalfOpenHasLiveTrial` and `HalfOpenResolves` except a period one of whose trials
panicked: its permit is never given back, and if it was the only one the breaker
stays half-open and rejects. And in Client and Retry:

- `BodyWhole` says where a truncated body comes from, not that there is none. The
  deferred `cancel` of a timeout (timeout.go:33) ends the context before anybody
  has read the body. In the README's own order, singleflight outside the timeout,
  the leader's `io.ReadAll` may fail, and its error is dropped: all callers, or
  with a cache all hits for a TTL, get the part as a complete response. Without a
  cache or a singleflight inside the timeout its caller reads from an ended context.
- `ParentFirst` excepts a shared call: a follower whose own context ended first
  may still be given the `ErrTimeout` of its leader. With that exception it is
  README's "Parent `ctx` cancellation takes precedence".
- The cache's size (in `TypeOK`) exceeds `MaxEntries` by the stores that found it
  full of entries of the same instant. It evicts the entry created first, also when
  a key is overwritten, and not the least recently used one, as README:280 has it.
- `TimedOutNeverLowers` is one direction only: a limit that cuts every call off
  records itself and never grows.
- `StatsOrdered`, in its part on hits and misses, is about a cache added by
  `WithCache`: one added by `WithPolicy` counts neither (cache.go:72, client.go:90).
  `failed` may exceed `requests` in one snapshot, since it is
  loaded later. New gives the policies the recorder that it wraps afterwards
  (client.go:67-90), so that the statistics of retries, fallbacks, timeouts, the
  circuit and denied requests stay zero.
- `CloseStopsHealth` needs a `Close` that begins after `HealthChecker` has
  returned; an earlier one leaves the goroutine, a second one panics.
- `PauseHonoured` bounds a pause by the strategy's own parameters. `MaxBackoff` is a
  limit only of what `Retry-After` asks for (retry.go:183) and of the default
  strategy, which is made from it: `LinearBackoff(1s, 60s, 20s)` pauses 41 s at
  attempt 2 under the default `MaxBackoff` of 5 s. Jitter is added after the cap, and
  a constant strategy has none. Of an exponential strategy whose maximum with its
  jitter no `Duration` can hold the property says nothing: the pause may be negative.
- A fallback that answers without a body panics in a cache around it (cache.go:90);
  one that answers without a response panics in a singleflight around it, after the
  waiters are released (singleflight.go:133). If the cache is inside a singleflight,
  its panic leaves the entry behind as in SingleflightPanic. The invariants of
  Client hold on all of these paths; nothing promises that they do not occur.

## 5. Proofs

Everything below holds for any set of callers and any value of the constants that
the named assumptions admit. These say what the constructors' defaults, or the
meaning of a constant, ensure: finitely many goroutines and positive limits
(`CircuitAssumption`, `RateLimitAssumption`, `BulkheadAssumption`,
`CacheAssumption`); oversized bodies are bodies, and `NoBody` is neither one nor
hashed (`SingleflightAssumption`); delays and multiplier are positive integers
(`DelaysAssumption`), the parameters that a strategy is given itself natural numbers
but for the step (`Backoff`), and floats are exact, none becomes infinite or NaN;
the ratio is positive and at most 1, as `NewRetryBudget` makes it, and somebody asks
for it (`BudgetAssumption`); configurations have the right shape
(`RetryAssumption`); `NoKey` is no key, each program is one, with at most one cache,
singleflight and adaptive timeout (`ChainAssumption`); a percentile from 1 to 100,
and a window that is trimmed to no more than it may hold (`TimeoutsAssumption`). The
defaults replace zeros; negative delays, TTLs and limits, which some constructors
let through, are not considered. TLC evaluates all of the assumptions. Every safety
invariant and action property that a passing run checks is a theorem, and so are the
four refinements, of BreakerSpec, BulkheadSpec, SingleflightSpec and RateLimitSpec.
What follows from one of these is stated and proved, but no run checks it again:
`ClosedBelowThreshold` and `OpenHoldsForDuration` of the circuit breaker,
`ResultReady` of the singleflight; nor `CountersBounded`, a step towards
`GrantsBounded`.

**CircuitBreakerProofs.** The properties are not inductive by themselves. The
invariant `CircuitInv` adds what the locks keep: permits and in-flight trials sum
to `HalfOpenMaxReqs` in half-open and to 0 elsewhere (`PermitsConserved`);
generations never come back (`GenerationsPast`), so a caller of an older period
cannot become live; the admitted trials are at most the permits taken and the
caller that opened the period holds one (`TrialsHoldPermits`); no call is live
in an open breaker (`OpenHasNoLive`); and with a single permit every caller's
generation is the one it was admitted in (`SoleTrialFresh`). One lemma per
locked section shows that it keeps `CircuitInv`. From it follow `TypeCorrect`,
`ThresholdCorrect`, `TrialsBoundedCorrect`, `LiveTrialCorrect`, the action
properties `StaleOutcomes`, `NoAdmission`, `OpenHolds`, the repaired trial
promise `SoleTrialDecides`, and `Refinement`: each step of the breaker is a
step of `BreakerSpec` or leaves the abstract state as it is.

**RateLimitProofs.** `RateHolds` counts passes less ticks over the worst
interval (`excess`). It is not inductive: a full bucket at the bound would pass
one more. `ExcessPaid` is: `excess + tokens + tick <= Burst + 1`, since a pass
takes a token or the tick that would have made one, and a tick lowers the
excess or finds the excess at 0. Together with the types and `NoIdleToken` it is `RateInv`, from
which `TypeCorrect`, `RateCorrect` and `NoIdleTokenCorrect` follow. `LineInv`
adds that exactly the callers that sleep for a token stand in the line, each once
(`ParkedExact`), which is a matter of sequences (`LineShrinks`, `LineGrows`). So a
refill never passes a caller that has left or has passed already, and `Refinement`
can give each pass a credit of its own: a token, or the tick that `Refill` hands to
the head of the line. `LeavingCorrect` is the safety half of `Answered`.

**SingleflightProofs.** `OneCallUnlessExpired` needs to know that a call in
flight is the one in the map unless one of its key has expired (`KeptInMap`),
and that what is in the map is in flight. `FlightInv` adds what a leader's place
says of its WaitGroup and result, panics and the double `Done` included
(`LeaderState`), and that a follower's call is led by a caller of its key
(`FollowerState`). From it follow the invariants on one call per key, on results
that are there when a follower wakes, on merging a hashed body only with its equals, and
`WaitedForCorrect`: whom somebody waits for is still running. For `Refinement`
the map has to be right at the moment it is read: `Join` finds a call under way
by `EntriesInFlight`, and `Lead` finds none because each like call in flight
would be the entry, or one has expired (`KeptInMap`). The WaitGroup must say who
returns and who panics: a waiter woken by a first `Done` finds the counter at 0,
or at -1 only after a panic.

**BulkheadProofs.** Requests are followed through channels of any length: what
stands in one was sent and not taken (`Standing`), stands there once
(`OnePlace`), and workers run what they took (`JobsTaken`, `TakenInOrder`). This is
`PlaceInv`; each way in which a channel changes (head taken, blocked sender
removed, request appended) is a lemma on sequences. `NoLostWakeup` is inductive
over it, and `InFlightCorrect` by counting the busy workers. `denied` is bounded
because each request is denied at most once (`DeniedOnce`). `BoundedOvertaking` needs
`OvertakingInv`: a worker between its two selects has not overtaken any of the priority
requests that wait, since it had seen their channel empty. `AbandonedBounded` follows
from `PlaceInv`: behind the buffer each request has a caller that waits. For `Refinement`, `ServeInv` adds
that no two workers hold one request and that a result is delivered by the worker
that has let go of it. Then a request goes once from absent through the channel and a worker
to its end, whenever its caller is told something else, and the requests that run
are no more than the workers that hold one.

**DelaysProofs, RetryBudgetProofs, RetryProofs.** The growth of the exponential
delay is the recursive function `Grown`; that it exists and where its values lie
is shown by taking a smallest counterexample, as the induction theorems of the
library cannot be used. `DelayHonoured` then says what a pause is for every strategy and
its own limits, every `MaxBackoff`, attempt and header, in spite of the overflow;
`DefaultHonoured` that the default strategy stays below `MaxBackoff` and the jitter. The budget is
proved under any calls of `Allow`, whoever makes them: `WindowInv` says that one
caller at a time resets the window, and that the window it resets is the one it
saw expire, hence `FreshWindow`. `CountersInv` counts the callers that are past
the comparison, or about to make it with a total that a reset has taken back
since (`LateCallers`): each may add one retry beyond the ratio. Between the two
stores of a reset nothing holds, and `CountersBounded` excepts that. What is
granted is more than the counters show: a reset overtakes callers that have passed
the window's check, and forgets their retries. `GrantsInv` counts whom it may still
forget (`Forgetful`); it is one grant of each caller but the one that resets, since
whoever comes while it stores the counters finds the window expired and waits for
`rb.mu`. With `CountersInv` that is `GrantsBounded`, which has no exception and holds of
every window; its bound is tight, as TLC finds two callers and three retries granted in
a window of two outcomes. `UsesBudget`
shows that each step of RetryPolicy is a step of the budget or leaves it alone,
so all three results carry over. `ExecuteInv` ties the open body to the place in
`Execute`; `SentInv` counts the retries that the budget has granted and that are
not sent yet, for `OvershootCorrect`.

**ClientProofs.** For any chain, with the parts interleaved at any grain the
model has. All rests on `TypeInv`: a caller's layer and program counter determine
what kind of layer it is at and whether anything was returned yet (`Placed`), and
the cache is no larger than `TypeOK` has it (`CacheBounded`, by the cardinality of
what one store adds and evicts). Lemmas then say once for all actions what a
step may do to one caller, and the proofs use only these:
`Advances` and `Obtains` (contexts stay ended, nobody turns round, where an
answer comes from), `Shares` (leaders and their answers), `Keeps` (the cache),
`Uncounted` (the counters), `Moves` (places and deadlines).

- `ParentFirst` must know whose timeout an answer stands for. `Blamed` says that
  it is that of the caller or of the call it shares, and that this one's own
  context was alive when the first of its others ended; `Following` says that
  nobody who leads, or is inside its own singleflight, follows anyone.
- `BodyWhole`: `Traced` follows truncated bodies through entries, what a lookup
  found, and shared answers; each was cut in a call of the same key.
- `StatsOrdered`: `Counted` names the callers that each counter stands for, and
  has an inequality for every position of the snapshot between its loads: what
  is loaded later can only have grown.
- `TimedOutNeverLowers`: `Timed` says that the median is the percentile of the
  durations kept, that a deadline ends a context only when due, and that
  the watch starts after the deadline was set (`OnTime`; `NotYet`: no layer ahead
  has a context that could have ended). The rest is a fact on percentiles,
  `QuantileAppend`: with one more duration `d` the percentile falls to nothing
  less than itself or `d`. It rests on `QuantileOf` (the `CHOOSE` in `Quantile` has a
  witness for every sequence) and on `RankWithin` (the index grows with the length).

**Only model-checked.** All liveness (`HalfOpenResolves`, `Returns`,
`WorkersComeBack`, `CloseStopsWorkers`, `FollowersReleased`, `Answered`,
`CloseStopsHealth`): the prover does not treat fairness and ENABLED. And the
six violations, which are counterexamples.

## 6. Plan

In order. The models and the proofs of their safety are done; what is open is at the end.

1. CircuitBreaker, BreakerSpec, and their proofs: the richest state machine.
2. Bulkhead: channels, workers, shutdown.
3. Singleflight and RateLimit, with RateLimit's proof.
4. Retry composed with RetryBudget and Delays.
5. Client, composed of Chain, Cache, SharedCall, Timeouts, ClientStats and
   HealthChecker: how the policies act on one another.
6. Proofs of the safety of Singleflight, Bulkhead, RetryBudget, Retry and Client.

7. Abstract specifications of Bulkhead, Singleflight and RateLimit, and the proofs
   that these implement them; the retries granted in every window of the budget.

Open: an abstract specification of the whole client, and of RetryPolicy. The safety
half of the liveness properties is proved for the circuit breaker
(`HalfOpenHasLiveTrial`), the singleflight (`WaitedForRuns`), the rate limiter
(`CanLeave`) and the bulkhead (`NoIdleWhileQueued`); the other half needs fairness.

## 7. Not modelled

`metrics.go`, `logging.go`: output only. `options.go`, `preset.go`: they fill in
the configuration that constants and initial states stand for. `requestid.go`,
`interceptor.go`, `json.go`, `errors.go`: functions over one request with no
shared state. Within the modelled files: hooks and metrics calls, the text of
errors and their wrapping (a timeout's `%v` hides a `PermanentError`), the length
of the refill interval (never below a millisecond), the hashing of bodies (two
bodies are the same or not), a response without a body in `Retry`, a `Backoff`
of the user's own making, the error of reading a request's body in the client's
chain (Singleflight has it), the limits of fixed timeouts and the patterns of
`TimeoutMapPolicy` (overlapping ones are tried in the random order of a map), the
request builders `Get`, `Post` and their like, the one `Header` map that the
copies of a cached or shared response have in common, the statistics that nothing
adds to, durations, the memory statistics, a chain with two caches, singleflights
or adaptive timeouts (the options append one for each call), a caller that
recovers a panic of `Do` and goes on, and `InFlight`, `Denied`, `State`,
`AvailableTokens`, `CurrentTimeout`, `getStatus`, which only read.
