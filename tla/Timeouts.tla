------------------------------ MODULE Timeouts ------------------------------
(***************************************************************************)
(* The three policies that give next a context with a deadline:            *)
(* TimeoutPolicy, TimeoutMapPolicy (timeout.go) and AdaptiveTimeoutPolicy  *)
(* (adaptive.go), whose limit is a percentile of the last durations.       *)
(*                                                                         *)
(* The limit of a fixed timeout is left out: its deadline passes at any    *)
(* time.  The adaptive limit is measured in ticks of the clock; a chain    *)
(* has at most one such layer.  Timers may be late.                        *)
(***************************************************************************)
EXTENDS Chain

CONSTANTS Ruled,              \* the keys whose path a pattern of the map gives a limit
          Initial, Percentile, MinSamples,  \* AdaptiveTimeoutConfig
          MaxSamples, Keep    \* 1024 and 512, scaled down

ASSUME TimeoutsAssumption ==
  /\ Ruled \subseteq Keys \cup {NoKey}
  /\ {Initial, MinSamples, Keep, MaxSamples} \subseteq Nat \ {0}
  /\ Percentile \in 1 .. 100
  /\ Keep <= MaxSamples

VARIABLES live,        \* the layers at which each caller has a child context
          limit, due,  \* of its adaptive layer: timeout, and the deadline
          begun,       \* and start
          durations,   \* at.durations
          median       \* at.median

timeoutVars == <<live, limit, due, begun, durations, median>>

TimeoutsInit ==
  /\ live = [c \in Callers |-> {}]
  /\ limit = [c \in Callers |-> 0]
  /\ due = [c \in Callers |-> 0]
  /\ begun = [c \in Callers |-> 0]
  /\ durations = <<>>
  /\ median = Initial

-----------------------------------------------------------------------------
\* Does a pattern match the path, with a positive timeout.  Several that match
\* differ only in the limit, which is left out.
MatchURL(c) == key[c] \in Ruled

\* Without a limit next is called as it is.  A TimeoutPolicy with timeout <= 0 is
\* like a map without rules.
Limited(c) == Layer(c) = "timeout" \/ MatchURL(c)

TimeoutEnter(c) ==
  /\ At(c, "timeout", "in") \/ At(c, "timeoutMap", "in")
  /\ live' = IF Limited(c) THEN [live EXCEPT ![c] = @ \cup {at[c]}] ELSE live
  /\ CallNext(c)
  /\ UNCHANGED <<context, limit, due, begun, durations, median>>

\* The deadline of a child context passes, unless one around it has ended.
Expire(c) ==
  /\ \E i \in live[c] :
       /\ ~Ended(c, i)
       /\ cfg.chain[i] = "adaptive" => clock >= due[c]
       /\ ended' = [ended EXCEPT ![c] = @ \cup {i}]
  /\ UNCHANGED <<cfg, key, callerFirst, clock, at, pc, resp, timeoutVars>>

\* Mutant: the context around the child's is not looked at.
OwnDeadlineOnly(c) == Failed(c) /\ Ended(c, at[c])

\* childCtx.Err() is DeadlineExceeded and ctx.Err() is nil, after an error.
OwnDeadline(c) == Failed(c) /\ Ended(c, at[c]) /\ ~Ended(c, at[c] - 1)

\* The answer of a layer with a child context; the deferred cancel ends that,
\* whoever still reads the response's body.
ReturnCancelling(c) ==
  /\ Return(c, IF OwnDeadline(c) THEN Error("timeout") ELSE resp[c])
  /\ ended' = [ended EXCEPT ![c] = @ \cup {at[c]}]
  /\ live' = [live EXCEPT ![c] = @ \ {at[c]}]
  /\ UNCHANGED <<cfg, key, callerFirst, clock>>

TimeoutReturns(c) ==
  /\ At(c, "timeout", "out") \/ At(c, "timeoutMap", "out")
  /\ IF Limited(c) THEN ReturnCancelling(c)
     ELSE Return(c, resp[c]) /\ UNCHANGED <<context, live>>
  /\ UNCHANGED <<limit, due, begun, durations, median>>

\* The limit is read under at.mu, and the child context made ...
AdaptiveEnter(c) ==
  /\ At(c, "adaptive", "in")
  /\ limit' = [limit EXCEPT ![c] = IF median > 0 THEN median ELSE Initial]
  /\ due' = [due EXCEPT ![c] = clock + limit'[c]]
  /\ live' = [live EXCEPT ![c] = @ \cup {at[c]}]
  /\ Goto(c, "start")
  /\ UNCHANGED <<context, at, resp, begun, durations, median>>

\* ... and only then the clock read for start.
AdaptiveStart(c) ==
  /\ pc[c] = "start"
  /\ begun' = [begun EXCEPT ![c] = clock]
  /\ CallNext(c)
  /\ UNCHANGED <<context, live, limit, due, durations, median>>

\* sorted[idx], where idx counts from 0: at most idx elements are smaller, and
\* more than idx are not greater.
Quantile(s) ==
  LET idx == ((Len(s) - 1) * Percentile) \div 100
      below(v) == Cardinality({i \in DOMAIN s : s[i] < v})
      upTo(v) == Cardinality({i \in DOMAIN s : s[i] <= v})
  IN  CHOOSE v \in {s[i] : i \in DOMAIN s} : below(v) <= idx /\ idx < upTo(v)

\* durations with d; beyond MaxSamples only the last Keep stay.
With(d) ==
  LET s == Append(durations, d)
  IN  IF Len(s) > MaxSamples THEN SubSeq(s, Len(s) - Keep + 1, Len(s)) ELSE s

\* Mutant: elapsed is taken before next is called.
ElapsedBefore(c) == begun[c] - (due[c] - limit[c])

Elapsed(c) == clock - begun[c]

\* record(elapsed), whatever next returned.
AdaptiveRecord(c) ==
  /\ At(c, "adaptive", "out") /\ ~Panicking(c)
  /\ durations' = With(Elapsed(c))
  /\ median' = IF Len(durations') >= MinSamples THEN Quantile(durations') ELSE median
  /\ Goto(c, "judge")
  /\ UNCHANGED <<context, at, resp, live, limit, due, begun>>

AdaptiveReturns(c) ==
  /\ pc[c] = "judge" \/ (At(c, "adaptive", "out") /\ Panicking(c))
  /\ ReturnCancelling(c)
  /\ limit' = [limit EXCEPT ![c] = 0]
  /\ due' = [due EXCEPT ![c] = 0]
  /\ begun' = [begun EXCEPT ![c] = 0]
  /\ UNCHANGED <<durations, median>>

TimeoutsStep(c) ==
  \/ TimeoutEnter(c) \/ TimeoutReturns(c)
  \/ AdaptiveEnter(c) \/ AdaptiveStart(c) \/ AdaptiveRecord(c) \/ AdaptiveReturns(c)
=============================================================================
