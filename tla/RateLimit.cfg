\* Three callers, a burst of one, three ticks; every sign of Rate, with and
\* without WaitTimeout.
SPECIFICATION FairSpec
CONSTANTS
  c1 = c1
  c2 = c2
  c3 = c3
  Callers <- ThreeCallers
  Burst = 1
  MaxTicks = 3
INVARIANTS RateHolds NoIdleToken
PROPERTIES ImplementsRateLimitSpec Answered
