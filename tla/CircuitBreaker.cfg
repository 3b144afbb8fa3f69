\* Three callers race through the lock upgrades for two permits; calls may
\* panic.  MaxCalls lets the breaker open, reopen and close again.
SPECIFICATION FairSpec
CONSTANTS
  c1 = c1
  c2 = c2
  c3 = c3
  Callers <- ThreeCallers
  FailureThreshold = 2
  HalfOpenMaxReqs = 2
  OpenDuration = 2
  MaxCalls = 9
  MayPanic = TRUE
INVARIANTS TypeOK TrialsBounded HalfOpenHasLiveTrial
PROPERTIES NoAdmissionWhileOpen StaleOutcomeIgnored ImplementsBreakerSpec HalfOpenResolves
