\* Two permits: a trial admitted with a stale generation is not counted.
SPECIFICATION Spec
CONSTANTS
  c1 = c1
  c2 = c2
  c3 = c3
  Callers <- ThreeCallers
  FailureThreshold = 1
  HalfOpenMaxReqs = 2
  OpenDuration = 1
  MaxCalls = 6
  MayPanic = FALSE
PROPERTIES TrialDecides
