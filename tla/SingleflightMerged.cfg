\* Two bodies above the limit, and requests without one.
SPECIFICATION Spec
CONSTANTS
  c1 = c1
  c2 = c2
  c3 = c3
  NoCall = NoCall
  Callers <- ThreeCallers
  NoBody = "none"
  Bodies = {"none", "a", "b", "c"}
  Oversized = {"b", "c"}
  HasPayload = TRUE
  MayFail = FALSE
  MayBeNil = FALSE
  MayPanic = FALSE
  MayExpire = FALSE
INVARIANTS DifferentNeverMerged
