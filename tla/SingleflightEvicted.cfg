\* A leader that outlives the TTL.
SPECIFICATION Spec
CONSTANTS
  c1 = c1
  c2 = c2
  c3 = c3
  NoCall = NoCall
  Callers <- ThreeCallers
  NoBody = "none"
  Bodies = {"a"}
  Oversized = {}
  HasPayload = TRUE
  MayFail = FALSE
  MayBeNil = FALSE
  MayPanic = FALSE
  MayExpire = TRUE
INVARIANTS OneCallPerKey
