\* Three callers, a body that is hashed, one above the limit and none at all;
\* everything may go wrong.
SPECIFICATION FairSpec
CONSTANTS
  c1 = c1
  c2 = c2
  c3 = c3
  NoCall = NoCall
  Callers <- ThreeCallers
  NoBody = "none"
  Bodies = {"none", "a", "b"}
  Oversized = {"b"}
  HasPayload = TRUE
  MayFail = TRUE
  MayBeNil = TRUE
  MayPanic = TRUE
  MayExpire = TRUE
INVARIANTS TypeOK OneCallUnlessExpired EntriesInFlight MergedOnlyWhenEqual
PROPERTIES ImplementsSingleflightSpec FollowersReleased
