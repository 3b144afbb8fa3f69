\* A context that ends during a pause.
SPECIFICATION FairSpec
CONSTANTS
  c1 = c1
  c2 = c2
  Callers <- TwoCallers
  Num = 1
  Den = 2
  Window = 1
  MaxTime = 3
  MaxRetries = 2
  Idempotent <- TwoCallers
  MayCancel = TRUE
  Configs <- Pair
  MaxInt = 127
  Second = 10
  MaxDelay = 100
  InitialDelay = 3
  MaxBackoff = 8
  Multiplier = 2
PROPERTIES NoRetryAfterDone
