\* Fail-fast denies while a worker is idle.
SPECIFICATION Spec
CONSTANTS
  w1 = w1
  w2 = w2
  r1 = r1
  r2 = r2
  r3 = r3
  NoReq = NoReq
  Workers <- TwoWorkers
  Reqs <- ThreeReqs
  HighReqs <- NoHigh
  Configs <- FailFastOnly
  MayCancel = FALSE
  MayClose = FALSE
PROPERTIES DeniedOnlyWhenBusy
