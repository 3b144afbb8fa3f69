\* Two workers, three callers: fail-fast, queueing and priority bulkheads, with
\* timeouts, contexts that end, and Close.
SPECIFICATION FairSpec
CONSTANTS
  w1 = w1
  w2 = w2
  r1 = r1
  r2 = r2
  r3 = r3
  NoReq = NoReq
  Workers <- TwoWorkers
  Reqs <- ThreeReqs
  HighReqs <- OneHigh
  Configs <- AllConfigs
  MayCancel = TRUE
  MayClose = TRUE
INVARIANTS TypeOK InFlightExact NoIdleWhileQueued AbandonedBounded FailFastNeverQueues BoundedOvertaking
PROPERTIES ImplementsBulkheadSpec Returns WorkersComeBack CloseStopsWorkers
