\* Fourteen clients; the time of two TTLs.
SPECIFICATION FairSpec
CONSTANTS
  c1 = c1
  c2 = c2
  c3 = c3
  k1 = k1
  k2 = k2
  NoKey = NoKey
  NoEntry = NoEntry
  Callers <- Three
  Keys <- KeySet
  Programs <- Clients
  MaxTime = 2
  MaxAtOnce = 2
  TTL = 1
  MaxEntries = 1
  Ruled <- RuledKeys
  Initial = 1
  Percentile = 50
  MinSamples = 1
  MaxSamples = 2
  Keep = 1
  MaxCloses = 2
INVARIANTS TypeOK ParentFirst BodyWhole StatsOrdered
PROPERTIES TimedOutNeverLowers CloseStopsHealth
