CONSTANTS
  a1 = a1
  a2 = a2
  k1 = k1
  k2 = k2
  Auctions = {a1, a2}
  Calls = {k1, k2}
  NoCall = NoCall
  BatchSize = 1
  DurationSec = 90
  TickMs = 30000
  MaxBids = 1
  MaxTime = 120000
  AntiSnipeWindowSec = 30
  AntiSnipeExtendSec = 30
  AntiSnipeMaxExtensions = 1
  MaxOverbidFactor = 5
  SealedPhaseSec = 60
  Faults = {"settlement throws", "broadcast lost", "web restarts"}
SPECIFICATION FairWorkerSpec
INVARIANT
  OneCallCarriesAClose
PROPERTY
  EveryDueSettles
