CONSTANTS
  a1 = a1
  k1 = k1
  p1 = p1
  Auctions = {a1}
  Calls = {k1}
  NoCall = NoCall
  Shown = a1
  Pages = {p1}
  BatchSize = 1
  DurationSec = 90
  TickMs = 60000
  MaxBids = 0
  MaxTime = 120000
  AntiSnipeWindowSec = 30
  AntiSnipeExtendSec = 30
  AntiSnipeMaxExtensions = 1
  MaxOverbidFactor = 5
  SealedPhaseSec = 60
  Faults = {"broadcast lost"}
SPECIFICATION FairFeedSpec
PROPERTY
  DetailShowsTheEnd
