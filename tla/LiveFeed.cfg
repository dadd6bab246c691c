CONSTANTS
  a1 = a1
  k1 = k1
  p1 = p1
  Auctions = {a1}
  Calls = {k1}
  NoCall = NoCall
  Shown = a1
  Pages = {p1}
  BatchSize = 1
  DurationSec = 30
  TickMs = 60000
  MaxBids = 1
  MaxTime = 60000
  AntiSnipeWindowSec = 30
  AntiSnipeExtendSec = 30
  AntiSnipeMaxExtensions = 1
  MaxOverbidFactor = 5
  SealedPhaseSec = 30
  Faults = {"broadcast lost", "connection lost", "fetch fails", "late ticks"}
SPECIFICATION FairFeedSpec
INVARIANT
  AtRestShowsWhatItWasTold
PROPERTY
  ViewNeverGoesBack
  ListsDropTheEnded
