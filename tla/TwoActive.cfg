CONSTANTS
  CardsPerPack = 3
  One = 4
  Pool <- MCPool
  RarityOf <- MCRarityOf
  Pity = 2
  MaxVersions = 3
  Solved <- MCSolved
  StaticWeights <- MCStaticWeights
  Rebalances = {r1, r2}
  Buyers = {b1}
  Packs = {p1}
  Seeds <- MCSeeds
  Captured <- MCCaptured
  TierPrice = 5
  TTL = 2
  MaxTime = 1
SPECIFICATION OddsSpec
SYMMETRY OddsSymmetry
CHECK_DEADLOCK FALSE
INVARIANT
  OneActive
