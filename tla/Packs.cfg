CONSTANTS
  u1 = u1
  u2 = u2
  d1 = d1
  d2 = d2
  p1 = p1
  p2 = p2
  p3 = p3
  r1 = r1
  r2 = r2
  Users = {u1, u2}
  Cards = {}
  NoUser = NoUser
  Opening = 100000
  Deposits = {50000}
  MaxBalance = 100000
  AntiSnipeWindowSec = 30
  AntiSnipeExtendSec = 30
  AntiSnipeMaxExtensions = 20
  MaxOverbidFactor = 5
  SealedPhaseSec = 60
  Drops = {d1, d2}
  UserPacks = {p1, p2, p3}
  Sales = {r1, r2}
  NoDrop = NoDrop
  Price <- MCPrice
  Stock = 2
  MaxPacksPerUser = 2
  MaxSupply = 3
  CardsPerPack = 3
  One = 4
  Pool <- MCPool
  RarityOf <- MCRarityOf
  Pity = 2
  MaxVersions = 3
  Solved <- MCSolved
  StaticWeights <- MCStaticWeights
  Rebalances = {r1, r2}
  Buyers = {b1}
  Packs = {q1}
  Seeds <- MCSeeds
  Captured <- MCCaptured
  TierPrice = 5
  TTL = 2
  MaxTime = 3
SYMMETRY Symmetry
SPECIFICATION MCSpec
INVARIANTS
  StockAccountedFor
  LimitPerUser
  LockedReadsStayFresh
  VerifierAgrees
  GuaranteeKept
  SpendAddsUp
PROPERTIES
  StaleAtMostTTL
  WeightsNeverGoBack
CHECK_DEADLOCK FALSE
