CONSTANTS
  u1 = u1
  u2 = u2
  d1 = d1
  d2 = d2
  p1 = p1
  p2 = p2
  p3 = p3
  s1 = s1
  s2 = s2
  Users = {u1, u2}
  Cards = {}
  NoUser = NoUser
  Opening = 100000
  Deposits = {50000}
  MaxBalance = 100000
  AntiSnipeWindowSec = 30
  AntiSnipeExtendSec = 30
  AntiSnipeMaxExtensions = 20
  MaxOverbidFactor = 5
  SealedPhaseSec = 60
  Drops = {d1, d2}
  UserPacks = {p1, p2, p3}
  Sales = {s1, s2}
  NoDrop = NoDrop
  Price <- MCPrice
  Stock = 2
  MaxPacksPerUser = 2
  MaxSupply = 3
SYMMETRY Symmetry
SPECIFICATION SaleSpec
INVARIANT
  BalanceIsLedgerSum
CHECK_DEADLOCK FALSE
