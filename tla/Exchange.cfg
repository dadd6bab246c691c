CONSTANTS
  l1 = l1
  l2 = l2
  r1 = r1
  r2 = r2
  u1 = u1
  u2 = u2
  u3 = u3
  c1 = c1
  c2 = c2
  Users = {u1, u2, u3}
  Cards = {c1, c2}
  NoUser = NoUser
  NoCard = NoCard
  Listings = {l1, l2}
  Requests = {r1, r2}
  Asks <- MCAsks
  Opening = 20000
  Deposits = {10000}
  MaxBalance = 20000
  AntiSnipeWindowSec = 30
  AntiSnipeExtendSec = 30
  AntiSnipeMaxExtensions = 0
  MaxOverbidFactor = 5
  SealedPhaseSec = 60
  StartingBids <- MCStartingBids
  BidAmounts <- MCBidAmounts
  Durations = {60}
  TickMs = 60000
  MaxTime = 60000
SYMMETRY Symmetry
SPECIFICATION Spec
INVARIANTS
  HeldIsTheLeads
  CardFollowsAuction
  ForSaleOnce
  LedgerExplainsTheRest
  NobodyOverspends
PROPERTY
  NoFreeTransfer
  HoldsMoveWithTheLead
CHECK_DEADLOCK FALSE
