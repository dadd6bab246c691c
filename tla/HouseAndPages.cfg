CONSTANTS
  u1 = u1
  u2 = u2
  u3 = u3
  c1 = c1
  Users = {u1, u2, u3}
  Cards = {c1}
  NoUser = NoUser
  Opening = 3500
  Deposits = {}
  MaxBalance = 3500
  AntiSnipeWindowSec = 30
  AntiSnipeExtendSec = 30
  AntiSnipeMaxExtensions = 2
  MaxOverbidFactor = 5
  SealedPhaseSec = 60
  StartingBids <- MCStarts
  BidAmounts <- MCDimes
  Durations = {60}
  TickMs = 9900
  MaxTime = 128700
  x1 = x1
  x2 = x2
  d1 = d1
  l1 = l1
  Stock = 2
  DetailPages = {d1}
  ListPages = {l1}
  MaxPurchases = 3
  Restocks = 1
  Kinds = {"market", "animate", "static"}
  PricedCards = {x1, x2}
  PackSlots <- MCPack
  MaxCommits = 3
  MaxReloads = 1
  FormKinds = {"pack", "funds", "bid", "buy", "sell", "cancel"}
  MaxThings = 3
  MaxClicks = 4
SPECIFICATION MCSpec
INVARIANTS
  ClosingSchedule
  BidLadder
  MoneyLeavesOnlyBySales
  NeverShowsTooFew
  AtRestShowsTheNews
  EachOnce
  RefusalIsHonest
PROPERTIES
  RoomToAnswer
  EveryAuctionEnds
  KeepsPromise
  ListsShowTheStock
  CardsTurnOnce
CHECK_DEADLOCK FALSE
