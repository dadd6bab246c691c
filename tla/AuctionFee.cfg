CONSTANTS
  u1 = u1
  u2 = u2
  u3 = u3
  c1 = c1
  Users = {u1, u2, u3}
  Cards = {c1}
  NoUser = NoUser
  Opening = 3500
  Deposits = {}
  MaxBalance = 3500
  AntiSnipeWindowSec = 30
  AntiSnipeExtendSec = 30
  AntiSnipeMaxExtensions = 2
  MaxOverbidFactor = 5
  SealedPhaseSec = 60
  StartingBids <- MCStarts
  BidAmounts <- MCDimes
  Durations = {60}
  TickMs = 9900
  MaxTime = 128700
SPECIFICATION AuctionSpec
PROPERTY
  SellerPaysOneFee
CHECK_DEADLOCK FALSE
