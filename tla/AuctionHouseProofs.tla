------------------------- MODULE AuctionHouseProofs -------------------------
(***************************************************************************)
(* Proofs about AuctionHouse, for every value of its constants.            *)
(***************************************************************************)
EXTENDS AuctionHouse, FiniteSums

USE DEF MsPerSec, Cent, BidIncrementFloor

----------------------------------------------------------------------------
(* Arithmetic *)

(* A percentage rounded up to the cent is a whole number of money units. *)
LEMMA CeilCentsType ==
  ASSUME NEW m \in Nat, NEW pct \in Nat
  PROVE  CeilCents(m, pct) \in Int
  <1>1. pct * m \in Nat
    OBVIOUS
  <1>2. ASSUME NEW x \in Nat
        PROVE  ((x + 100 * Cent - 1) \div (100 * Cent)) * Cent \in Int
    OBVIOUS
  <1> QED
    BY <1>1, <1>2 DEF CeilCents

(* The increment on a higher bid is no lower: ceiling to the cent keeps the *)
(* order of the amounts.                                                    *)
LEMMA CeilCentsMonotone ==
  ASSUME NEW x \in Nat, NEW y \in Nat, x <= y
  PROVE  CeilCents(x, 5) <= CeilCents(y, 5)
  <1>1. ASSUME NEW a \in Nat, NEW b \in Nat, a <= b
        PROVE  a \div 10000 <= b \div 10000
    BY <1>1
  <1>2. (5 * x + 9999) \div 10000 <= (5 * y + 9999) \div 10000
    BY <1>1
  <1> QED
    BY <1>2 DEF CeilCents

(* A bid that clears the increment is higher than the bid it follows. *)
LEMMA NextBidHigher ==
  ASSUME NEW cur \in Nat
  PROVE  MinNextBid(cur) \in Int /\ MinNextBid(cur) > cur
  BY CeilCentsType DEF MinNextBid

LEMMA MinNextBidMonotone ==
  ASSUME NEW x \in Nat, NEW y \in Nat, x <= y
  PROVE  MinNextBid(x) <= MinNextBid(y)
  BY CeilCentsMonotone, CeilCentsType DEF MinNextBid

LEMMA FeeType ==
  ASSUME NEW p \in Nat
  PROVE  AuctionFee(p) \in Int /\ SellerProceeds(p) \in Int
  BY CeilCentsType DEF AuctionFee, SellerProceeds, SellerCredit

----------------------------------------------------------------------------
(* Type correctness *)

(* What the columns of one auction row hold. *)
LEMMA ColumnTypes ==
  ASSUME AuctionTypeOK, NEW c \in Cards
  PROVE  /\ auction[c].bid \in Nat /\ auction[c].start \in Nat
         /\ auction[c].closesAt \in Nat /\ auction[c].ext \in Nat
         /\ auction[c].bidder \in Users \cup {NoUser}
         /\ auction[c].seller \in Users \cup {NoUser}
  <1>1. auction[c] \in AuctionRow
    BY DEF AuctionTypeOK
  <1>2. /\ auction[c].bid \in BidAmounts \cup {0}
        /\ auction[c].start \in StartingBids \cup {0}
    BY <1>1 DEF AuctionRow
  <1>3. \A x \in BidAmounts \cup StartingBids \cup {0} : x \in Nat
    BY AuctionAssumption
  <1>4. auction[c].bid \in Nat /\ auction[c].start \in Nat
    BY <1>2, <1>3, Zenon
  <1> QED
    BY <1>1, <1>4 DEF AuctionRow

(* Moving one user's amount leaves a column of amounts one. *)
LEMMA PostType ==
  ASSUME NEW f \in [Users -> Int], NEW u \in Users, NEW x \in Int
  PROVE  Post(f, u, x) \in [Users -> Int]
  BY DEF Post

LEMMA HoldChangeType ==
  ASSUME AuctionTypeOK, NEW u \in Users, NEW c \in Cards, NEW amount \in Nat,
         NEW w \in Users
  PROVE  HoldChange(w, u, auction[c], amount) \in Int
  BY AuctionAssumption DEF HoldChange, Required, AuctionTypeOK, AuctionRow

LEMMA SnipeType ==
  ASSUME NEW now \in Nat, NEW closesAt \in Nat, NEW ext \in Nat
  PROVE  /\ ApplyAntiSnipe(now, closesAt, ext).closesAt \in Nat
         /\ ApplyAntiSnipe(now, closesAt, ext).ext \in Nat
  BY MathAssumption DEF ApplyAntiSnipe

LEMMA TypeStep ==
  ASSUME AuctionTypeOK, NullsAgree, [AuctionNext]_houseVars
  PROVE  AuctionTypeOK'
  <1> USE DEF AuctionTypeOK, AccountsTypeOK
  <1>1. ASSUME NEW u \in Users, NEW c \in Cards, NEW start \in StartingBids,
               NEW secs \in Durations, CreateAuction(u, c, start, secs)
        PROVE  AuctionTypeOK'
    <2>1. start \in Nat /\ clock + secs * MsPerSec \in Nat
      BY AuctionAssumption
    <2> DEFINE row == [NoAuction EXCEPT !.status = "LIVE", !.seller = u,
                                        !.start = start, !.startsAt = clock,
                                        !.closesAt = clock + secs * MsPerSec]
    <2>a. row \in AuctionRow
      BY <2>1 DEF NoAuction, AuctionRow, AuctionStatus
    <2>b. auction' = [auction EXCEPT ![c] = row]
      BY <1>1 DEF CreateAuction
    <2>3. auction' \in [Cards -> AuctionRow]
      <3> HIDE DEF row
      <3> QED BY <2>a, <2>b
    <2>4. card' \in [Cards -> CardRow]
      BY <1>1 DEF CreateAuction, CardRow, CardStatus
    <2> QED
      BY <1>1, <2>3, <2>4 DEF CreateAuction
  <1>2. ASSUME NEW u \in Users, NEW c \in Cards, CancelAuction(u, c)
        PROVE  AuctionTypeOK'
    <2>1. auction' \in [Cards -> AuctionRow]
      <3> DEFINE row == [auction[c] EXCEPT !.status = "CANCELLED"]
      <3>1. auction' = [auction EXCEPT ![c] = row]
        BY <1>2 DEF CancelAuction
      <3>2. row \in AuctionRow
        BY DEF AuctionRow, AuctionStatus
      <3> HIDE DEF row
      <3> QED BY <3>1, <3>2
    <2>2. card' \in [Cards -> CardRow]
      BY <1>2 DEF CancelAuction, CardRow, CardStatus
    <2> QED
      BY <1>2, <2>1, <2>2 DEF CancelAuction
  <1>3. ASSUME NEW u \in Users, NEW c \in Cards, NEW amount \in BidAmounts,
               PlaceBid(u, c, amount)
        PROVE  AuctionTypeOK'
    <2> DEFINE snipe == ApplyAntiSnipe(clock, auction[c].closesAt, auction[c].ext)
    <2>0. amount \in Nat
      BY AuctionAssumption
    <2>1. snipe.closesAt \in Nat /\ snipe.ext \in Nat
      BY SnipeType DEF AuctionRow
    <2>2. \A w \in Users : HoldChange(w, u, auction[c], amount) \in Int
      BY <2>0, HoldChangeType
    <2>3. AccountsTypeOK'
      BY <1>3, <2>2 DEF PlaceBid
    <2>4. auction' \in [Cards -> AuctionRow]
      <3> DEFINE row == [auction[c] EXCEPT !.bid = amount, !.bidder = u,
                                           !.closesAt = snipe.closesAt, !.ext = snipe.ext]
      <3>1. auction' = [auction EXCEPT ![c] = row]
        BY <1>3 DEF PlaceBid
      <3>2. row \in AuctionRow
        <4> HIDE DEF snipe
        <4> QED BY <2>0, <2>1 DEF AuctionRow
      <3> HIDE DEF row
      <3> QED BY <3>1, <3>2
    <2>5. bids' \in [Cards -> SUBSET BidRow]
      BY <1>3, <2>0 DEF PlaceBid, BidRow
    <2> QED
      BY <1>3, <2>3, <2>4, <2>5 DEF PlaceBid
  <1>4. ASSUME NEW c \in Cards, SettleUnsold(c)
        PROVE  AuctionTypeOK'
    <2>1. auction' \in [Cards -> AuctionRow]
      <3> DEFINE row == [auction[c] EXCEPT !.status = "CLOSED"]
      <3>1. auction' = [auction EXCEPT ![c] = row]
        BY <1>4 DEF SettleUnsold
      <3>2. row \in AuctionRow
        BY DEF AuctionRow, AuctionStatus
      <3> HIDE DEF row
      <3> QED BY <3>1, <3>2
    <2>2. card' \in [Cards -> CardRow]
      BY <1>4 DEF SettleUnsold, CardRow, CardStatus
    <2> QED
      BY <1>4, <2>1, <2>2 DEF SettleUnsold
  <1>5. ASSUME NEW c \in Cards, SettleSold(c)
        PROVE  AuctionTypeOK'
    <2>1. /\ auction[c].bidder \in Users
          /\ auction[c].bid \in Nat
          /\ auction[c].seller \in Users
      <3>1. auction[c].bidder # NoUser /\ auction[c].seller # NoUser
        BY <1>5 DEF SettleSold, Due, NullsAgree
      <3> QED
        BY <3>1, ColumnTypes
    <2>6. SellerProceeds(auction[c].bid) \in Int
      BY <2>1, FeeType
    <2>2. auction' \in [Cards -> AuctionRow]
      <3> DEFINE row == [auction[c] EXCEPT !.status = "CLOSED",
                                           !.winner = auction[c].bidder]
      <3>1. auction' = [auction EXCEPT ![c] = row]
        BY <1>5 DEF SettleSold, CardAfterSale
      <3>2. row \in AuctionRow
        BY <2>1 DEF AuctionRow, AuctionStatus
      <3> HIDE DEF row
      <3> QED BY <3>1, <3>2
    <2>3. card' \in [Cards -> CardRow]
      BY <1>5, <2>1 DEF SettleSold, CardAfterSale, CardRow, CardStatus
    <2>7. -auction[c].bid \in Int
      BY <2>1
    <2>4. balance' \in [Users -> Int] /\ held' \in [Users -> Int]
      BY <1>5, <2>1, <2>6, <2>7, PostType, Zenon DEF SettleSold
    <2>5. ledgerSum' \in [Users -> Int]
      <3>1. Post(ledgerSum, auction[c].bidder, -auction[c].bid) \in [Users -> Int]
        BY <2>1, <2>7, PostType
      <3> QED
        BY <1>5, <2>1, <2>6, <3>1, PostType, Zenon DEF SettleSold
    <2> QED
      BY <1>5, <2>2, <2>3, <2>4, <2>5 DEF SettleSold, CardAfterSale
  <1>6. CASE Tick
    BY <1>6, AuctionAssumption DEF Tick, accountVars
  <1>7. CASE UNCHANGED houseVars
    BY <1>7 DEF houseVars, accountVars, auctionVars
  <1> QED
    BY <1>1, <1>2, <1>3, <1>4, <1>5, <1>6, <1>7 DEF AuctionNext

(* The NULLs of an auction row come and go together. *)
LEMMA NullsStep ==
  ASSUME AuctionTypeOK, NullsAgree, [AuctionNext]_houseVars
  PROVE  NullsAgree'
  <1> USE AccountsAssumption, AuctionAssumption
          DEF AuctionTypeOK, AuctionRow, NullsAgree
  <1>1. ASSUME NEW u \in Users, NEW c \in Cards, NEW start \in StartingBids,
               NEW secs \in Durations, CreateAuction(u, c, start, secs)
        PROVE  NullsAgree'
    BY <1>1 DEF CreateAuction, NoAuction
  <1>2. ASSUME NEW u \in Users, NEW c \in Cards, CancelAuction(u, c)
        PROVE  NullsAgree'
    BY <1>2 DEF CancelAuction
  <1>3. ASSUME NEW u \in Users, NEW c \in Cards, NEW amount \in BidAmounts,
               PlaceBid(u, c, amount)
        PROVE  NullsAgree'
    BY <1>3 DEF PlaceBid
  <1>4. ASSUME NEW c \in Cards, SettleUnsold(c)
        PROVE  NullsAgree'
    BY <1>4 DEF SettleUnsold, Due
  <1>5. ASSUME NEW c \in Cards, SettleSold(c)
        PROVE  NullsAgree'
    BY <1>5 DEF SettleSold, CardAfterSale, Due
  <1>6. CASE Tick
    BY <1>6 DEF Tick
  <1>7. CASE UNCHANGED houseVars
    BY <1>7 DEF houseVars, auctionVars
  <1> QED
    BY <1>1, <1>2, <1>3, <1>4, <1>5, <1>6, <1>7 DEF AuctionNext

(* A card is in AUCTION exactly while its auction is live, with its seller. *)
LEMMA CardStep ==
  ASSUME AuctionTypeOK, NullsAgree, CardFollowsAuction, [AuctionNext]_houseVars
  PROVE  CardFollowsAuction'
  <1> USE AccountsAssumption DEF AuctionTypeOK, AccountsTypeOK, CardRow, AuctionRow,
          CardFollowsAuction, NullsAgree
  <1>1. ASSUME NEW u \in Users, NEW c \in Cards, NEW start \in StartingBids,
               NEW secs \in Durations, CreateAuction(u, c, start, secs)
        PROVE  CardFollowsAuction'
    BY <1>1 DEF CreateAuction, NoAuction
  <1>2. ASSUME NEW u \in Users, NEW c \in Cards, CancelAuction(u, c)
        PROVE  CardFollowsAuction'
    BY <1>2 DEF CancelAuction
  <1>3. ASSUME NEW u \in Users, NEW c \in Cards, NEW amount \in BidAmounts,
               PlaceBid(u, c, amount)
        PROVE  CardFollowsAuction'
    BY <1>3 DEF PlaceBid
  <1>4. ASSUME NEW c \in Cards, SettleUnsold(c)
        PROVE  CardFollowsAuction'
    BY <1>4 DEF SettleUnsold, Due
  <1>5. ASSUME NEW c \in Cards, SettleSold(c)
        PROVE  CardFollowsAuction'
    BY <1>5 DEF SettleSold, CardAfterSale, Due
  <1>6. CASE Tick
    BY <1>6 DEF Tick, accountVars
  <1>7. CASE UNCHANGED houseVars
    BY <1>7 DEF houseVars, auctionVars, accountVars
  <1> QED
    BY <1>1, <1>2, <1>3, <1>4, <1>5, <1>6, <1>7 DEF AuctionNext

(* The inductive invariant the theorems below rest on. *)
HouseInv == AuctionTypeOK /\ NullsAgree /\ CardFollowsAuction

LEMMA HouseInductive == AuctionSpec => []HouseInv
  <1>1. AuctionInit => HouseInv
    <2> SUFFICES ASSUME AuctionInit PROVE HouseInv
      OBVIOUS
    <2>1. NoAuction \in AuctionRow
      BY DEF NoAuction, AuctionRow, AuctionStatus
    <2>2. AuctionTypeOK
      BY <2>1, AccountsAssumption
         DEF AuctionInit, AccountsInit, AuctionTypeOK, AccountsTypeOK, CardRow, CardStatus
    <2>3. NullsAgree /\ CardFollowsAuction
      BY DEF AuctionInit, AccountsInit, NullsAgree, CardFollowsAuction, NoAuction
    <2> QED
      BY <2>2, <2>3 DEF HouseInv
  <1>2. HouseInv /\ [AuctionNext]_houseVars => HouseInv'
    BY TypeStep, NullsStep, CardStep DEF HouseInv
  <1> QED
    BY <1>1, <1>2, PTL DEF AuctionSpec

(* Every row keeps the shape of its columns. *)
THEOREM AuctionTypeCorrect == AuctionSpec => []AuctionTypeOK
  BY HouseInductive, PTL DEF HouseInv

(* A card is in AUCTION exactly while its auction is live, it stays with    *)
(* the seller until then, and the seller never leads their own auction.     *)
THEOREM CardsFollowAuctions == AuctionSpec => []CardFollowsAuction
  BY HouseInductive, PTL DEF HouseInv

----------------------------------------------------------------------------
(* Holds *)

LEMMA HoldsStep ==
  ASSUME HouseInv, [AuctionNext]_houseVars
  PROVE  [HoldsMove]_houseVars
  <1> USE AccountsAssumption, AuctionAssumption
          DEF HouseInv, AuctionTypeOK, AccountsTypeOK, AuctionRow, HoldsMove, Lead
  <1>1. ASSUME NEW u \in Users, NEW c \in Cards, NEW start \in StartingBids,
               NEW secs \in Durations, CreateAuction(u, c, start, secs)
        PROVE  HoldsMove
    BY <1>1 DEF CreateAuction, NoAuction
  <1>2. ASSUME NEW u \in Users, NEW c \in Cards, CancelAuction(u, c)
        PROVE  HoldsMove
    BY <1>2 DEF CancelAuction
  <1>3. ASSUME NEW u \in Users, NEW c \in Cards, NEW amount \in BidAmounts,
               PlaceBid(u, c, amount)
        PROVE  HoldsMove
    <2>1. \A d \in Cards \ {c} : auction'[d] = auction[d]
      BY <1>3 DEF PlaceBid
    <2>2. /\ auction[c].status = "LIVE" /\ auction'[c].status = "LIVE"
          /\ auction'[c].bidder = u /\ auction'[c].bid = amount
      BY <1>3 DEF PlaceBid
    <2>3. ASSUME NEW w \in Users
          PROVE  held'[w] - held[w] = Lead(w, c)' - Lead(w, c)
      <3>1. held'[w] = held[w] + HoldChange(w, u, auction[c], amount)
        BY <1>3 DEF PlaceBid
      <3> QED
        BY <2>2, <3>1 DEF HoldChange, Required
    <2>4. auction'[c] # auction[c]
      <3>1. CASE auction[c].bidder = NoUser
        BY <2>2, <3>1
      <3>2. CASE auction[c].bidder # NoUser
        <4>1. amount >= MinNextBid(auction[c].bid)
          BY <1>3, <3>2 DEF PlaceBid, AmountAcceptable
        <4>2. auction[c].bid \in Nat /\ amount \in Nat
          BY ColumnTypes
        <4>3. amount > auction[c].bid
          BY <4>1, <4>2, NextBidHigher
        <4> QED
          BY <2>2, <4>2, <4>3
      <3> QED
        BY <3>1, <3>2
    <2> QED
      BY <2>1, <2>3, <2>4
  <1>4. ASSUME NEW c \in Cards, SettleUnsold(c)
        PROVE  HoldsMove
    BY <1>4 DEF SettleUnsold, Due
  <1>5. ASSUME NEW c \in Cards, SettleSold(c)
        PROVE  HoldsMove
    <2>1. \A d \in Cards \ {c} : auction'[d] = auction[d]
      BY <1>5 DEF SettleSold, CardAfterSale
    <2>2. /\ auction[c].status = "LIVE" /\ auction'[c].status = "CLOSED"
          /\ auction[c].bidder \in Users
      BY <1>5 DEF SettleSold, CardAfterSale, Due
    <2>3. ASSUME NEW w \in Users
          PROVE  held'[w] - held[w] = Lead(w, c)' - Lead(w, c)
      <3>1. held' = [held EXCEPT ![auction[c].bidder] = @ - auction[c].bid]
        BY <1>5, ColumnTypes DEF SettleSold, Post
      <3>2. held'[w] = IF w = auction[c].bidder THEN held[w] - auction[c].bid ELSE held[w]
        BY <2>2, <3>1
      <3>3. Lead(w, c)' = 0
        BY <2>2
      <3>4. Lead(w, c) = IF auction[c].bidder = w THEN auction[c].bid ELSE 0
        BY <2>2
      <3>5. auction[c].bid \in Nat
        BY ColumnTypes
      <3>6. held[w] \in Int
        OBVIOUS
      <3> HIDE DEF Lead
      <3> QED
        BY <3>2, <3>3, <3>4, <3>5, <3>6
    <2> QED
      BY <2>1, <2>2, <2>3
  <1>6. CASE Tick
    BY <1>6 DEF Tick, accountVars
  <1>7. CASE UNCHANGED houseVars
    BY <1>7
  <1> QED
    BY <1>1, <1>2, <1>3, <1>4, <1>5, <1>6, <1>7 DEF AuctionNext

(* Every transaction touches one auction and moves each user's hold by      *)
(* exactly what that user's lead in it moved.                               *)
THEOREM HoldsFollowLeads == AuctionSpec => HoldsMoveWithTheLead
  <1>1. HouseInv /\ [AuctionNext]_houseVars => [HoldsMove]_houseVars
    BY HoldsStep
  <1> QED
    BY <1>1, HouseInductive, PTL DEF AuctionSpec, HoldsMoveWithTheLead

----------------------------------------------------------------------------
(* Anti-snipe *)

LEMMA RoomStep ==
  ASSUME HouseInv, [AuctionNext]_houseVars
  PROVE  [RoomAfterBid]_houseVars
  <1> USE DEF HouseInv, AuctionTypeOK, AuctionRow, RoomAfterBid
  <1>1. ASSUME NEW u \in Users, NEW c \in Cards, NEW amount \in BidAmounts,
               PlaceBid(u, c, amount)
        PROVE  RoomAfterBid
    <2>1. \A d \in Cards \ {c} : bids'[d] = bids[d]
      BY <1>1 DEF PlaceBid
    <2>2. auction'[c].closesAt
            = ApplyAntiSnipe(clock, auction[c].closesAt, auction[c].ext).closesAt
      BY <1>1 DEF PlaceBid
    <2>3. ASSUME auction[c].ext < AntiSnipeMaxExtensions
          PROVE  auction'[c].closesAt - clock >= AntiSnipeWindowSec * MsPerSec
      <3> DEFINE left == auction[c].closesAt - clock
      <3>1. left \in Int /\ left > 0
        BY <1>1 DEF PlaceBid
      <3>2. CASE left \div MsPerSec <= AntiSnipeWindowSec
        BY <2>2, <2>3, <3>1, <3>2, MathAssumption DEF ApplyAntiSnipe, ExtendsClose
      <3>3. CASE left \div MsPerSec > AntiSnipeWindowSec
        <4>1. left >= AntiSnipeWindowSec * MsPerSec
          BY <3>1, <3>3, MathAssumption
        <4> QED
          BY <2>2, <3>3, <4>1, MathAssumption DEF ApplyAntiSnipe, ExtendsClose
      <3> QED
        BY <3>1, <3>2, <3>3, MathAssumption
    <2> QED
      BY <2>1, <2>3
  <1>2. bids' = bids => RoomAfterBid
    OBVIOUS
  <1>3. ASSUME NEW u \in Users, NEW c \in Cards, NEW start \in StartingBids,
               NEW secs \in Durations, CreateAuction(u, c, start, secs)
        PROVE  RoomAfterBid
    BY <1>2, <1>3 DEF CreateAuction
  <1>4. ASSUME NEW u \in Users, NEW c \in Cards, CancelAuction(u, c)
        PROVE  RoomAfterBid
    BY <1>2, <1>4 DEF CancelAuction
  <1>5. ASSUME NEW c \in Cards, SettleUnsold(c) \/ SettleSold(c)
        PROVE  RoomAfterBid
    BY <1>2, <1>5 DEF SettleUnsold, SettleSold
  <1>6. CASE Tick
    BY <1>2, <1>6 DEF Tick
  <1> QED
    BY <1>1, <1>3, <1>4, <1>5, <1>6 DEF AuctionNext

(* After any accepted bid at least the anti-snipe window is left, until the *)
(* extensions are used up.                                                  *)
THEOREM RoomIsLeft == AuctionSpec => RoomToAnswer
  <1>1. HouseInv /\ [AuctionNext]_houseVars => [RoomAfterBid]_houseVars
    BY RoomStep
  <1> QED
    BY <1>1, HouseInductive, PTL DEF AuctionSpec, RoomToAnswer

----------------------------------------------------------------------------
(* Overdrafts *)

(* With covered fees, what a seller receives of an accepted bid is no loss. *)
LEMMA ProceedsCovered ==
  ASSUME FeesCovered, NEW p \in BidAmounts \cup {0}
  PROVE  SellerProceeds(p) \in Nat
  <1>1. p \in Nat
    BY AuctionAssumption
  <1>2. AuctionFee(p) \in Int
    BY <1>1, FeeType
  <1>3. 2 * AuctionFee(p) <= p
    <2>1. CASE p = 0
      BY <2>1 DEF AuctionFee, CeilCents
    <2>2. CASE p \in BidAmounts
      BY <2>2 DEF FeesCovered
    <2> QED
      BY <2>1, <2>2
  <1> QED
    BY <1>1, <1>2, <1>3 DEF SellerProceeds, SellerCredit

LEMMA OverdraftStep ==
  ASSUME HouseInv, NoOverdraft, [AuctionNext]_houseVars
  PROVE  NoOverdraft'
  <1> USE DEF HouseInv, AuctionTypeOK, AccountsTypeOK
  <1> SUFFICES ASSUME FeesCovered, \A w \in Users : balance[w] >= 0,
                      NEW w \in Users
               PROVE  balance'[w] >= 0
    BY DEF NoOverdraft, FeesCovered
  <1>1. ASSUME NEW u \in Users, NEW c \in Cards, NEW amount \in BidAmounts,
               PlaceBid(u, c, amount)
        PROVE  balance'[w] >= 0
    <2>1. /\ balance[u] >= Required(u, auction[c], amount)
          /\ balance'[w] = balance[w] - HoldChange(w, u, auction[c], amount)
      BY <1>1 DEF PlaceBid, Affords
    <2>2. amount \in Nat
      BY AuctionAssumption
    <2>3. auction[c].bid \in Nat
      BY ColumnTypes
    <2>4. CASE w = u
      BY <2>1, <2>2, <2>3, <2>4 DEF HoldChange, Required
    <2>5. CASE w # u /\ w = auction[c].bidder
      BY <2>1, <2>3, <2>5 DEF HoldChange
    <2>6. CASE w # u /\ w # auction[c].bidder
      BY <2>1, <2>6 DEF HoldChange
    <2> QED
      BY <2>4, <2>5, <2>6
  <1>2. ASSUME NEW c \in Cards, SettleSold(c)
        PROVE  balance'[w] >= 0
    <2>1. auction[c].bid \in BidAmounts \cup {0}
      <3>1. auction[c] \in AuctionRow
        OBVIOUS
      <3> QED
        BY <3>1 DEF AuctionRow
    <2>2. SellerProceeds(auction[c].bid) \in Nat
      BY <2>1, ProceedsCovered
    <2>3. balance' = [balance EXCEPT ![auction[c].seller]
                                       = @ + SellerProceeds(auction[c].bid)]
      BY <1>2 DEF SettleSold, Post
    <2> QED
      BY <2>2, <2>3
  <1>3. balance' = balance => balance'[w] >= 0
    OBVIOUS
  <1>4. ASSUME NEW u \in Users, NEW c \in Cards, NEW start \in StartingBids,
               NEW secs \in Durations, CreateAuction(u, c, start, secs)
        PROVE  balance'[w] >= 0
    BY <1>3, <1>4 DEF CreateAuction
  <1>5. ASSUME NEW u \in Users, NEW c \in Cards, CancelAuction(u, c)
        PROVE  balance'[w] >= 0
    BY <1>3, <1>5 DEF CancelAuction
  <1>6. ASSUME NEW c \in Cards, SettleUnsold(c)
        PROVE  balance'[w] >= 0
    BY <1>3, <1>6 DEF SettleUnsold
  <1>7. CASE Tick \/ UNCHANGED houseVars
    BY <1>3, <1>7 DEF Tick, houseVars, accountVars
  <1> QED
    BY <1>1, <1>2, <1>4, <1>5, <1>6, <1>7 DEF AuctionNext

(* Nobody's balance goes below zero, with however many auctions at once, if *)
(* every accepted price covers its two fee deductions.                      *)
THEOREM NobodyOverdraws == AuctionSpec => []NoOverdraft
  <1>1. AuctionInit => NoOverdraft
    BY AccountsAssumption DEF AuctionInit, AccountsInit, NoOverdraft
  <1>2. HouseInv /\ NoOverdraft /\ [AuctionNext]_houseVars => NoOverdraft'
    BY OverdraftStep
  <1> QED
    BY <1>1, <1>2, HouseInductive, PTL DEF AuctionSpec

----------------------------------------------------------------------------
(* The bids table *)

LEMMA LadderStep ==
  ASSUME HouseInv, BidLadder, [AuctionNext]_houseVars
  PROVE  BidLadder'
  <1> USE DEF HouseInv, AuctionTypeOK
  <1>1. ASSUME NEW u \in Users, NEW c \in Cards, NEW amount \in BidAmounts,
               PlaceBid(u, c, amount)
        PROVE  BidLadder'
    <2> DEFINE new == [bidder |-> u, amount |-> amount]
    <2>1. /\ bids'[c] = bids[c] \cup {new}
          /\ auction'[c].bidder = u /\ auction'[c].bid = amount
          /\ auction'[c].start = auction[c].start
          /\ \A d \in Cards \ {c} : auction'[d] = auction[d] /\ bids'[d] = bids[d]
      BY <1>1 DEF PlaceBid
    <2>2. AmountAcceptable(auction[c], amount)
      BY <1>1 DEF PlaceBid
    <2>3. auction[c].bid \in Nat /\ auction[c].start \in Nat /\ amount \in Nat
      BY ColumnTypes, AuctionAssumption
    <2>4. \A x \in bids[c] : x.amount \in Nat
      <3>1. \A x \in bids[c] : x \in BidRow
        OBVIOUS
      <3> QED
        BY <3>1, AuctionAssumption DEF BidRow
    <2>5. amount >= auction[c].start
          /\ \A x \in bids[c] : amount >= MinNextBid(x.amount) /\ x.amount <= amount
      <3>1. CASE auction[c].bidder = NoUser
        BY <2>2, <3>1 DEF AmountAcceptable, BidLadder
      <3>2. CASE auction[c].bidder # NoUser
        <4>1. amount >= MinNextBid(auction[c].bid)
          BY <2>2, <3>2 DEF AmountAcceptable
        <4>2. \A x \in bids[c] : auction[c].start <= x.amount /\ x.amount <= auction[c].bid
          BY DEF BidLadder
        <4>3. bids[c] # {}
          BY <3>2 DEF BidLadder
        <4>4. ASSUME NEW x \in bids[c]
              PROVE  amount >= MinNextBid(x.amount) /\ x.amount <= amount
          <5>1. x.amount \in Nat /\ x.amount <= auction[c].bid
            BY <2>4, <4>2
          <5>2. MinNextBid(x.amount) <= MinNextBid(auction[c].bid)
            BY <2>3, <5>1, MinNextBidMonotone
          <5>3. MinNextBid(x.amount) \in Int /\ MinNextBid(auction[c].bid) \in Int
                /\ MinNextBid(x.amount) > x.amount
            BY <2>3, <5>1, NextBidHigher
          <5> QED
            BY <2>3, <4>1, <5>1, <5>2, <5>3
        <4> QED
          BY <2>3, <2>4, <4>2, <4>3, <4>4
      <3> QED
        BY <3>1, <3>2
    <2>6. ASSUME NEW d \in Cards
          PROVE  /\ \A x, y \in bids'[d] :
                      \/ x = y \/ x.amount >= MinNextBid(y.amount)
                      \/ y.amount >= MinNextBid(x.amount)
                 /\ \A x \in bids'[d] :
                      auction'[d].start <= x.amount /\ x.amount <= auction'[d].bid
                 /\ IF auction'[d].bidder = NoUser
                    THEN bids'[d] = {}
                    ELSE [bidder |-> auction'[d].bidder,
                          amount |-> auction'[d].bid] \in bids'[d]
      <3>1. CASE d # c
        BY <2>1, <3>1 DEF BidLadder
      <3>2. CASE d = c
        <4>1. \A x, y \in bids[c] :
                \/ x = y \/ x.amount >= MinNextBid(y.amount)
                \/ y.amount >= MinNextBid(x.amount)
          BY DEF BidLadder
        <4>2. \A x \in bids[c] : auction[c].start <= x.amount
          BY DEF BidLadder
        <4>3. new.amount = amount /\ amount <= amount
          BY <2>3
        <4>4. u # NoUser
          BY AccountsAssumption
        <4> HIDE DEF new
        <4>5. \A x, y \in bids[c] \cup {new} :
                \/ x = y \/ x.amount >= MinNextBid(y.amount)
                \/ y.amount >= MinNextBid(x.amount)
          BY <2>5, <4>1, <4>3
        <4>6. \A x \in bids[c] \cup {new} :
                auction[c].start <= x.amount /\ x.amount <= amount
          BY <2>3, <2>5, <4>2, <4>3
        <4>7. [bidder |-> u, amount |-> amount] \in bids[c] \cup {new}
          BY DEF new
        <4> QED
          BY <2>1, <3>2, <4>4, <4>5, <4>6, <4>7
      <3> QED
        BY <3>1, <3>2
    <2> QED
      BY <2>6 DEF BidLadder
  <1>2. ASSUME NEW u \in Users, NEW c \in Cards, NEW start \in StartingBids,
               NEW secs \in Durations, CreateAuction(u, c, start, secs)
        PROVE  BidLadder'
    <2>1. bids[c] = {}
      BY <1>2 DEF CreateAuction, BidLadder, NullsAgree
    <2> QED
      BY <1>2, <2>1 DEF CreateAuction, NoAuction, BidLadder
  <1>3. ASSUME NEW u \in Users, NEW c \in Cards, CancelAuction(u, c)
        PROVE  BidLadder'
    BY <1>3 DEF CancelAuction, BidLadder
  <1>4. ASSUME NEW c \in Cards, SettleUnsold(c)
        PROVE  BidLadder'
    BY <1>4 DEF SettleUnsold, BidLadder
  <1>5. ASSUME NEW c \in Cards, SettleSold(c)
        PROVE  BidLadder'
    BY <1>5 DEF SettleSold, CardAfterSale, BidLadder
  <1>6. CASE Tick \/ UNCHANGED houseVars
    BY <1>6 DEF Tick, houseVars, auctionVars, BidLadder
  <1> QED
    BY <1>1, <1>2, <1>3, <1>4, <1>5, <1>6 DEF AuctionNext

(* Of any two bids on an auction one clears the increment over the other,   *)
(* and the row's high bid is the top rung.                                  *)
THEOREM BidsFormLadder == AuctionSpec => []BidLadder
  <1>1. AuctionInit => BidLadder
    BY DEF AuctionInit, NoAuction, BidLadder
  <1>2. HouseInv /\ BidLadder /\ [AuctionNext]_houseVars => BidLadder'
    BY LadderStep
  <1> QED
    BY <1>1, <1>2, HouseInductive, PTL DEF AuctionSpec
----------------------------------------------------------------------------
(* The close *)

FinitelyManyBids == \A c \in Cards : IsFiniteSet(bids[c])

(* What ClosingSchedule says of one auction with n bids. *)
OnSchedule(a, n) ==
  a.status # "NONE" =>
    /\ \E secs \in Durations :
         a.closesAt = a.startsAt + (secs + a.ext * AntiSnipeExtendSec) * MsPerSec
    /\ a.ext <= AntiSnipeMaxExtensions
    /\ a.ext <= n

(* A bid moves the close by no or one whole extension, and not past the cap. *)
LEMMA SnipeKeepsSchedule ==
  ASSUME NEW a \in AuctionRow, NEW n \in Nat, OnSchedule(a, n), a.status # "NONE",
         NEW now \in Nat, NEW b \in AuctionRow,
         b.startsAt = a.startsAt,
         b.closesAt = ApplyAntiSnipe(now, a.closesAt, a.ext).closesAt,
         b.ext = ApplyAntiSnipe(now, a.closesAt, a.ext).ext
  PROVE  OnSchedule(b, n + 1)
  <1>1. PICK secs \in Durations :
          a.closesAt = a.startsAt + (secs + a.ext * AntiSnipeExtendSec) * MsPerSec
    BY DEF OnSchedule
  <1>2. /\ secs \in Nat /\ a.startsAt \in Nat /\ a.ext \in Nat /\ a.closesAt \in Nat
        /\ AntiSnipeExtendSec \in Nat /\ AntiSnipeMaxExtensions \in Nat
    BY AuctionAssumption, MathAssumption DEF AuctionRow
  <1>3. a.ext <= AntiSnipeMaxExtensions /\ a.ext <= n
    BY DEF OnSchedule
  <1>4. CASE ExtendsClose(now, a.closesAt, a.ext)
    <2>1. /\ b.closesAt = a.closesAt + AntiSnipeExtendSec * MsPerSec
          /\ b.ext = a.ext + 1 /\ a.ext < AntiSnipeMaxExtensions
      BY <1>4 DEF ApplyAntiSnipe, ExtendsClose
    <2>2. (a.ext + 1) * AntiSnipeExtendSec = a.ext * AntiSnipeExtendSec + AntiSnipeExtendSec
      BY <1>2
    <2>3. a.ext * AntiSnipeExtendSec \in Nat
      BY <1>2
    <2>4. b.closesAt = b.startsAt + (secs + b.ext * AntiSnipeExtendSec) * MsPerSec
      <3> DEFINE e == a.ext * AntiSnipeExtendSec
      <3>1. /\ e \in Nat /\ b.ext * AntiSnipeExtendSec = e + AntiSnipeExtendSec
            /\ a.closesAt = a.startsAt + (secs + e) * MsPerSec
        BY <1>1, <2>1, <2>2, <2>3
      <3> HIDE DEF e
      <3> QED
        BY <1>2, <2>1, <3>1
    <2> QED
      BY <1>2, <1>3, <2>1, <2>4 DEF OnSchedule
  <1>5. CASE ~ExtendsClose(now, a.closesAt, a.ext)
    BY <1>1, <1>2, <1>3, <1>5 DEF ApplyAntiSnipe, OnSchedule
  <1> QED
    BY <1>4, <1>5

LEMMA ScheduleStep ==
  ASSUME HouseInv, BidLadder, FinitelyManyBids, ClosingSchedule,
         [AuctionNext]_houseVars
  PROVE  FinitelyManyBids' /\ ClosingSchedule'
  <1> USE DEF HouseInv, AuctionTypeOK
  <1>0. \A d \in Cards : Cardinality(bids[d]) \in Nat
                         /\ OnSchedule(auction[d], Cardinality(bids[d]))
    BY FS_CardinalityType DEF FinitelyManyBids, ClosingSchedule, OnSchedule
  <1>a. ASSUME bids' = bids,
               NEW c \in Cards, \A d \in Cards \ {c} : auction'[d] = auction[d],
               OnSchedule(auction'[c], Cardinality(bids[c]))
        PROVE  FinitelyManyBids' /\ ClosingSchedule'
    BY <1>0, <1>a DEF FinitelyManyBids, ClosingSchedule, OnSchedule
  <1>1. ASSUME NEW u \in Users, NEW c \in Cards, NEW amount \in BidAmounts,
               PlaceBid(u, c, amount)
        PROVE  FinitelyManyBids' /\ ClosingSchedule'
    <2> DEFINE new == [bidder |-> u, amount |-> amount]
               snipe == ApplyAntiSnipe(clock, auction[c].closesAt, auction[c].ext)
    <2>1. /\ bids'[c] = bids[c] \cup {new}
          /\ \A d \in Cards \ {c} : auction'[d] = auction[d] /\ bids'[d] = bids[d]
          /\ auction[c].status = "LIVE"
          /\ auction'[c].startsAt = auction[c].startsAt
          /\ auction'[c].closesAt = snipe.closesAt /\ auction'[c].ext = snipe.ext
          /\ AmountAcceptable(auction[c], amount)
      BY <1>1 DEF PlaceBid
    <2>2. new \notin bids[c]
      <3>1. CASE auction[c].bidder = NoUser
        BY <3>1 DEF BidLadder
      <3>2. CASE auction[c].bidder # NoUser
        <4>1. amount \in Nat /\ auction[c].bid \in Nat
          BY ColumnTypes, AuctionAssumption
        <4>2. amount > auction[c].bid
          BY <2>1, <3>2, <4>1, NextBidHigher DEF AmountAcceptable
        <4>3. \A x \in bids[c] : x.amount <= auction[c].bid
          BY DEF BidLadder
        <4> QED
          BY <4>1, <4>2, <4>3
      <3> QED
        BY <3>1, <3>2
    <2>3. IsFiniteSet(bids'[c]) /\ Cardinality(bids'[c]) = Cardinality(bids[c]) + 1
      <3>1. IsFiniteSet(bids[c])
        BY DEF FinitelyManyBids
      <3> HIDE DEF new
      <3>2. /\ IsFiniteSet(bids[c] \cup {new})
            /\ Cardinality(bids[c] \cup {new}) = Cardinality(bids[c]) + 1
        BY <2>2, <3>1, FS_AddElement, Zenon
      <3> QED
        BY <2>1, <3>2
    <2>4. auction'[c] \in AuctionRow
      BY TypeStep
    <2>5. OnSchedule(auction'[c], Cardinality(bids'[c]))
      BY <1>0, <2>1, <2>3, <2>4, SnipeKeepsSchedule
    <2>6. ASSUME NEW d \in Cards
          PROVE  IsFiniteSet(bids'[d]) /\ OnSchedule(auction'[d], Cardinality(bids'[d]))
      BY <1>0, <2>1, <2>3, <2>5 DEF FinitelyManyBids
    <2> QED
      BY <2>6 DEF FinitelyManyBids, ClosingSchedule, OnSchedule
  <1>2. ASSUME NEW u \in Users, NEW c \in Cards, NEW start \in StartingBids,
               NEW secs \in Durations, CreateAuction(u, c, start, secs)
        PROVE  FinitelyManyBids' /\ ClosingSchedule'
    <2>1. /\ auction'[c].closesAt = clock + secs * MsPerSec
          /\ auction'[c].startsAt = clock /\ auction'[c].ext = 0
          /\ \A d \in Cards \ {c} : auction'[d] = auction[d]
          /\ bids' = bids
      BY <1>2 DEF CreateAuction, NoAuction
    <2>2. /\ secs \in Nat /\ clock \in Nat
          /\ AntiSnipeExtendSec \in Nat /\ AntiSnipeMaxExtensions \in Nat
      BY AuctionAssumption, MathAssumption
    <2>3. OnSchedule(auction'[c], Cardinality(bids[c]))
      BY <1>0, <2>1, <2>2 DEF OnSchedule
    <2> QED
      BY <1>a, <2>1, <2>3
  <1>3. ASSUME NEW c \in Cards, NEW row,
               auction' = [auction EXCEPT ![c] = row], bids' = bids,
               row.startsAt = auction[c].startsAt, row.closesAt = auction[c].closesAt,
               row.ext = auction[c].ext, auction[c].status # "NONE"
        PROVE  FinitelyManyBids' /\ ClosingSchedule'
    <2>1. OnSchedule(auction'[c], Cardinality(bids[c]))
      BY <1>0, <1>3 DEF OnSchedule
    <2> QED
      BY <1>a, <1>3, <2>1
  <1>4. ASSUME NEW u \in Users, NEW c \in Cards, CancelAuction(u, c)
        PROVE  FinitelyManyBids' /\ ClosingSchedule'
    <2> DEFINE row == [auction[c] EXCEPT !.status = "CANCELLED"]
    <2>1. row.startsAt = auction[c].startsAt /\ row.closesAt = auction[c].closesAt
          /\ row.ext = auction[c].ext
      BY DEF AuctionRow
    <2>2. auction' = [auction EXCEPT ![c] = row] /\ bids' = bids
          /\ auction[c].status # "NONE"
      BY <1>4 DEF CancelAuction
    <2> HIDE DEF row
    <2> QED
      BY <1>3, <2>1, <2>2
  <1>5. ASSUME NEW c \in Cards, SettleUnsold(c)
        PROVE  FinitelyManyBids' /\ ClosingSchedule'
    <2> DEFINE row == [auction[c] EXCEPT !.status = "CLOSED"]
    <2>1. row.startsAt = auction[c].startsAt /\ row.closesAt = auction[c].closesAt
          /\ row.ext = auction[c].ext
      BY DEF AuctionRow
    <2>2. auction' = [auction EXCEPT ![c] = row] /\ bids' = bids
          /\ auction[c].status # "NONE"
      BY <1>5 DEF SettleUnsold, Due
    <2> HIDE DEF row
    <2> QED
      BY <1>3, <2>1, <2>2
  <1>6. ASSUME NEW c \in Cards, SettleSold(c)
        PROVE  FinitelyManyBids' /\ ClosingSchedule'
    <2> DEFINE row == [auction[c] EXCEPT !.status = "CLOSED", !.winner = auction[c].bidder]
    <2>1. row.startsAt = auction[c].startsAt /\ row.closesAt = auction[c].closesAt
          /\ row.ext = auction[c].ext
      BY DEF AuctionRow
    <2>2. auction' = [auction EXCEPT ![c] = row] /\ bids' = bids
          /\ auction[c].status # "NONE"
      BY <1>6 DEF SettleSold, CardAfterSale, Due
    <2> HIDE DEF row
    <2> QED
      BY <1>3, <2>1, <2>2
  <1>7. CASE Tick \/ UNCHANGED houseVars
    BY <1>7 DEF Tick, houseVars, auctionVars, FinitelyManyBids, ClosingSchedule
  <1> QED
    BY <1>1, <1>2, <1>4, <1>5, <1>6, <1>7 DEF AuctionNext

(* The close moves only by whole extensions, at most the cap of them, and   *)
(* each one was paid for by a bid of its own.                               *)
THEOREM ClosesOnSchedule == AuctionSpec => []ClosingSchedule
  <1>1. AuctionInit => FinitelyManyBids /\ ClosingSchedule
    BY FS_EmptySet DEF AuctionInit, NoAuction, FinitelyManyBids, ClosingSchedule
  <1>2. HouseInv /\ BidLadder /\ FinitelyManyBids /\ ClosingSchedule
          /\ [AuctionNext]_houseVars => FinitelyManyBids' /\ ClosingSchedule'
    BY ScheduleStep
  <1> QED
    BY <1>1, <1>2, HouseInductive, BidsFormLadder, PTL DEF AuctionSpec

----------------------------------------------------------------------------
(* Sums of money *)

(* Each user's hold moves with the one part of the sum that moves. *)
LEMMA HeldStep ==
  ASSUME HouseInv, HouseInv', HeldIsTheLeads, [HoldsMove]_houseVars
  PROVE  HeldIsTheLeads'
  <1> SUFFICES ASSUME NEW u \in Users
               PROVE  held'[u] = SumFunction([c \in Cards |-> Lead(u, c)'])
    BY DEF HeldIsTheLeads
  <1> DEFINE old == [c \in Cards |-> Lead(u, c)]
             new == [c \in Cards |-> Lead(u, c)']
  <1>1. old \in [Cards -> Int] /\ new \in [Cards -> Int]
    <2>1. \A c \in Cards : Lead(u, c) \in Int
      BY ColumnTypes DEF HouseInv, Lead
    <2>2. \A c \in Cards : auction'[c].bid \in Nat
      <3>1. \A c \in Cards : auction'[c] \in AuctionRow
        BY DEF HouseInv, AuctionTypeOK
      <3>2. \A x \in BidAmounts \cup {0} : x \in Nat
        BY AuctionAssumption
      <3> QED
        BY <3>1, <3>2 DEF AuctionRow
    <2>3. \A c \in Cards : Lead(u, c)' \in Int
      BY <2>2 DEF Lead
    <2> QED
      BY <2>1, <2>3
  <1>2. held[u] = SumFunction(old)
    BY DEF HeldIsTheLeads
  <1>3. held[u] \in Int /\ held'[u] \in Int
    BY DEF HouseInv, AuctionTypeOK, AccountsTypeOK
  <1>4. ASSUME NEW c \in Cards, auction'[c] # auction[c]
        PROVE  held'[u] = SumFunction(new)
    <2>1. HoldsMove
      BY <1>4 DEF houseVars, auctionVars
    <2>2. /\ \A d \in Cards \ {c} : auction'[d] = auction[d]
          /\ held'[u] - held[u] = Lead(u, c)' - Lead(u, c)
      BY <1>4, <2>1 DEF HoldsMove
    <2>3. \A d \in Cards \ {c} : new[d] = old[d]
      BY <2>2 DEF Lead
    <2>4. new[c] = Lead(u, c)' /\ old[c] = Lead(u, c)
      OBVIOUS
    <2>5. /\ SumFunction(old) \in Int /\ SumFunction(new) \in Int
          /\ SumFunction(new) - SumFunction(old) = new[c] - old[c]
      <3> HIDE DEF old, new
      <3> QED
        BY <1>1, <2>3, SumMoves, FiniteTables
    <2> HIDE DEF old, new
    <2> QED
      BY <1>2, <1>3, <2>2, <2>4, <2>5
  <1>5. ASSUME \A c \in Cards : auction'[c] = auction[c]
        PROVE  held'[u] = SumFunction(new)
    <2>1. held' = held
      BY <1>5 DEF HoldsMove, houseVars, accountVars
    <2>2. new = old
      BY <1>5 DEF Lead
    <2> HIDE DEF old, new
    <2> QED
      BY <1>2, <2>1, <2>2
  <1> HIDE DEF old
  <1> QED
    BY <1>4, <1>5

LEMMA HeldInit ==
  ASSUME AuctionInit
  PROVE  HeldIsTheLeads
  <1> SUFFICES ASSUME NEW u \in Users
               PROVE  held[u] = SumFunction([c \in Cards |-> Lead(u, c)])
    BY DEF HeldIsTheLeads
  <1> DEFINE leads == [c \in Cards |-> Lead(u, c)]
  <1>1. leads \in [Cards -> Int] /\ \A c \in Cards : leads[c] = 0
    BY DEF AuctionInit, NoAuction, Lead
  <1>2. SumFunction(leads) = 0
    <2> HIDE DEF leads
    <2> QED
      BY <1>1, SumOfNothing, FiniteTables
  <1> QED
    BY <1>2 DEF AuctionInit, AccountsInit

(* balance_held is the sum of the bids its user leads in live auctions:     *)
(* no outbid, raise or settlement releases a hold twice or loses one.       *)
THEOREM HoldsAddUp == AuctionSpec => []HeldIsTheLeads
  <1>1. AuctionInit => HeldIsTheLeads
    BY HeldInit
  <1>2. HouseInv /\ HouseInv' /\ HeldIsTheLeads /\ [AuctionNext]_houseVars => HeldIsTheLeads'
    BY HoldsStep, HeldStep
  <1> QED
    BY <1>1, <1>2, HouseInductive, PTL DEF AuctionSpec

(* The strengthening: a user's ledger falls behind the balance by exactly   *)
(* what the user has won, since AUCTION_WIN writes off the money that       *)
(* BID_HOLD had written off before.                                         *)
Win(u, c) == IF auction[c].winner = u THEN auction[c].bid ELSE 0

GapIsTheWins ==
  \A u \in Users : balance[u] - ledgerSum[u] = SumFunction([c \in Cards |-> Win(u, c)])

(* The money a user's ledger does not show, and its move in a step. *)
Gap(u) == balance[u] - ledgerSum[u]

(* A step moves it by what its user wins in the one auction that changes.   *)
GapsMove ==
  \/ /\ auction' = auction
     /\ \A u \in Users : Gap(u)' = Gap(u)
  \/ \E c \in Cards :
       /\ \A d \in Cards \ {c} : auction'[d] = auction[d]
       /\ \A u \in Users : Gap(u)' - Gap(u) = Win(u, c)' - Win(u, c)

LEMMA GapStep ==
  ASSUME HouseInv, [AuctionNext]_houseVars
  PROVE  GapsMove
  <1> USE DEF HouseInv, AuctionTypeOK, AccountsTypeOK
  <1>0. \A u \in Users : balance[u] \in Int /\ ledgerSum[u] \in Int
    OBVIOUS
  <1>a. ASSUME NEW c \in Cards, \A d \in Cards \ {c} : auction'[d] = auction[d],
               auction'[c].winner = auction[c].winner,
               auction[c].winner = NoUser,
               balance' = balance, ledgerSum' = ledgerSum
        PROVE  GapsMove
    <2>1. \A u \in Users : Win(u, c) = 0 /\ Win(u, c)' = 0
      BY <1>a, AccountsAssumption DEF Win
    <2>2. \A u \in Users : Gap(u)' = Gap(u) /\ Gap(u) \in Int
      BY <1>a DEF Gap
    <2> QED
      BY <1>a, <2>1, <2>2 DEF GapsMove
  <1>1. ASSUME NEW u \in Users, NEW c \in Cards, NEW start \in StartingBids,
               NEW secs \in Durations, CreateAuction(u, c, start, secs)
        PROVE  GapsMove
    <2>1. auction[c].winner = NoUser
      BY <1>1 DEF CreateAuction, NullsAgree
    <2>2. /\ \A d \in Cards \ {c} : auction'[d] = auction[d]
          /\ auction'[c].winner = NoUser
      BY <1>1 DEF CreateAuction, NoAuction
    <2> QED
      BY <1>1, <1>a, <2>1, <2>2 DEF CreateAuction
  <1>2. ASSUME NEW u \in Users, NEW c \in Cards, CancelAuction(u, c)
        PROVE  GapsMove
    <2>1. auction[c].winner = NoUser
      BY <1>2 DEF CancelAuction, NullsAgree
    <2>2. /\ \A d \in Cards \ {c} : auction'[d] = auction[d]
          /\ auction'[c].winner = auction[c].winner
      BY <1>2 DEF CancelAuction, AuctionRow
    <2> QED
      BY <1>2, <1>a, <2>1, <2>2 DEF CancelAuction
  <1>3. ASSUME NEW u \in Users, NEW c \in Cards, NEW amount \in BidAmounts,
               PlaceBid(u, c, amount)
        PROVE  GapsMove
    <2>1. auction[c].winner = NoUser
      BY <1>3 DEF PlaceBid, NullsAgree
    <2>2. /\ \A d \in Cards \ {c} : auction'[d] = auction[d]
          /\ auction'[c].winner = auction[c].winner
      BY <1>3 DEF PlaceBid, AuctionRow
    <2>3. \A w \in Users : Win(w, c) = 0 /\ Win(w, c)' = 0
      BY <2>1, <2>2, AccountsAssumption DEF Win
    <2>4. ASSUME NEW w \in Users
          PROVE  Gap(w)' - Gap(w) = 0
      <3>1. HoldChange(w, u, auction[c], amount) \in Int
        BY HoldChangeType, AuctionAssumption
      <3>2. /\ balance'[w] = balance[w] - HoldChange(w, u, auction[c], amount)
            /\ ledgerSum'[w] = ledgerSum[w] - HoldChange(w, u, auction[c], amount)
        BY <1>3 DEF PlaceBid
      <3>3. \A x, y, z \in Int : ((x - z) - (y - z)) - (x - y) = 0
        OBVIOUS
      <3> QED
        BY <1>0, <3>1, <3>2, <3>3 DEF Gap
    <2> QED
      BY <2>2, <2>3, <2>4 DEF GapsMove
  <1>4. ASSUME NEW c \in Cards, SettleUnsold(c)
        PROVE  GapsMove
    <2>1. auction[c].winner = NoUser
      BY <1>4 DEF SettleUnsold, Due, NullsAgree
    <2>2. /\ \A d \in Cards \ {c} : auction'[d] = auction[d]
          /\ auction'[c].winner = auction[c].winner
      BY <1>4 DEF SettleUnsold, AuctionRow
    <2> QED
      BY <1>4, <1>a, <2>1, <2>2 DEF SettleUnsold
  <1>5. ASSUME NEW c \in Cards, SettleSold(c)
        PROVE  GapsMove
    <2> DEFINE a == auction[c]
    <2>1. /\ a.bidder \in Users /\ a.seller \in Users /\ a.bidder # a.seller
          /\ a.bid \in Nat /\ a.winner = NoUser
      <3>1. a.bidder # NoUser /\ a.seller # NoUser /\ a.winner = NoUser /\ a.bidder # a.seller
        BY <1>5 DEF SettleSold, Due, NullsAgree, CardFollowsAuction
      <3> QED
        BY <3>1, ColumnTypes
    <2>2. SellerProceeds(a.bid) \in Int
      BY <2>1, FeeType
    <2>3. /\ \A d \in Cards \ {c} : auction'[d] = auction[d]
          /\ auction'[c].winner = a.bidder /\ auction'[c].bid = a.bid
      BY <1>5 DEF SettleSold, AuctionRow
    <2>4. \A w \in Users :
            balance'[w] = IF w = a.seller THEN balance[w] + SellerProceeds(a.bid)
                                          ELSE balance[w]
      <3>1. balance' = [balance EXCEPT ![a.seller] = @ + SellerProceeds(a.bid)]
        BY <1>5 DEF SettleSold, Post
      <3> HIDE DEF a
      <3> QED
        BY <3>1
    <2>5. \A w \in Users :
            ledgerSum'[w] = IF w = a.bidder THEN ledgerSum[w] - a.bid
                            ELSE IF w = a.seller THEN ledgerSum[w] + SellerProceeds(a.bid)
                            ELSE ledgerSum[w]
      <3>1. ledgerSum' = [[ledgerSum EXCEPT ![a.bidder] = @ + (-a.bid)]
                             EXCEPT ![a.seller] = @ + SellerProceeds(a.bid)]
        BY <1>5 DEF SettleSold, Post
      <3> HIDE DEF a
      <3> QED
        BY <2>1, <3>1
    <2>6. \A w \in Users : /\ Win(w, c) = 0
                           /\ Win(w, c)' = IF w = a.bidder THEN a.bid ELSE 0
      BY <2>1, <2>3, AccountsAssumption DEF Win
    <2>7. ASSUME NEW w \in Users
          PROVE  Gap(w)' - Gap(w) = Win(w, c)' - Win(w, c)
      <3> DEFINE before == Win(w, c)
                 after == Win(w, c)'
      <3>1. before = 0 /\ after = IF w = a.bidder THEN a.bid ELSE 0
        BY <2>6
      <3>2. Gap(w)' - Gap(w) = IF w = a.bidder THEN a.bid ELSE 0
        <4> HIDE DEF a
        <4> QED
          BY <1>0, <2>1, <2>2, <2>4, <2>5 DEF Gap
      <3>3. after - before = IF w = a.bidder THEN a.bid ELSE 0
        <4> HIDE DEF before, after, a
        <4> QED
          BY <2>1, <3>1
      <3> QED
        BY <3>2, <3>3
    <2> QED
      BY <2>3, <2>7 DEF GapsMove
  <1>6. CASE Tick \/ UNCHANGED houseVars
    BY <1>6 DEF Tick, houseVars, accountVars, auctionVars, GapsMove, Gap
  <1> QED
    BY <1>1, <1>2, <1>3, <1>4, <1>5, <1>6 DEF AuctionNext

LEMMA LedgerStep ==
  ASSUME HouseInv, HouseInv', GapIsTheWins, GapsMove
  PROVE  GapIsTheWins'
  <1> SUFFICES ASSUME NEW u \in Users
               PROVE  balance'[u] - ledgerSum'[u] = SumFunction([c \in Cards |-> Win(u, c)'])
    BY DEF GapIsTheWins
  <1> DEFINE old == [c \in Cards |-> Win(u, c)]
             new == [c \in Cards |-> Win(u, c)']
  <1>1. old \in [Cards -> Int] /\ new \in [Cards -> Int]
    <2>1. \A c \in Cards : auction[c].bid \in Nat /\ auction'[c].bid \in Nat
      <3>1. \A c \in Cards : auction[c] \in AuctionRow /\ auction'[c] \in AuctionRow
        BY DEF HouseInv, AuctionTypeOK
      <3>2. \A x \in BidAmounts \cup {0} : x \in Nat
        BY AuctionAssumption
      <3> QED
        BY <3>1, <3>2 DEF AuctionRow
    <2>2. \A c \in Cards : Win(u, c) \in Int /\ Win(u, c)' \in Int
      BY <2>1 DEF Win
    <2> QED
      BY <2>2
  <1>2. Gap(u) = SumFunction(old) /\ Gap(u)' = balance'[u] - ledgerSum'[u]
    BY DEF GapIsTheWins, Gap
  <1>3. Gap(u) \in Int /\ Gap(u)' \in Int
    BY DEF HouseInv, AuctionTypeOK, AccountsTypeOK, Gap
  <1>4. CASE auction' = auction /\ Gap(u)' = Gap(u)
    <2>1. new = old
      BY <1>4 DEF Win
    <2> QED
      BY <1>2, <1>4, <2>1, Zenon
  <1>5. ASSUME NEW c \in Cards, \A d \in Cards \ {c} : auction'[d] = auction[d],
               Gap(u)' - Gap(u) = Win(u, c)' - Win(u, c)
        PROVE  balance'[u] - ledgerSum'[u] = SumFunction(new)
    <2>1. \A d \in Cards \ {c} : new[d] = old[d]
      BY <1>5 DEF Win
    <2>2. new[c] = Win(u, c)' /\ old[c] = Win(u, c)
      OBVIOUS
    <2>3. /\ SumFunction(old) \in Int /\ SumFunction(new) \in Int
          /\ SumFunction(new) - SumFunction(old) = new[c] - old[c]
      <3> HIDE DEF old, new
      <3> QED
        BY <1>1, <2>1, SumMoves, FiniteTables
    <2> DEFINE gap == Gap(u)
               gapAfter == Gap(u)'
    <2>4. /\ gapAfter - gap = new[c] - old[c] /\ gap = SumFunction(old)
          /\ gap \in Int /\ gapAfter \in Int
      BY <1>2, <1>3, <1>5, <2>2
    <2>5. new[c] \in Int /\ old[c] \in Int
      BY <1>1
    <2>6. gapAfter = SumFunction(new)
      <3> HIDE DEF old, new, gap, gapAfter
      <3> QED
        BY <2>3, <2>4, <2>5
    <2> QED
      BY <1>2, <2>6
  <1> QED
    BY <1>4, <1>5 DEF GapsMove

LEMMA LedgerInit ==
  ASSUME AuctionInit
  PROVE  GapIsTheWins
  <1> SUFFICES ASSUME NEW u \in Users
               PROVE  balance[u] - ledgerSum[u] = SumFunction([c \in Cards |-> Win(u, c)])
    BY DEF GapIsTheWins
  <1> DEFINE wins == [c \in Cards |-> Win(u, c)]
  <1>1. wins \in [Cards -> Int] /\ \A c \in Cards : wins[c] = 0
    BY AccountsAssumption DEF AuctionInit, NoAuction, Win
  <1>2. SumFunction(wins) = 0
    <2> HIDE DEF wins
    <2> QED
      BY <1>1, SumOfNothing, FiniteTables
  <1>3. balance[u] = Opening /\ ledgerSum[u] = Opening
    BY DEF AuctionInit, AccountsInit
  <1> QED
    BY <1>2, <1>3, AccountsAssumption

LEMMA GapExplained ==
  ASSUME HouseInv, GapIsTheWins
  PROVE  LedgerExplainsTheRest
  <1> SUFFICES ASSUME NEW u \in Users, \A c \in Cards : auction[c].winner # u
               PROVE  balance[u] = ledgerSum[u]
    BY DEF LedgerExplainsTheRest
  <1> DEFINE wins == [c \in Cards |-> Win(u, c)]
  <1>1. wins \in [Cards -> Int] /\ \A c \in Cards : wins[c] = 0
    BY DEF Win
  <1>2. SumFunction(wins) = 0
    <2> HIDE DEF wins
    <2> QED
      BY <1>1, SumOfNothing, FiniteTables
  <1>3. balance[u] - ledgerSum[u] = 0
    BY <1>2 DEF GapIsTheWins
  <1> QED
    BY <1>3 DEF HouseInv, AuctionTypeOK, AccountsTypeOK

(* Who has won no auction has a balance that is the sum of the ledger:      *)
(* holds and their releases cancel, and a sale's rows are what it credits.  *)
THEOREM LedgersExplainTheRest == AuctionSpec => []LedgerExplainsTheRest
  <1>1. AuctionInit => GapIsTheWins
    BY LedgerInit
  <1>2. HouseInv /\ HouseInv' /\ GapIsTheWins /\ [AuctionNext]_houseVars => GapIsTheWins'
    BY GapStep, LedgerStep
  <1>3. HouseInv /\ GapIsTheWins => LedgerExplainsTheRest
    BY GapExplained
  <1> QED
    BY <1>1, <1>2, <1>3, HouseInductive, PTL DEF AuctionSpec

(* What a user's money, spendable or held, is short of the opening deposit. *)
Short(u) == Opening - (balance[u] + held[u])

(* In a step with no settlement nobody's money changes; one that settles    *)
(* the auction of c moves it at its bidder and its seller.                  *)
KeptMoves ==
  \/ /\ \A c \in Cards : Kept(c)' = Kept(c)
     /\ \A u \in Users : Short(u)' = Short(u)
  \/ \E c \in Cards, p \in Nat, buyer \in Users, seller \in Users :
       /\ buyer # seller
       /\ \A d \in Cards \ {c} : Kept(d)' = Kept(d)
       /\ Kept(c) = 0 /\ Kept(c)' = p - SellerProceeds(p)
       /\ \A u \in Users \ {buyer, seller} : Short(u)' = Short(u)
       /\ Short(buyer)' = Short(buyer) + p
       /\ Short(seller)' = Short(seller) - SellerProceeds(p)

LEMMA KeptStep ==
  ASSUME HouseInv, [AuctionNext]_houseVars
  PROVE  KeptMoves
  <1> USE DEF HouseInv, AuctionTypeOK, AccountsTypeOK
  <1>0. /\ \A u \in Users : balance[u] \in Int /\ held[u] \in Int
        /\ Opening \in Int
    BY AccountsAssumption
  <1>a. ASSUME NEW c \in Cards, \A d \in Cards \ {c} : auction'[d] = auction[d],
               auction'[c].winner = auction[c].winner,
               auction[c].winner = NoUser,
               \A u \in Users : balance'[u] + held'[u] = balance[u] + held[u]
        PROVE  KeptMoves
    <2>1. Kept(c) = 0 /\ Kept(c)' = 0
      BY <1>a DEF Kept
    <2>2. \A u \in Users : Short(u)' = Short(u)
      BY <1>a DEF Short
    <2>3. \A d \in Cards \ {c} : Kept(d)' = Kept(d)
      BY <1>a DEF Kept
    <2> QED
      BY <2>1, <2>2, <2>3 DEF KeptMoves
  <1>1. ASSUME NEW u \in Users, NEW c \in Cards, NEW start \in StartingBids,
               NEW secs \in Durations, CreateAuction(u, c, start, secs)
        PROVE  KeptMoves
    <2>1. auction[c].winner = NoUser
      BY <1>1 DEF CreateAuction, NullsAgree
    <2>2. /\ \A d \in Cards \ {c} : auction'[d] = auction[d]
          /\ auction'[c].winner = NoUser
      BY <1>1 DEF CreateAuction, NoAuction
    <2> QED
      BY <1>1, <1>a, <2>1, <2>2 DEF CreateAuction
  <1>2. ASSUME NEW u \in Users, NEW c \in Cards, CancelAuction(u, c)
        PROVE  KeptMoves
    <2>1. auction[c].winner = NoUser
      BY <1>2 DEF CancelAuction, NullsAgree
    <2>2. /\ \A d \in Cards \ {c} : auction'[d] = auction[d]
          /\ auction'[c].winner = auction[c].winner
      BY <1>2 DEF CancelAuction, AuctionRow
    <2> QED
      BY <1>2, <1>a, <2>1, <2>2 DEF CancelAuction
  <1>3. ASSUME NEW u \in Users, NEW c \in Cards, NEW amount \in BidAmounts,
               PlaceBid(u, c, amount)
        PROVE  KeptMoves
    <2>1. auction[c].winner = NoUser
      BY <1>3 DEF PlaceBid, NullsAgree
    <2>2. /\ \A d \in Cards \ {c} : auction'[d] = auction[d]
          /\ auction'[c].winner = auction[c].winner
      BY <1>3 DEF PlaceBid, AuctionRow
    <2>3. ASSUME NEW w \in Users
          PROVE  balance'[w] + held'[w] = balance[w] + held[w]
      <3>1. HoldChange(w, u, auction[c], amount) \in Int
        BY HoldChangeType, AuctionAssumption
      <3>2. /\ balance'[w] = balance[w] - HoldChange(w, u, auction[c], amount)
            /\ held'[w] = held[w] + HoldChange(w, u, auction[c], amount)
        BY <1>3 DEF PlaceBid
      <3>3. \A x, y, z \in Int : (x - z) + (y + z) = x + y
        OBVIOUS
      <3> QED
        BY <1>0, <3>1, <3>2, <3>3
    <2> QED
      BY <1>a, <2>1, <2>2, <2>3
  <1>4. ASSUME NEW c \in Cards, SettleUnsold(c)
        PROVE  KeptMoves
    <2>1. auction[c].winner = NoUser
      BY <1>4 DEF SettleUnsold, Due, NullsAgree
    <2>2. /\ \A d \in Cards \ {c} : auction'[d] = auction[d]
          /\ auction'[c].winner = auction[c].winner
      BY <1>4 DEF SettleUnsold, AuctionRow
    <2> QED
      BY <1>4, <1>a, <2>1, <2>2 DEF SettleUnsold
  <1>5. ASSUME NEW c \in Cards, SettleSold(c)
        PROVE  KeptMoves
    <2> DEFINE a == auction[c]
    <2>1. /\ a.bidder \in Users /\ a.seller \in Users /\ a.bidder # a.seller
          /\ a.bid \in Nat /\ a.winner = NoUser /\ a.bidder # NoUser
      <3>1. a.bidder # NoUser /\ a.seller # NoUser /\ a.winner = NoUser /\ a.bidder # a.seller
        BY <1>5 DEF SettleSold, Due, NullsAgree, CardFollowsAuction
      <3> QED
        BY <3>1, ColumnTypes
    <2>2. SellerProceeds(a.bid) \in Int
      BY <2>1, FeeType
    <2>3. /\ \A d \in Cards \ {c} : auction'[d] = auction[d]
          /\ auction'[c].winner = a.bidder /\ auction'[c].bid = a.bid
      BY <1>5 DEF SettleSold, AuctionRow
    <2>4. \A w \in Users :
            balance'[w] = IF w = a.seller THEN balance[w] + SellerProceeds(a.bid)
                                          ELSE balance[w]
      <3>1. balance' = [balance EXCEPT ![a.seller] = @ + SellerProceeds(a.bid)]
        BY <1>5 DEF SettleSold, Post
      <3> HIDE DEF a
      <3> QED
        BY <3>1
    <2>5. \A w \in Users : held'[w] = IF w = a.bidder THEN held[w] - a.bid ELSE held[w]
      <3>1. held' = [held EXCEPT ![a.bidder] = @ + (-a.bid)]
        BY <1>5 DEF SettleSold, Post
      <3> HIDE DEF a
      <3> QED
        BY <2>1, <3>1
    <2>6. /\ \A d \in Cards \ {c} : Kept(d)' = Kept(d)
          /\ Kept(c) = 0 /\ Kept(c)' = a.bid - SellerProceeds(a.bid)
      BY <2>1, <2>3 DEF Kept
    <2>7. PICK buyer \in Users, seller \in Users, p \in Nat :
            buyer = a.bidder /\ seller = a.seller /\ p = a.bid
      BY <2>1
    <2> HIDE DEF a
    <2>8. \A x, y, z, o \in Int : /\ o - (x + (y - z)) = (o - (x + y)) + z
                                  /\ o - ((x + z) + y) = (o - (x + y)) - z
      OBVIOUS
    <2>9. \A u \in Users \ {buyer, seller} : Short(u)' = Short(u)
      BY <2>4, <2>5, <2>7 DEF Short
    <2>10. Short(buyer)' = Short(buyer) + p
      <3>1. balance'[buyer] = balance[buyer] /\ held'[buyer] = held[buyer] - p
        BY <2>1, <2>4, <2>5, <2>7
      <3> QED
        BY <1>0, <2>8, <3>1 DEF Short
    <2>11. Short(seller)' = Short(seller) - SellerProceeds(p)
      <3>1. /\ balance'[seller] = balance[seller] + SellerProceeds(p)
            /\ held'[seller] = held[seller]
        BY <2>1, <2>4, <2>5, <2>7
      <3> QED
        BY <1>0, <2>2, <2>7, <2>8, <3>1 DEF Short
    <2> QED
      BY <2>1, <2>6, <2>7, <2>9, <2>10, <2>11 DEF KeptMoves
  <1>6. CASE Tick \/ UNCHANGED houseVars
    BY <1>6 DEF Tick, houseVars, accountVars, auctionVars, KeptMoves, Kept, Short
  <1> QED
    BY <1>1, <1>2, <1>3, <1>4, <1>5, <1>6 DEF AuctionNext

LEMMA SalesAccount ==
  ASSUME HouseInv, HouseInv', MoneyLeavesOnlyBySales, KeptMoves
  PROVE  MoneyLeavesOnlyBySales'
  <1> DEFINE short == [u \in Users |-> Short(u)]
             shortAfter == [u \in Users |-> Short(u)']
             kept == [c \in Cards |-> Kept(c)]
             keptAfter == [c \in Cards |-> Kept(c)']
  <1>0. /\ MoneyLeavesOnlyBySales' <=> SumFunction(shortAfter) = SumFunction(keptAfter)
        /\ SumFunction(short) = SumFunction(kept)
    BY DEF MoneyLeavesOnlyBySales, Short
  <1>1. short \in [Users -> Int] /\ shortAfter \in [Users -> Int]
    <2>1. \A u \in Users : Short(u) \in Int /\ Short(u)' \in Int
      BY AccountsAssumption DEF HouseInv, AuctionTypeOK, AccountsTypeOK, Short
    <2> QED
      BY <2>1
  <1>2. kept \in [Cards -> Int] /\ keptAfter \in [Cards -> Int]
    <2>1. \A c \in Cards : auction[c].bid \in Nat /\ auction'[c].bid \in Nat
      <3>1. \A c \in Cards : auction[c] \in AuctionRow /\ auction'[c] \in AuctionRow
        BY DEF HouseInv, AuctionTypeOK
      <3>2. \A x \in BidAmounts \cup {0} : x \in Nat
        BY AuctionAssumption
      <3> QED
        BY <3>1, <3>2 DEF AuctionRow
    <2>2. \A c \in Cards : Kept(c) \in Int /\ Kept(c)' \in Int
      BY <2>1, FeeType DEF Kept
    <2> QED
      BY <2>2
  <1>3. CASE /\ \A c \in Cards : Kept(c)' = Kept(c)
             /\ \A u \in Users : Short(u)' = Short(u)
    <2>1. keptAfter = kept /\ shortAfter = short
      BY <1>3
    <2> QED
      BY <1>0, <2>1, Zenon
  <1>4. ASSUME NEW c \in Cards, NEW p \in Nat, NEW buyer \in Users, NEW seller \in Users,
               buyer # seller,
               \A d \in Cards \ {c} : Kept(d)' = Kept(d),
               Kept(c) = 0, Kept(c)' = p - SellerProceeds(p),
               \A u \in Users \ {buyer, seller} : Short(u)' = Short(u),
               Short(buyer)' = Short(buyer) + p,
               Short(seller)' = Short(seller) - SellerProceeds(p)
        PROVE  MoneyLeavesOnlyBySales'
    <2>1. /\ \A d \in Cards \ {c} : keptAfter[d] = kept[d]
          /\ kept[c] = 0 /\ keptAfter[c] = p - SellerProceeds(p)
      BY <1>4
    <2>2. /\ \A u \in Users \ {buyer, seller} : shortAfter[u] = short[u]
          /\ shortAfter[buyer] = short[buyer] + p
          /\ shortAfter[seller] = short[seller] - SellerProceeds(p)
      BY <1>4
    <2>3. SellerProceeds(p) \in Int
      BY FeeType
    <2> HIDE DEF kept, keptAfter, short, shortAfter
    <2>4. /\ SumFunction(kept) \in Int /\ SumFunction(keptAfter) \in Int
          /\ SumFunction(keptAfter) - SumFunction(kept) = p - SellerProceeds(p)
      <3>1. SumFunction(keptAfter) - SumFunction(kept) = keptAfter[c] - kept[c]
            /\ SumFunction(kept) \in Int /\ SumFunction(keptAfter) \in Int
        BY <1>2, <2>1, SumMoves, FiniteTables
      <3> QED
        BY <2>1, <2>3, <3>1
    <2>5. /\ SumFunction(short) \in Int /\ SumFunction(shortAfter) \in Int
          /\ SumFunction(shortAfter) - SumFunction(short)
               = (shortAfter[buyer] - short[buyer]) + (shortAfter[seller] - short[seller])
      BY <1>1, <1>4, <2>2, SumMovesTwice, FiniteTables
    <2>6. (shortAfter[buyer] - short[buyer]) + (shortAfter[seller] - short[seller])
            = p - SellerProceeds(p)
      <3>1. short[buyer] \in Int /\ short[seller] \in Int
        BY <1>1
      <3> QED
        BY <2>2, <2>3, <3>1
    <2> QED
      BY <1>0, <2>4, <2>5, <2>6
  <1> QED
    BY <1>3, <1>4 DEF KeptMoves

LEMMA KeptInit ==
  ASSUME AuctionInit
  PROVE  MoneyLeavesOnlyBySales
  <1> DEFINE short == [u \in Users |-> Opening - (balance[u] + held[u])]
             kept == [c \in Cards |-> Kept(c)]
  <1>1. short \in [Users -> Int] /\ \A u \in Users : short[u] = 0
    BY AccountsAssumption DEF AuctionInit, AccountsInit
  <1>2. kept \in [Cards -> Int] /\ \A c \in Cards : kept[c] = 0
    BY DEF AuctionInit, NoAuction, Kept
  <1>3. SumFunction(short) = 0
    <2> HIDE DEF short
    <2> QED
      BY <1>1, SumOfNothing, FiniteTables
  <1>4. SumFunction(kept) = 0
    <2> HIDE DEF kept
    <2> QED
      BY <1>2, SumOfNothing, FiniteTables
  <1> QED
    BY <1>3, <1>4 DEF MoneyLeavesOnlyBySales

(* The users' money shrinks by what each settled sale kept, once, and by    *)
(* nothing else: no bid, outbid, cancel or settlement creates or loses any. *)
THEOREM MoneyLeavesBySalesAlone == AuctionSpec => []MoneyLeavesOnlyBySales
  <1>1. AuctionInit => MoneyLeavesOnlyBySales
    BY KeptInit
  <1>2. HouseInv /\ HouseInv' /\ MoneyLeavesOnlyBySales /\ [AuctionNext]_houseVars
          => MoneyLeavesOnlyBySales'
    BY KeptStep, SalesAccount
  <1> QED
    BY <1>1, <1>2, HouseInductive, PTL DEF AuctionSpec

----------------------------------------------------------------------------
(* The promise *)

(* A step that keeps owners, the money of each user, and leader and price   *)
(* of each auction, does nothing to what people can see but the phases.     *)
LEMMA OnlyPhases ==
  ASSUME HouseInv, NEW c \in Cards, NEW row \in AuctionRow,
         auction' = [auction EXCEPT ![c] = row],
         row.bidder = auction[c].bidder, row.bid = auction[c].bid,
         \A d \in Cards : card'[d].owner = card[d].owner,
         balance' = balance, held' = held
  PROVE  /\ Promise!Offer(c) \/ Phase(auction[c]) # "idle" \/ Phase(row) # "open"
         /\ \/ Promise!Withdraw(c)
            \/ Phase(auction[c]) # "open" \/ Phase(row) # "over" \/ row.bidder # NoUser
  <1> USE DEF HouseInv, AuctionTypeOK, AccountsTypeOK
  <1> DEFINE phases == [d \in Cards |-> Phase(auction[d])]
  <1>1. [d \in Cards |-> Phase(auction'[d])] = [phases EXCEPT ![c] = Phase(row)]
    <2> HIDE DEF Phase
    <2> QED OBVIOUS
  <1>2. /\ [d \in Cards |-> card'[d].owner] = [d \in Cards |-> card[d].owner]
        /\ [d \in Cards |-> auction'[d].bidder] = [d \in Cards |-> auction[d].bidder]
        /\ [d \in Cards |-> auction'[d].bid] = [d \in Cards |-> auction[d].bid]
        /\ [u \in Users |-> balance'[u] + held'[u]] = [u \in Users |-> balance[u] + held[u]]
    OBVIOUS
  <1>3. ASSUME Phase(auction[c]) = "idle", Phase(row) = "open"
        PROVE  Promise!Offer(c)
    BY <1>1, <1>2, <1>3 DEF Promise!Offer
  <1>4. ASSUME Phase(auction[c]) = "open", Phase(row) = "over", row.bidder = NoUser
        PROVE  Promise!Withdraw(c)
    BY <1>1, <1>2, <1>4 DEF Promise!Withdraw
  <1> QED
    BY <1>3, <1>4

LEMMA PromiseStep ==
  ASSUME HouseInv, [AuctionNext]_houseVars
  PROVE  [Promise!Next]_(Promise!vars)
  <1> USE DEF HouseInv, AuctionTypeOK, AccountsTypeOK
  <1>1. ASSUME NEW u \in Users, NEW c \in Cards, NEW start \in StartingBids,
               NEW secs \in Durations, CreateAuction(u, c, start, secs)
        PROVE  Promise!Offer(c)
    <2> DEFINE row == [NoAuction EXCEPT !.status = "LIVE", !.seller = u,
                                        !.start = start, !.startsAt = clock,
                                        !.closesAt = clock + secs * MsPerSec]
    <2>1. auction[c].status = "NONE" /\ auction[c].bidder = NoUser /\ auction[c].bid = 0
      BY <1>1 DEF CreateAuction, NullsAgree
    <2>2. auction' = [auction EXCEPT ![c] = row]
      BY <1>1 DEF CreateAuction
    <2>3. row \in AuctionRow
      <3>1. auction'[c] \in AuctionRow
        BY TypeStep
      <3> HIDE DEF row
      <3> QED
        BY <2>2, <3>1
    <2>4. row.bidder = NoUser /\ row.bid = 0 /\ row.status = "LIVE"
      BY DEF NoAuction
    <2>5. /\ \A d \in Cards : card'[d].owner = card[d].owner
          /\ balance' = balance /\ held' = held
      BY <1>1 DEF CreateAuction, CardRow
    <2> HIDE DEF row
    <2>6. Phase(auction[c]) = "idle" /\ Phase(row) = "open"
      BY <2>1, <2>4 DEF Phase
    <2> QED
      BY <2>1, <2>2, <2>3, <2>4, <2>5, <2>6, OnlyPhases
  <1>2. ASSUME NEW c \in Cards, NEW row \in AuctionRow,
               auction' = [auction EXCEPT ![c] = row],
               auction[c].status = "LIVE", row.status \in {"CLOSED", "CANCELLED"},
               row.bidder = NoUser, auction[c].bidder = NoUser, row.bid = auction[c].bid,
               card' = [card EXCEPT ![c].status = "HELD"],
               balance' = balance, held' = held
        PROVE  Promise!Withdraw(c)
    <2>1. \A d \in Cards : card'[d].owner = card[d].owner
      BY <1>2 DEF CardRow
    <2>2. Phase(auction[c]) = "open" /\ Phase(row) = "over"
      BY <1>2 DEF Phase
    <2> QED
      BY <1>2, <2>1, <2>2, OnlyPhases
  <1>3. ASSUME NEW u \in Users, NEW c \in Cards, CancelAuction(u, c)
        PROVE  Promise!Withdraw(c)
    <2> DEFINE row == [auction[c] EXCEPT !.status = "CANCELLED"]
    <2>1. /\ row \in AuctionRow /\ row.status = "CANCELLED"
          /\ row.bidder = auction[c].bidder /\ row.bid = auction[c].bid
      BY DEF AuctionRow, AuctionStatus
    <2>2. auction' = [auction EXCEPT ![c] = row]
      BY <1>3 DEF CancelAuction
    <2> HIDE DEF row
    <2> QED
      BY <1>2, <1>3, <2>1, <2>2 DEF CancelAuction
  <1>4. ASSUME NEW c \in Cards, SettleUnsold(c)
        PROVE  Promise!Withdraw(c)
    <2> DEFINE row == [auction[c] EXCEPT !.status = "CLOSED"]
    <2>1. /\ row \in AuctionRow /\ row.status = "CLOSED"
          /\ row.bidder = auction[c].bidder /\ row.bid = auction[c].bid
      BY DEF AuctionRow, AuctionStatus
    <2>2. auction' = [auction EXCEPT ![c] = row]
      BY <1>4 DEF SettleUnsold
    <2> HIDE DEF row
    <2> QED
      BY <1>2, <1>4, <2>1, <2>2 DEF SettleUnsold, Due
  <1>5. ASSUME NEW u \in Users, NEW c \in Cards, NEW amount \in BidAmounts,
               PlaceBid(u, c, amount)
        PROVE  Promise!TakeLead(c, u)
    <2>1. /\ auction[c].status = "LIVE" /\ auction[c].seller # u
          /\ auction'[c].status = "LIVE"
          /\ auction'[c].bidder = u /\ auction'[c].bid = amount
          /\ \A d \in Cards \ {c} : auction'[d] = auction[d]
          /\ card' = card /\ AmountAcceptable(auction[c], amount)
      BY <1>5 DEF PlaceBid
    <2>2. amount \in Nat /\ auction[c].bid \in Nat
      BY ColumnTypes, AuctionAssumption
    <2>3. auction[c].bidder = NoUser \/ amount > auction[c].bid
      BY <2>1, <2>2, NextBidHigher DEF AmountAcceptable
    <2>4. u # card[c].owner
      BY <2>1 DEF CardFollowsAuction
    <2>5. \A w \in Users : balance'[w] + held'[w] = balance[w] + held[w]
      <3>1. ASSUME NEW w \in Users
            PROVE  balance'[w] + held'[w] = balance[w] + held[w]
        <4>1. HoldChange(w, u, auction[c], amount) \in Int
          BY <2>2, HoldChangeType
        <4>2. /\ balance'[w] = balance[w] - HoldChange(w, u, auction[c], amount)
              /\ held'[w] = held[w] + HoldChange(w, u, auction[c], amount)
          BY <1>5 DEF PlaceBid
        <4>3. balance[w] \in Int /\ held[w] \in Int
          OBVIOUS
        <4> QED
          BY <4>1, <4>2, <4>3
      <3> QED
        BY <3>1
    <2>6. \A d \in Cards : Phase(auction'[d]) = Phase(auction[d])
      <3>1. Phase(auction'[c]) = Phase(auction[c])
        BY <2>1 DEF Phase
      <3> QED
        BY <2>1, <3>1
    <2>7. /\ [d \in Cards |-> Phase(auction'[d])] = [d \in Cards |-> Phase(auction[d])]
          /\ [d \in Cards |-> card'[d].owner] = [d \in Cards |-> card[d].owner]
          /\ [w \in Users |-> balance'[w] + held'[w]] = [w \in Users |-> balance[w] + held[w]]
      BY <2>1, <2>5, <2>6, Zenon
    <2>8. Phase(auction[c]) = "open"
      BY <2>1 DEF Phase
    <2>9. /\ [d \in Cards |-> auction'[d].bidder]
               = [[d \in Cards |-> auction[d].bidder] EXCEPT ![c] = u]
          /\ [d \in Cards |-> auction'[d].bid]
               = [[d \in Cards |-> auction[d].bid] EXCEPT
                    ![c] = [d \in Cards |-> auction'[d].bid][c]]
      BY <2>1
    <2> QED
      BY <2>1, <2>2, <2>3, <2>4, <2>7, <2>8, <2>9 DEF Promise!TakeLead
  <1>6. ASSUME NEW c \in Cards, SettleSold(c)
        PROVE  Promise!Award(c)
    <2> DEFINE a == auction[c]
    <2>1. /\ a.status = "LIVE" /\ a.bidder \in Users /\ a.seller \in Users
          /\ a.bid \in Nat /\ a.bidder # a.seller /\ card[c].owner = a.seller
      <3>1. a.bidder # NoUser /\ a.seller # NoUser /\ a.status = "LIVE"
        BY <1>6 DEF SettleSold, Due, NullsAgree
      <3> QED
        BY <3>1, ColumnTypes DEF CardFollowsAuction
    <2>2. /\ auction'[c].status = "CLOSED" /\ auction'[c].bidder = a.bidder
          /\ auction'[c].bid = a.bid
          /\ \A d \in Cards \ {c} : auction'[d] = auction[d]
      BY <1>6 DEF SettleSold, AuctionRow
    <2>3. /\ card'[c].owner = a.bidder
          /\ \A d \in Cards \ {c} : card'[d] = card[d]
      BY <1>6 DEF SettleSold, CardAfterSale
    <2>4. SellerProceeds(a.bid) \in Int
      BY <2>1, FeeType
    <2>5. \A w \in Users :
            balance'[w] + held'[w]
              = IF w = a.bidder THEN (balance[w] + held[w]) - a.bid
                ELSE IF w = a.seller THEN (balance[w] + held[w]) + SellerProceeds(a.bid)
                ELSE balance[w] + held[w]
      <3>1. /\ held' = [held EXCEPT ![a.bidder] = @ + (-a.bid)]
            /\ balance' = [balance EXCEPT ![a.seller] = @ + SellerProceeds(a.bid)]
        BY <1>6 DEF SettleSold, Post
      <3> QED
        BY <2>1, <2>4, <3>1
    <2>6. [w \in Users |-> balance'[w] + held'[w]]
            = [[[w \in Users |-> balance[w] + held[w]] EXCEPT ![a.bidder] = @ - a.bid]
                 EXCEPT ![a.seller] = @ + SellerProceeds(a.bid)]
      BY <2>1, <2>4, <2>5
    <2>7. /\ Phase(a) = "open"
          /\ [d \in Cards |-> Phase(auction'[d])]
               = [[d \in Cards |-> Phase(auction[d])] EXCEPT ![c] = "over"]
      <3>1. Phase(a) = "open" /\ Phase(auction'[c]) = "over"
        BY <2>1, <2>2 DEF Phase
      <3> QED
        BY <2>2, <3>1
    <2>8. /\ [d \in Cards |-> card'[d].owner]
               = [[d \in Cards |-> card[d].owner] EXCEPT ![c] = a.bidder]
          /\ [d \in Cards |-> auction'[d].bidder] = [d \in Cards |-> auction[d].bidder]
          /\ [d \in Cards |-> auction'[d].bid] = [d \in Cards |-> auction[d].bid]
      BY <2>2, <2>3
    <2>9. a.bidder # NoUser
      BY <2>1, AccountsAssumption
    <2> QED
      BY <2>1, <2>6, <2>7, <2>8, <2>9 DEF Promise!Award
  <1>7. CASE Tick \/ UNCHANGED houseVars
    BY <1>7 DEF Tick, houseVars, accountVars, auctionVars, Promise!vars
  <1> QED
    BY <1>1, <1>3, <1>4, <1>5, <1>6, <1>7 DEF AuctionNext, Promise!Next

(* The auction transactions implement the auction as people see it: bidding *)
(* costs nobody anything, the last leader pays the price once, and nothing  *)
(* else moves a card or money.                                              *)
THEOREM AuctionsKeepTheirPromise == AuctionSpec => KeepsPromise
  <1>1. AuctionInit => Promise!Init
    BY AccountsAssumption
       DEF AuctionInit, AccountsInit, NoAuction, Phase, CardRow, Promise!Init
  <1>2. HouseInv /\ [AuctionNext]_houseVars => [Promise!Next]_(Promise!vars)
    BY PromiseStep
  <1> QED
    BY <1>1, <1>2, HouseInductive, PTL DEF AuctionSpec, KeepsPromise, Promise!Spec
=============================================================================
