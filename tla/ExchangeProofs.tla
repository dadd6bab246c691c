--------------------------- MODULE ExchangeProofs ---------------------------
(***************************************************************************)
(* Proofs about Exchange: what the auctions promise by themselves they     *)
(* keep while the same cards and users are on the market with fixed        *)
(* prices, and the other way round.                                        *)
(***************************************************************************)
EXTENDS Exchange, AuctionHouseProofs

(* Which columns of a listing and of a request in flight are NULL.          *)
RowsNamed ==
  /\ \A l \in Listings : listing[l].status = "ACTIVE" =>
       listing[l].card \in Cards /\ listing[l].seller \in Users
  /\ \A r \in Requests : request[r] # NoRequest =>
       request[r].card \in Cards /\ request[r].user \in Users

(* The half of ForSaleOnce that is about listings; the other half is in     *)
(* CardFollowsAuction.                                                      *)
ListedOnce ==
  \A c \in Cards :
    /\ card[c].status = "LISTED" <=> ActiveListings(c) # {}
    /\ \A l, m \in ActiveListings(c) : l = m

ExchangeInv ==
  /\ HouseInv /\ MarketTypeOK /\ RowsNamed /\ ListedOnce

----------------------------------------------------------------------------
(* Types *)

LEMMA ProceedsType ==
  ASSUME NEW ask \in Nat
  PROVE  TradeProceeds(ask) \in Int
  BY CeilCentsType DEF TradeProceeds, TradeFee, SellerCredit

LEMMA DepositKeepsInv ==
  ASSUME ExchangeInv, DepositStep
  PROVE  ExchangeInv'
  <1>1. PICK u \in Users, amount \in Deposits : AddFunds(u, amount)
    BY DEF DepositStep
  <1>2. amount \in Int
    BY AccountsAssumption
  <1>3. balance' \in [Users -> Int] /\ ledgerSum' \in [Users -> Int]
    BY <1>1, <1>2, PostType DEF AddFunds, ExchangeInv, HouseInv, AuctionTypeOK, AccountsTypeOK
  <1>4. UNCHANGED <<held, card, auctionVars, marketVars>>
    BY <1>1 DEF DepositStep, AddFunds
  <1>5. AuctionTypeOK'
    BY <1>3, <1>4 DEF ExchangeInv, HouseInv, AuctionTypeOK, AccountsTypeOK, auctionVars
  <1>6. NullsAgree' /\ CardFollowsAuction' /\ MarketTypeOK' /\ RowsNamed' /\ ListedOnce'
    BY <1>4 DEF ExchangeInv, HouseInv, NullsAgree, CardFollowsAuction, MarketTypeOK,
                RowsNamed, ListedOnce, ActiveListings, auctionVars, marketVars
  <1> QED
    BY <1>5, <1>6 DEF ExchangeInv, HouseInv

----------------------------------------------------------------------------
(* Steps of the auctions *)

(* An auction step puts a card that is held into auction, takes one out of  *)
(* it, or leaves the status of every card alone.                            *)
LEMMA AuctionMovesCards ==
  ASSUME HouseInv, AuctionNext, NEW d \in Cards
  PROVE  card'[d].status = "LISTED" <=> card[d].status = "LISTED"
  <1> USE DEF HouseInv, AuctionTypeOK, AccountsTypeOK, CardRow
  <1>1. ASSUME NEW u \in Users, NEW c \in Cards, NEW start \in StartingBids,
               NEW secs \in Durations, CreateAuction(u, c, start, secs)
        PROVE  card'[d].status = "LISTED" <=> card[d].status = "LISTED"
    BY <1>1 DEF CreateAuction
  <1>2. ASSUME NEW u \in Users, NEW c \in Cards, CancelAuction(u, c)
        PROVE  card'[d].status = "LISTED" <=> card[d].status = "LISTED"
    <2>1. card[c].status = "AUCTION"
      BY <1>2 DEF CancelAuction, CardFollowsAuction
    <2> QED BY <1>2, <2>1 DEF CancelAuction
  <1>3. ASSUME NEW c \in Cards, SettleUnsold(c) \/ SettleSold(c)
        PROVE  card'[d].status = "LISTED" <=> card[d].status = "LISTED"
    <2>1. card[c].status = "AUCTION"
      BY <1>3 DEF SettleUnsold, SettleSold, Due, CardFollowsAuction
    <2> QED BY <1>3, <2>1 DEF SettleUnsold, SettleSold, CardAfterSale
  <1>4. ASSUME NEW u \in Users, NEW c \in Cards, NEW amount \in BidAmounts,
               PlaceBid(u, c, amount)
        PROVE  card'[d].status = "LISTED" <=> card[d].status = "LISTED"
    BY <1>4 DEF PlaceBid
  <1>5. CASE Tick
    BY <1>5 DEF Tick, accountVars
  <1> QED
    BY <1>1, <1>2, <1>3, <1>4, <1>5 DEF AuctionNext

LEMMA AuctionKeepsInv ==
  ASSUME ExchangeInv, AuctionStep
  PROVE  ExchangeInv'
  <1>1. HouseInv'
    BY TypeStep, NullsStep, CardStep DEF AuctionStep, ExchangeInv, HouseInv
  <1>2. MarketTypeOK' /\ RowsNamed'
    BY DEF AuctionStep, ExchangeInv, MarketTypeOK, RowsNamed, marketVars
  <1>3. \A c : ActiveListings(c)' = ActiveListings(c)
    BY DEF AuctionStep, ActiveListings, marketVars
  <1>4. ListedOnce'
    BY <1>3, AuctionMovesCards DEF AuctionStep, ExchangeInv, ListedOnce
  <1> QED
    BY <1>1, <1>2, <1>4 DEF ExchangeInv

----------------------------------------------------------------------------
(* Steps of the market *)

(* A step of the market leaves auctions alone, and touches no card whose    *)
(* auction is live.                                                         *)
LEMMA CardsOffAuction ==
  ASSUME HouseInv, UNCHANGED auctionVars, AccountsTypeOK',
         \A c \in Cards : card'[c] # card[c] =>
           card[c].status # "AUCTION" /\ card'[c].status # "AUCTION"
  PROVE  HouseInv'
  <1>1. AuctionTypeOK' /\ NullsAgree'
    BY DEF HouseInv, AuctionTypeOK, NullsAgree, auctionVars
  <1>2. CardFollowsAuction'
    BY DEF HouseInv, CardFollowsAuction, auctionVars
  <1> QED
    BY <1>1, <1>2 DEF HouseInv

LEMMA CheckKeepsInv ==
  ASSUME ExchangeInv, UNCHANGED auctionVars, NEW r \in Requests, NEW u \in Users,
         NEW c \in Cards, NEW ask \in Asks, CheckListable(r, u, c, ask)
  PROVE  ExchangeInv'
  <1> DEFINE q == [user |-> u, card |-> c, ask |-> ask]
  <1>1. q \in RequestRow /\ q.card = c /\ q.user = u
    BY MarketAssumption DEF RequestRow
  <1>2. request' = [request EXCEPT ![r] = q] /\ UNCHANGED <<accountVars, listing>>
    BY DEF CheckListable
  <1> HIDE DEF q
  <1>3. MarketTypeOK' /\ RowsNamed'
    BY <1>1, <1>2 DEF ExchangeInv, MarketTypeOK, RowsNamed
  <1>4. HouseInv' /\ ListedOnce'
    BY <1>2 DEF ExchangeInv, HouseInv, AuctionTypeOK, AccountsTypeOK, NullsAgree,
                CardFollowsAuction, ListedOnce, ActiveListings, accountVars, auctionVars
  <1> QED
    BY <1>3, <1>4 DEF ExchangeInv

LEMMA RefuseKeepsInv ==
  ASSUME ExchangeInv, UNCHANGED auctionVars, NEW r \in Requests, RefuseListing(r)
  PROVE  ExchangeInv'
  <1>1. NoRequest \in RequestRow
    BY DEF NoRequest, RequestRow
  <1>2. request' = [request EXCEPT ![r] = NoRequest] /\ UNCHANGED <<accountVars, listing>>
    BY DEF RefuseListing
  <1>3. MarketTypeOK' /\ RowsNamed'
    BY <1>1, <1>2 DEF ExchangeInv, MarketTypeOK, RowsNamed
  <1>4. HouseInv' /\ ListedOnce'
    BY <1>2 DEF ExchangeInv, HouseInv, AuctionTypeOK, AccountsTypeOK, NullsAgree,
                CardFollowsAuction, ListedOnce, ActiveListings, accountVars, auctionVars
  <1> QED
    BY <1>3, <1>4 DEF ExchangeInv

(* The card that is listed was held, so no listing of it was active.        *)
LEMMA CommitListingKeepsInv ==
  ASSUME ExchangeInv, UNCHANGED auctionVars, NEW r \in Requests, NEW l \in Listings,
         CommitListing(r, l)
  PROVE  ExchangeInv'
  <1> DEFINE c == request[r].card
             row == [status |-> "ACTIVE", seller |-> request[r].user, card |-> c,
                     ask |-> request[r].ask, buyer |-> NoUser]
  <1>1. /\ c \in Cards /\ request[r].user \in Users /\ request[r] \in RequestRow
        /\ card \in [Cards -> CardRow] /\ card[c].status = "HELD"
        /\ listing[l].status = "NONE" /\ listing \in [Listings -> ListingRow]
    BY DEF CommitListing, StillHeld, ExchangeInv, RowsNamed, MarketTypeOK, HouseInv,
           AuctionTypeOK, AccountsTypeOK
  <1>2. /\ card' = [card EXCEPT ![c].status = "LISTED"]
        /\ listing' = [listing EXCEPT ![l] = row]
        /\ request' = [request EXCEPT ![r] = NoRequest]
        /\ UNCHANGED <<balance, held, ledgerSum>>
    BY DEF CommitListing
  <1>3. /\ row \in ListingRow /\ row.status = "ACTIVE" /\ row.card = c
        /\ row.seller \in Users
    BY <1>1 DEF ListingRow, ListingStatus, RequestRow
  <1> HIDE DEF row, c
  <1>4. /\ card' \in [Cards -> CardRow] /\ card'[c].status = "LISTED"
        /\ \A d \in Cards \ {c} : card'[d] = card[d]
    BY <1>1, <1>2 DEF CardRow, CardStatus
  <1>5. HouseInv'
    <2>1. AccountsTypeOK'
      BY <1>2, <1>4 DEF ExchangeInv, HouseInv, AuctionTypeOK, AccountsTypeOK
    <2> QED
      BY <1>1, <1>4, <2>1, CardsOffAuction DEF ExchangeInv
  <1>6. NoRequest \in RequestRow
    BY DEF NoRequest, RequestRow
  <1>7. MarketTypeOK' /\ RowsNamed'
    BY <1>1, <1>2, <1>3, <1>6 DEF ExchangeInv, MarketTypeOK, RowsNamed
  <1>8. \A d \in Cards : ActiveListings(d)' = IF d = c THEN {l} ELSE ActiveListings(d)
    <2>1. ActiveListings(c) = {}
      BY <1>1 DEF ExchangeInv, ListedOnce
    <2>2. listing'[l] = row /\ \A m \in Listings \ {l} : listing'[m] = listing[m]
      BY <1>1, <1>2
    <2> QED
      BY <1>1, <1>3, <2>1, <2>2 DEF ActiveListings
  <1>9. ListedOnce'
    BY <1>4, <1>8 DEF ExchangeInv, ListedOnce
  <1> QED
    BY <1>5, <1>7, <1>9 DEF ExchangeInv

(* A listing that ends was the only active one of its card.                 *)
LEMMA ListingEnds ==
  ASSUME ExchangeInv, NEW l \in Listings, Offered(l), NEW row \in ListingRow,
         row.status \in {"SOLD", "CANCELLED"}, row.card = listing[l].card,
         listing' = [listing EXCEPT ![l] = row], UNCHANGED request,
         card' \in [Cards -> CardRow], card'[listing[l].card].status = "HELD",
         \A d \in Cards \ {listing[l].card} : card'[d] = card[d]
  PROVE  MarketTypeOK' /\ RowsNamed' /\ ListedOnce'
  <1> DEFINE c == listing[l].card
  <1>1. /\ listing \in [Listings -> ListingRow] /\ c \in Cards
        /\ l \in ActiveListings(c) /\ listing[l].status = "ACTIVE"
    BY DEF ExchangeInv, MarketTypeOK, RowsNamed, Offered, ActiveListings
  <1>2. listing'[l] = row /\ \A m \in Listings \ {l} : listing'[m] = listing[m]
    BY <1>1
  <1>3. MarketTypeOK'
    BY <1>1 DEF ExchangeInv, MarketTypeOK
  <1>4. RowsNamed'
    BY <1>2 DEF ExchangeInv, RowsNamed
  <1>5. ActiveListings(c) = {l}
    BY <1>1 DEF ExchangeInv, ListedOnce
  <1>6. ActiveListings(c)' = {}
    BY <1>2, <1>5 DEF ActiveListings
  <1>7. \A d \in Cards \ {c} : ActiveListings(d)' = ActiveListings(d)
    BY <1>2 DEF ActiveListings
  <1>8. ListedOnce'
    BY <1>6, <1>7 DEF ExchangeInv, ListedOnce
  <1> QED
    BY <1>3, <1>4, <1>8

LEMMA BuyKeepsInv ==
  ASSUME ExchangeInv, UNCHANGED auctionVars, NEW u \in Users, NEW l \in Listings,
         BuyListing(u, l)
  PROVE  ExchangeInv'
  <1> DEFINE c == listing[l].card
             row == [listing[l] EXCEPT !.status = "SOLD", !.buyer = u]
             sold == [owner |-> u, status |-> "HELD"]
  <1>1. /\ listing[l] \in ListingRow /\ listing[l].status = "ACTIVE"
        /\ c \in Cards /\ listing[l].seller \in Users /\ listing[l].ask \in Nat
        /\ card \in [Cards -> CardRow]
    BY DEF BuyListing, Offered, ExchangeInv, RowsNamed, MarketTypeOK, ListingRow, HouseInv,
           AuctionTypeOK, AccountsTypeOK
  <1>2. /\ listing' = [listing EXCEPT ![l] = row] /\ card' = [card EXCEPT ![c] = sold]
        /\ UNCHANGED <<held, request>> /\ Offered(l)
    BY DEF BuyListing
  <1>3. row \in ListingRow /\ row.status = "SOLD" /\ row.card = c
    BY <1>1 DEF ListingRow, ListingStatus
  <1>4. sold \in CardRow /\ sold.status = "HELD"
    BY DEF CardRow, CardStatus
  <1>5. balance' \in [Users -> Int] /\ ledgerSum' \in [Users -> Int]
    <2>1. -listing[l].ask \in Int /\ TradeProceeds(listing[l].ask) \in Int
      BY <1>1, ProceedsType
    <2>2. balance \in [Users -> Int] /\ ledgerSum \in [Users -> Int]
      BY DEF ExchangeInv, HouseInv, AuctionTypeOK, AccountsTypeOK
    <2>3. /\ Post(balance, u, -listing[l].ask) \in [Users -> Int]
          /\ Post(ledgerSum, u, -listing[l].ask) \in [Users -> Int]
      BY <2>1, <2>2, PostType
    <2> QED
      BY <1>1, <2>1, <2>3, PostType DEF BuyListing
  <1>6. card[c].status = "LISTED"
    BY <1>1 DEF ExchangeInv, ListedOnce, ActiveListings
  <1> HIDE DEF row, sold
  <1>7. /\ card' \in [Cards -> CardRow] /\ card'[c].status = "HELD"
        /\ \A d \in Cards \ {c} : card'[d] = card[d]
    BY <1>1, <1>2, <1>4
  <1>8. HouseInv'
    <2>1. AccountsTypeOK'
      BY <1>2, <1>5, <1>7 DEF ExchangeInv, HouseInv, AuctionTypeOK, AccountsTypeOK
    <2> QED
      BY <1>6, <1>7, <2>1, CardsOffAuction DEF ExchangeInv
  <1>9. MarketTypeOK' /\ RowsNamed' /\ ListedOnce'
    BY <1>2, <1>3, <1>7, ListingEnds
  <1> QED
    BY <1>8, <1>9 DEF ExchangeInv

LEMMA CancelListingKeepsInv ==
  ASSUME ExchangeInv, UNCHANGED auctionVars, NEW u \in Users, NEW l \in Listings,
         CancelListing(u, l)
  PROVE  ExchangeInv'
  <1> DEFINE c == listing[l].card
             row == [listing[l] EXCEPT !.status = "CANCELLED"]
  <1>1. /\ listing[l] \in ListingRow /\ listing[l].status = "ACTIVE" /\ c \in Cards
        /\ card \in [Cards -> CardRow]
    BY DEF CancelListing, Offered, ExchangeInv, RowsNamed, MarketTypeOK, HouseInv,
           AuctionTypeOK, AccountsTypeOK
  <1>2. /\ listing' = [listing EXCEPT ![l] = row]
        /\ card' = [card EXCEPT ![c].status = "HELD"]
        /\ UNCHANGED <<balance, held, ledgerSum, request>> /\ Offered(l)
    BY DEF CancelListing
  <1>3. row \in ListingRow /\ row.status = "CANCELLED" /\ row.card = c
    BY <1>1 DEF ListingRow, ListingStatus
  <1>4. card[c].status = "LISTED"
    BY <1>1 DEF ExchangeInv, ListedOnce, ActiveListings
  <1> HIDE DEF row
  <1>5. /\ card' \in [Cards -> CardRow] /\ card'[c].status = "HELD"
        /\ \A d \in Cards \ {c} : card'[d] = card[d]
    BY <1>1, <1>2 DEF CardRow, CardStatus
  <1>6. HouseInv'
    <2>1. AccountsTypeOK'
      BY <1>2, <1>5 DEF ExchangeInv, HouseInv, AuctionTypeOK, AccountsTypeOK
    <2> QED
      BY <1>4, <1>5, <2>1, CardsOffAuction DEF ExchangeInv
  <1>7. MarketTypeOK' /\ RowsNamed' /\ ListedOnce'
    BY <1>2, <1>3, <1>5, ListingEnds
  <1> QED
    BY <1>6, <1>7 DEF ExchangeInv

----------------------------------------------------------------------------
(* The invariant *)

LEMMA MarketKeepsInv ==
  ASSUME ExchangeInv, MarketStep
  PROVE  ExchangeInv'
  BY CheckKeepsInv, RefuseKeepsInv, CommitListingKeepsInv, BuyKeepsInv,
     CancelListingKeepsInv DEF MarketStep, MarketNext

LEMMA ExchangeInitHolds == Init => ExchangeInv
  <1> SUFFICES ASSUME Init PROVE ExchangeInv
    OBVIOUS
  <1>1. HouseInv
    <2>1. NoAuction \in AuctionRow
      BY DEF NoAuction, AuctionRow, AuctionStatus
    <2>2. AuctionTypeOK
      BY <2>1, AccountsAssumption
         DEF Init, AuctionInit, AccountsInit, AuctionTypeOK, AccountsTypeOK, CardRow, CardStatus
    <2>3. NullsAgree /\ CardFollowsAuction
      BY DEF Init, AuctionInit, AccountsInit, NullsAgree, CardFollowsAuction, NoAuction
    <2> QED
      BY <2>2, <2>3 DEF HouseInv
  <1>2. NoListing \in ListingRow /\ NoListing.status = "NONE" /\ NoRequest \in RequestRow
    BY DEF NoListing, ListingRow, ListingStatus, NoRequest, RequestRow
  <1>3. MarketTypeOK /\ RowsNamed
    BY <1>2 DEF Init, MarketInit, MarketTypeOK, RowsNamed
  <1>4. ListedOnce
    <2>1. \A c \in Cards : ActiveListings(c) = {} /\ card[c].status = "HELD"
      BY <1>2 DEF Init, MarketInit, AuctionInit, AccountsInit, ActiveListings
    <2> QED
      BY <2>1 DEF ListedOnce
  <1> QED
    BY <1>1, <1>3, <1>4 DEF ExchangeInv

LEMMA StutterKeepsExchangeInv == ExchangeInv /\ UNCHANGED vars => ExchangeInv'
  BY DEF ExchangeInv, HouseInv, AuctionTypeOK, AccountsTypeOK, NullsAgree, CardFollowsAuction,
         MarketTypeOK, RowsNamed, ListedOnce, ActiveListings, vars, accountVars, auctionVars,
         marketVars

LEMMA ExchangeInvHolds == Spec => []ExchangeInv
  <1>1. ExchangeInv /\ [Next]_vars => ExchangeInv'
    BY AuctionKeepsInv, MarketKeepsInv, DepositKeepsInv, StutterKeepsExchangeInv DEF Next
  <1> QED
    BY <1>1, ExchangeInitHolds, PTL DEF Spec

----------------------------------------------------------------------------
(* Theorems *)

(* A card is LISTED exactly while one active listing offers it, in AUCTION  *)
(* exactly while its auction is live: never for sale twice, however the     *)
(* requests of both markets interleave.                                     *)
THEOREM CardsForSaleOnce == Spec => []ForSaleOnce
  <1>1. ExchangeInv => ForSaleOnce
    BY DEF ExchangeInv, HouseInv, CardFollowsAuction, ListedOnce, ForSaleOnce
  <1> QED
    BY <1>1, ExchangeInvHolds, PTL

(* The market does not disturb what ties a card to its auction.             *)
THEOREM AuctionedCardsStay == Spec => []CardFollowsAuction
  <1>1. ExchangeInv => CardFollowsAuction
    BY DEF ExchangeInv, HouseInv
  <1> QED
    BY <1>1, ExchangeInvHolds, PTL

(* Nor does it move holds.                                                  *)
THEOREM HoldsFollowLeadsOnTheExchange == Spec => HoldsMoveWithTheLead
  <1>1. ExchangeInv /\ [Next]_vars => [HoldsMove]_houseVars
    <2> SUFFICES ASSUME ExchangeInv, Next PROVE [HoldsMove]_houseVars
      BY DEF vars, houseVars
    <2>1. CASE AuctionStep
      BY <2>1, HoldsStep DEF AuctionStep, ExchangeInv
    <2>2. ASSUME held' = held, UNCHANGED auctionVars
          PROVE  HoldsMove
      BY <2>2 DEF HoldsMove, auctionVars
    <2>3. CASE MarketStep
      <3>1. held' = held
        BY <2>3 DEF MarketStep, MarketNext, CheckListable, CommitListing, RefuseListing,
                    BuyListing, CancelListing, accountVars
      <3> QED
        BY <2>2, <2>3, <3>1 DEF MarketStep
    <2>4. CASE DepositStep
      BY <2>2, <2>4 DEF DepositStep, AddFunds
    <2> QED
      BY <2>1, <2>3, <2>4 DEF Next
  <1> QED
    BY <1>1, ExchangeInvHolds, PTL DEF Spec, HoldsMoveWithTheLead

----------------------------------------------------------------------------
(* What a card costs *)

PaysFor ==
  \A c \in Cards : LET w == card'[c].owner IN
    w # card[c].owner =>
      \/ /\ auction[c].status = "LIVE" /\ auction'[c].winner = w
         /\ (balance'[w] + held'[w]) - (balance[w] + held[w]) = -auction[c].bid
      \/ \E l \in Listings :
           /\ listing[l].status = "ACTIVE" /\ listing'[l].status = "SOLD"
           /\ listing[l].card = c /\ listing'[l].buyer = w
           /\ (balance'[w] + held'[w]) - (balance[w] + held[w]) = -listing[l].ask

(* A winner pays from the hold; the credit goes to somebody else.           *)
LEMMA WinnerPays ==
  ASSUME HouseInv, NEW c \in Cards, SettleSold(c)
  PROVE  PaysFor
  <1> DEFINE a == auction[c]
  <1>1. /\ a.status = "LIVE" /\ a.bidder \in Users /\ a.seller \in Users /\ a.bid \in Nat
        /\ a.bidder # a.seller
    <2>1. a.bidder # NoUser /\ a.status = "LIVE" /\ a.seller # NoUser
      BY DEF SettleSold, Due, HouseInv, NullsAgree
    <2> QED
      BY <2>1, ColumnTypes DEF HouseInv, CardFollowsAuction
  <1>2. /\ balance \in [Users -> Int] /\ held \in [Users -> Int]
        /\ card \in [Cards -> CardRow] /\ auction \in [Cards -> AuctionRow]
    BY DEF HouseInv, AuctionTypeOK, AccountsTypeOK
  <1>3. balance'[a.bidder] = balance[a.bidder]
    BY <1>1, <1>2 DEF SettleSold, Post
  <1>4. held'[a.bidder] = held[a.bidder] - a.bid
    BY <1>1, <1>2 DEF SettleSold, Post
  <1>5. auction'[c].winner = a.bidder
    BY <1>2 DEF SettleSold, AuctionRow
  <1>6. card'[c].owner = a.bidder /\ \A d \in Cards \ {c} : card'[d] = card[d]
    BY <1>2 DEF SettleSold, CardAfterSale
  <1>7. balance[a.bidder] \in Int /\ held[a.bidder] \in Int
    BY <1>1, <1>2
  <1>8. (balance'[a.bidder] + held'[a.bidder]) - (balance[a.bidder] + held[a.bidder]) = -a.bid
    BY <1>1, <1>3, <1>4, <1>7
  <1> QED
    BY <1>1, <1>5, <1>6, <1>8 DEF PaysFor

LEMMA BuyerPays ==
  ASSUME ExchangeInv, NEW u \in Users, NEW l \in Listings, BuyListing(u, l)
  PROVE  PaysFor
  <1> DEFINE x == listing[l]
  <1>1. /\ x.status = "ACTIVE" /\ x.card \in Cards /\ x.seller \in Users /\ x.ask \in Nat
        /\ x.seller # u /\ x \in ListingRow
    BY DEF BuyListing, Offered, ExchangeInv, MarketTypeOK, ListingRow, RowsNamed
  <1>2. /\ balance \in [Users -> Int] /\ held \in [Users -> Int] /\ card \in [Cards -> CardRow]
        /\ listing \in [Listings -> ListingRow]
    BY DEF ExchangeInv, HouseInv, AuctionTypeOK, AccountsTypeOK, MarketTypeOK
  <1>3. balance'[u] = balance[u] - x.ask
    <2> DEFINE price == -x.ask
    <2>0. price \in Int
      BY <1>1
    <2> HIDE DEF price
    <2>1. Post(balance, u, price) \in [Users -> Int]
      BY <1>2, <2>0, PostType
    <2> USE DEF price
    <2>2. Post(balance, u, -x.ask)[u] = balance[u] - x.ask
      BY <1>1, <1>2 DEF Post
    <2> QED
      BY <1>1, <2>1, <2>2 DEF BuyListing, Post
  <1>4. held' = held
    BY DEF BuyListing
  <1>5. card'[x.card].owner = u /\ \A d \in Cards \ {x.card} : card'[d] = card[d]
    BY <1>1, <1>2 DEF BuyListing
  <1>6. listing'[l].status = "SOLD" /\ listing'[l].buyer = u
    <2> DEFINE row == [listing[l] EXCEPT !.status = "SOLD", !.buyer = u]
    <2>1. row.status = "SOLD" /\ row.buyer = u
      BY <1>1 DEF ListingRow
    <2>2. listing' = [listing EXCEPT ![l] = row]
      BY DEF BuyListing
    <2> HIDE DEF row
    <2> QED BY <1>2, <2>1, <2>2
  <1>7. balance[u] \in Int /\ held[u] \in Int
    BY <1>2
  <1>8. (balance'[u] + held'[u]) - (balance[u] + held[u]) = -x.ask
    BY <1>1, <1>3, <1>4, <1>7
  <1> QED
    BY <1>1, <1>5, <1>6, <1>8 DEF PaysFor

(* Whoever comes to own a card pays its price in the same transaction.      *)
THEOREM CardsArePaidFor == Spec => NoFreeTransfer
  <1>1. ExchangeInv /\ [Next]_vars => [PaysFor]_vars
    <2> SUFFICES ASSUME ExchangeInv, Next PROVE PaysFor
      OBVIOUS
    <2>1. /\ HouseInv /\ card \in [Cards -> CardRow] /\ listing \in [Listings -> ListingRow]
      BY DEF ExchangeInv, HouseInv, AuctionTypeOK, AccountsTypeOK, MarketTypeOK
    <2>2. ASSUME \A c \in Cards : card'[c].owner = card[c].owner
          PROVE  PaysFor
      BY <2>2 DEF PaysFor
    <2>3. CASE AuctionStep
      <3>1. ASSUME NEW c \in Cards, NEW status, card' = [card EXCEPT ![c].status = status]
            PROVE  PaysFor
        BY <2>1, <2>2, <3>1 DEF CardRow
      <3>2. ASSUME card' = card PROVE PaysFor
        BY <2>2, <3>2
      <3>3. ASSUME NEW u \in Users, NEW c \in Cards, NEW start \in StartingBids,
                   NEW secs \in Durations, CreateAuction(u, c, start, secs)
            PROVE  PaysFor
        BY <3>1, <3>3 DEF CreateAuction
      <3>4. ASSUME NEW u \in Users, NEW c \in Cards, CancelAuction(u, c) PROVE PaysFor
        BY <3>1, <3>4 DEF CancelAuction
      <3>5. ASSUME NEW c \in Cards, SettleUnsold(c) PROVE PaysFor
        BY <3>1, <3>5 DEF SettleUnsold
      <3>6. ASSUME NEW u \in Users, NEW c \in Cards, NEW amount \in BidAmounts,
                   PlaceBid(u, c, amount)
            PROVE  PaysFor
        BY <3>2, <3>6 DEF PlaceBid
      <3>7. CASE Tick
        BY <3>2, <3>7 DEF Tick, accountVars
      <3> QED
        BY <2>1, <2>3, <3>3, <3>4, <3>5, <3>6, <3>7, WinnerPays DEF AuctionStep, AuctionNext
    <2>4. CASE MarketStep
      <3>1. ASSUME NEW r \in Requests, NEW l \in Listings, CommitListing(r, l) PROVE PaysFor
        BY <2>1, <2>2, <3>1 DEF CommitListing, CardRow
      <3>2. ASSUME NEW u \in Users, NEW l \in Listings, CancelListing(u, l) PROVE PaysFor
        BY <2>1, <2>2, <3>2 DEF CancelListing, CardRow
      <3>3. ASSUME card' = card PROVE PaysFor
        BY <2>2, <3>3
      <3> QED
        BY <2>4, <3>1, <3>2, <3>3, BuyerPays
           DEF MarketStep, MarketNext, CheckListable, RefuseListing, accountVars
    <2>5. CASE DepositStep
      BY <2>2, <2>5 DEF DepositStep, AddFunds
    <2> QED
      BY <2>3, <2>4, <2>5 DEF Next
  <1> QED
    BY <1>1, ExchangeInvHolds, PTL DEF Spec, NoFreeTransfer, PaysFor

----------------------------------------------------------------------------
(* Sums of money *)

(* Only an auction step touches a hold or an auction row. *)
LEMMA MarketLeavesHolds ==
  ASSUME MarketStep \/ DepositStep \/ UNCHANGED vars
  PROVE  UNCHANGED <<held, auction>>
  BY DEF MarketStep, MarketNext, CheckListable, CommitListing, RefuseListing, BuyListing,
         CancelListing, DepositStep, AddFunds, vars, accountVars, auctionVars

(* balance_held is the sum of the bids its user leads, whatever the user    *)
(* buys, sells and deposits meanwhile.                                      *)
THEOREM HoldsAddUpOnTheExchange == Spec => []HeldIsTheLeads
  <1>1. Init => HeldIsTheLeads
    BY HeldInit DEF Init
  <1>2. ExchangeInv /\ ExchangeInv' /\ HeldIsTheLeads /\ [Next]_vars => HeldIsTheLeads'
    <2> SUFFICES ASSUME ExchangeInv, ExchangeInv', HeldIsTheLeads, [Next]_vars
                 PROVE  HeldIsTheLeads'
      OBVIOUS
    <2>1. CASE AuctionStep
      <3>1. [AuctionNext]_houseVars
        BY <2>1 DEF AuctionStep
      <3> QED
        BY <3>1, HoldsStep, HeldStep DEF ExchangeInv
    <2>2. CASE MarketStep \/ DepositStep \/ UNCHANGED vars
      BY <2>2, MarketLeavesHolds DEF HeldIsTheLeads, Lead
    <2> QED
      BY <2>1, <2>2 DEF Next
  <1> QED
    BY <1>1, <1>2, ExchangeInvHolds, PTL DEF Spec

(* A sale at a fixed price and a deposit write what they move. *)
LEMMA MarketLeavesGaps ==
  ASSUME ExchangeInv, MarketStep \/ DepositStep \/ UNCHANGED vars
  PROVE  GapsMove
  <1>0. /\ balance \in [Users -> Int] /\ ledgerSum \in [Users -> Int]
        /\ \A u \in Users : balance[u] \in Int /\ ledgerSum[u] \in Int
    BY DEF ExchangeInv, HouseInv, AuctionTypeOK, AccountsTypeOK
  <1>1. auction' = auction
    BY MarketLeavesHolds
  <1>a. ASSUME balance' = balance, ledgerSum' = ledgerSum
        PROVE  GapsMove
    BY <1>1, <1>a DEF GapsMove, Gap
  <1>2. ASSUME NEW u \in Users, NEW l \in Listings, BuyListing(u, l)
        PROVE  GapsMove
    <2> DEFINE ask == listing[l].ask
               seller == listing[l].seller
    <2>1. seller # u /\ seller \in Users /\ ask \in Nat
      BY <1>2 DEF BuyListing, Offered, ExchangeInv, RowsNamed, MarketTypeOK, ListingRow
    <2>2. TradeProceeds(ask) \in Int
      BY <2>1, ProceedsType
    <2>3. /\ balance' = [[balance EXCEPT ![u] = @ + (-ask)]
                            EXCEPT ![seller] = @ + TradeProceeds(ask)]
          /\ ledgerSum' = [[ledgerSum EXCEPT ![u] = @ + (-ask)]
                              EXCEPT ![seller] = @ + TradeProceeds(ask)]
      BY <1>2 DEF BuyListing, Post
    <2> HIDE DEF ask, seller
    <2>4. \A w \in Users :
            /\ balance'[w] = IF w = seller THEN balance[w] + TradeProceeds(ask)
                             ELSE IF w = u THEN balance[w] + (-ask) ELSE balance[w]
            /\ ledgerSum'[w] = IF w = seller THEN ledgerSum[w] + TradeProceeds(ask)
                               ELSE IF w = u THEN ledgerSum[w] + (-ask) ELSE ledgerSum[w]
      BY <1>0, <2>1, <2>3
    <2>5. \A w \in Users : \E z \in Int :
            balance'[w] = balance[w] + z /\ ledgerSum'[w] = ledgerSum[w] + z
      <3> TAKE w \in Users
      <3>1. CASE w = seller
        BY <2>2, <2>4, <3>1
      <3>2. CASE w # seller /\ w = u
        BY <2>1, <2>4, <3>2
      <3>3. CASE w # seller /\ w # u
        BY <1>0, <2>4, <3>3
      <3> QED
        BY <3>1, <3>2, <3>3
    <2>6. \A w \in Users : Gap(w)' = Gap(w)
      <3>1. \A x, y, z \in Int : (x + z) - (y + z) = x - y
        OBVIOUS
      <3> QED
        BY <1>0, <2>5, <3>1 DEF Gap
    <2> QED
      BY <1>1, <2>6 DEF GapsMove
  <1>3. ASSUME NEW u \in Users, NEW amount \in Deposits, AddFunds(u, amount)
        PROVE  GapsMove
    <2>1. amount \in Int
      BY AccountsAssumption
    <2>2. /\ balance' = [balance EXCEPT ![u] = @ + amount]
          /\ ledgerSum' = [ledgerSum EXCEPT ![u] = @ + amount]
      BY <1>3 DEF AddFunds, Post
    <2>3. \A w \in Users :
            /\ balance'[w] = IF w = u THEN balance[w] + amount ELSE balance[w]
            /\ ledgerSum'[w] = IF w = u THEN ledgerSum[w] + amount ELSE ledgerSum[w]
      BY <1>0, <2>2
    <2>4. \A x, y, z \in Int : (x + z) - (y + z) = x - y
      OBVIOUS
    <2>5. \A w \in Users : Gap(w)' = Gap(w)
      BY <1>0, <2>1, <2>3, <2>4 DEF Gap
    <2> QED
      BY <1>1, <2>5 DEF GapsMove
  <1>4. CASE MarketStep
    <2>1. MarketNext
      BY <1>4 DEF MarketStep
    <2>2. ASSUME NEW r \in Requests, NEW u \in Users, NEW c \in Cards, NEW ask \in Asks,
                 CheckListable(r, u, c, ask)
          PROVE  GapsMove
      BY <1>a, <2>2 DEF CheckListable, accountVars
    <2>3. ASSUME NEW r \in Requests, NEW l \in Listings, CommitListing(r, l)
          PROVE  GapsMove
      BY <1>a, <2>3 DEF CommitListing
    <2>4. ASSUME NEW r \in Requests, RefuseListing(r)
          PROVE  GapsMove
      BY <1>a, <2>4 DEF RefuseListing, accountVars
    <2>5. ASSUME NEW u \in Users, NEW l \in Listings, CancelListing(u, l)
          PROVE  GapsMove
      BY <1>a, <2>5 DEF CancelListing
    <2> QED
      BY <1>2, <2>1, <2>2, <2>3, <2>4, <2>5 DEF MarketNext
  <1>5. CASE DepositStep
    BY <1>3, <1>5 DEF DepositStep
  <1>6. CASE UNCHANGED vars
    BY <1>a, <1>6 DEF vars, accountVars
  <1> QED
    BY <1>4, <1>5, <1>6

(* On both markets, with deposits: who has won no auction has a balance     *)
(* that is the sum of the ledger.                                           *)
THEOREM LedgersExplainTheRestOnTheExchange == Spec => []LedgerExplainsTheRest
  <1>1. Init => GapIsTheWins
    BY LedgerInit DEF Init
  <1>2. ExchangeInv /\ ExchangeInv' /\ GapIsTheWins /\ [Next]_vars => GapIsTheWins'
    <2> SUFFICES ASSUME ExchangeInv, ExchangeInv', GapIsTheWins, [Next]_vars
                 PROVE  GapIsTheWins'
      OBVIOUS
    <2>1. GapsMove
      <3>1. CASE AuctionStep
        BY <3>1, GapStep DEF AuctionStep, ExchangeInv
      <3> QED
        BY <3>1, MarketLeavesGaps DEF Next
    <2> QED
      BY <2>1, LedgerStep DEF ExchangeInv
  <1>3. ExchangeInv /\ GapIsTheWins => LedgerExplainsTheRest
    BY GapExplained DEF ExchangeInv
  <1> QED
    BY <1>1, <1>2, <1>3, ExchangeInvHolds, PTL DEF Spec

----------------------------------------------------------------------------
(* Overdrafts *)

(* Every price on the market was asked in a create request. *)
AsksKnown ==
  /\ \A l \in Listings : listing[l].status = "ACTIVE" => listing[l].ask \in Asks
  /\ \A r \in Requests : request[r] # NoRequest => request[r].ask \in Asks

LEMMA AsksStep ==
  ASSUME ExchangeInv, AsksKnown, [Next]_vars
  PROVE  AsksKnown'
  <1> USE DEF AsksKnown, ExchangeInv, MarketTypeOK
  <1>1. ASSUME NEW r \in Requests, NEW u \in Users, NEW c \in Cards, NEW ask \in Asks,
               CheckListable(r, u, c, ask)
        PROVE  AsksKnown'
    BY <1>1 DEF CheckListable
  <1>2. ASSUME NEW r \in Requests, NEW l \in Listings, CommitListing(r, l)
        PROVE  AsksKnown'
    BY <1>2 DEF CommitListing
  <1>3. ASSUME NEW r \in Requests, RefuseListing(r)
        PROVE  AsksKnown'
    BY <1>3 DEF RefuseListing
  <1>4. ASSUME NEW u \in Users, NEW l \in Listings, BuyListing(u, l)
        PROVE  AsksKnown'
    <2> DEFINE row == [listing[l] EXCEPT !.status = "SOLD", !.buyer = u]
    <2>1. listing' = [listing EXCEPT ![l] = row] /\ request' = request
      BY <1>4 DEF BuyListing
    <2>2. row.status = "SOLD"
      BY DEF ListingRow
    <2> HIDE DEF row
    <2> QED
      BY <2>1, <2>2
  <1>5. ASSUME NEW u \in Users, NEW l \in Listings, CancelListing(u, l)
        PROVE  AsksKnown'
    <2> DEFINE row == [listing[l] EXCEPT !.status = "CANCELLED"]
    <2>1. listing' = [listing EXCEPT ![l] = row] /\ request' = request
      BY <1>5 DEF CancelListing
    <2>2. row.status = "CANCELLED"
      BY DEF ListingRow
    <2> HIDE DEF row
    <2> QED
      BY <2>1, <2>2
  <1>6. CASE UNCHANGED marketVars
    BY <1>6 DEF marketVars
  <1> QED
    BY <1>1, <1>2, <1>3, <1>4, <1>5, <1>6
       DEF Next, AuctionStep, MarketStep, MarketNext, DepositStep, vars

LEMMA SpendingStep ==
  ASSUME ExchangeInv, AsksKnown, NobodyOverspends, [Next]_vars
  PROVE  NobodyOverspends'
  <1> SUFFICES ASSUME TradeFeesCovered, NoOverdraft
               PROVE  NoOverdraft'
    BY DEF NobodyOverspends, TradeFeesCovered
  <1>1. CASE AuctionStep
    BY <1>1, OverdraftStep DEF AuctionStep, ExchangeInv
  <1>2. CASE ~AuctionStep
    <2> SUFFICES ASSUME FeesCovered, \A w \in Users : balance[w] >= 0,
                        NEW w \in Users
                 PROVE  balance'[w] >= 0
      BY DEF NoOverdraft, FeesCovered
    <2>0. balance \in [Users -> Int] /\ balance[w] \in Int
      BY DEF ExchangeInv, HouseInv, AuctionTypeOK, AccountsTypeOK
    <2>1. ASSUME NEW u \in Users, NEW l \in Listings, BuyListing(u, l)
          PROVE  balance'[w] >= 0
      <3> DEFINE ask == listing[l].ask
                 seller == listing[l].seller
      <3>1. /\ seller # u /\ seller \in Users /\ ask \in Nat /\ ask \in Asks
            /\ balance[u] >= ask
        BY <2>1 DEF BuyListing, Affords, Offered, ExchangeInv, RowsNamed, MarketTypeOK,
                    ListingRow, AsksKnown
      <3>2. TradeProceeds(ask) >= 0 /\ TradeProceeds(ask) \in Int
        <4>1. 2 * TradeFee(ask) <= ask
          BY <3>1 DEF TradeFeesCovered
        <4>2. TradeFee(ask) \in Int
          BY <3>1, CeilCentsType DEF TradeFee
        <4> QED
          BY <3>1, <4>1, <4>2 DEF TradeProceeds, SellerCredit
      <3>3. balance' = [[balance EXCEPT ![u] = @ + (-ask)]
                           EXCEPT ![seller] = @ + TradeProceeds(ask)]
        BY <2>1 DEF BuyListing, Post
      <3> HIDE DEF ask, seller
      <3>4. balance'[w] = IF w = seller THEN balance[w] + TradeProceeds(ask)
                          ELSE IF w = u THEN balance[w] + (-ask) ELSE balance[w]
        BY <2>0, <3>1, <3>3
      <3> QED
        BY <2>0, <3>1, <3>2, <3>4
    <2>2. ASSUME NEW u \in Users, NEW amount \in Deposits, AddFunds(u, amount)
          PROVE  balance'[w] >= 0
      <3>1. amount \in Nat
        BY AccountsAssumption
      <3>2. balance' = [balance EXCEPT ![u] = @ + amount]
        BY <2>2 DEF AddFunds, Post
      <3> QED
        BY <2>0, <3>1, <3>2
    <2>3. ASSUME MarketNext, \A u \in Users, l \in Listings : ~BuyListing(u, l)
          PROVE  balance' = balance
      BY <2>3 DEF MarketNext, CheckListable, CommitListing, RefuseListing, CancelListing,
                  accountVars
    <2>4. CASE MarketStep
      BY <2>1, <2>3, <2>4 DEF MarketStep
    <2>5. CASE DepositStep
      BY <2>2, <2>5 DEF DepositStep
    <2>6. CASE UNCHANGED vars
      BY <2>6 DEF vars, accountVars
    <2> QED
      BY <1>2, <2>4, <2>5, <2>6 DEF Next
  <1> QED
    BY <1>1, <1>2

(* Nobody's balance goes below zero, bidding and buying at once, if every   *)
(* price accepted on either market covers its two fee deductions.           *)
THEOREM NobodyOverspendsOnTheExchange == Spec => []NobodyOverspends
  <1>1. Init => AsksKnown /\ NobodyOverspends
    BY AccountsAssumption
       DEF Init, AuctionInit, AccountsInit, MarketInit, NoListing, AsksKnown,
           NobodyOverspends, NoOverdraft
  <1>2. ExchangeInv /\ AsksKnown /\ NobodyOverspends /\ [Next]_vars
          => AsksKnown' /\ NobodyOverspends'
    BY AsksStep, SpendingStep
  <1> QED
    BY <1>1, <1>2, ExchangeInvHolds, PTL DEF Spec
=============================================================================
