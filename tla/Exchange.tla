------------------------------ MODULE Exchange ------------------------------
(***************************************************************************)
(* Auctions, listings and deposits over the same users and cards: the      *)
(* components meet only in the user, ledger and user_cards rows, and each  *)
(* step is one transaction of one of them (or the check a create-listing   *)
(* request makes before its transaction).                                  *)
(***************************************************************************)
EXTENDS AuctionHouse, Marketplace

vars == <<accountVars, auctionVars, marketVars>>

Init == AuctionInit /\ MarketInit

AuctionStep == AuctionNext /\ UNCHANGED marketVars

MarketStep == MarketNext /\ UNCHANGED auctionVars

DepositStep ==
  /\ \E u \in Users, amount \in Deposits : AddFunds(u, amount)
  /\ UNCHANGED <<auctionVars, marketVars>>

Next == AuctionStep \/ MarketStep \/ DepositStep

Spec == Init /\ [][Next]_vars

----------------------------------------------------------------------------
(* Properties *)

(* Every row keeps the shape of its columns. *)
TypeOK == AuctionTypeOK /\ MarketTypeOK

ActiveListings(c) == {l \in Listings : listing[l].status = "ACTIVE" /\ listing[l].card = c}

(* A card is LISTED exactly while one active listing offers it, in AUCTION  *)
(* exactly while its auction is live, and so never for sale twice, however  *)
(* the create, buy, cancel and settle requests of both markets interleave.  *)
ForSaleOnce ==
  \A c \in Cards :
    /\ card[c].status = "LISTED" <=> ActiveListings(c) # {}
    /\ card[c].status = "AUCTION" <=> auction[c].status = "LIVE"
    /\ \A l, m \in ActiveListings(c) : l = m

(* Nobody receives a card without paying for it in the same transaction:    *)
(* the new owner's money falls by the price of the sale that moved it.      *)
NoFreeTransfer ==
  [][ \A c \in Cards : LET w == card'[c].owner IN
        w # card[c].owner =>
          \/ /\ auction[c].status = "LIVE" /\ auction'[c].winner = w
             /\ (balance'[w] + held'[w]) - (balance[w] + held[w]) = -auction[c].bid
          \/ \E l \in Listings :
               /\ listing[l].status = "ACTIVE" /\ listing'[l].status = "SOLD"
               /\ listing[l].card = c /\ listing'[l].buyer = w
               /\ (balance'[w] + held'[w]) - (balance[w] + held[w]) = -listing[l].ask ]_vars

(* Nobody spends what they do not have, on both markets at once: bids and   *)
(* purchases draw on one balance, and no sale costs its seller more than it *)
(* brings, as long as every price asked covers its two fee deductions too.  *)
TradeFeesCovered == \A ask \in Asks : 2 * TradeFee(ask) <= ask
NobodyOverspends == TradeFeesCovered => NoOverdraft

(* What a route comment says and the code does not do.                     *)

(* "403 not owner": only the owner of a card ever has it on the market. *)
OwnCardsOnly ==
  \A l \in Listings :
    listing[l].status = "ACTIVE" => listing[l].seller = card[listing[l].card].owner
=============================================================================
