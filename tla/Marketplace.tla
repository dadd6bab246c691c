---------------------------- MODULE Marketplace ----------------------------
(***************************************************************************)
(* The listing routes.  Purchase and cancel decide under the lock of the   *)
(* listing row and are one step each.  Creating a listing is two: the      *)
(* route reads the card and checks its owner and status before it opens    *)
(* the transaction, and inside it, with the card row locked, looks at the  *)
(* status only.                                                            *)
(***************************************************************************)
EXTENDS Accounts

CONSTANTS
  Listings,   (* listings.id; also the bound on how many are ever created  *)
  Requests,   (* create requests that may be in flight at once             *)
  Asks,       (* the priceAsk amounts of create requests                   *)
  NoCard      (* the card of a row that does not exist                     *)

ASSUME MarketAssumption ==
  /\ Asks \subseteq Nat
  /\ NoCard \notin Cards

VARIABLES
  listing,    (* listings, by id                                           *)
  request     (* create requests that passed the checks before their       *)
              (* transaction                                               *)

marketVars == <<listing, request>>

ListingStatus == {"NONE", "ACTIVE", "SOLD", "CANCELLED"}

(* status "NONE" is an id not used yet. *)
ListingRow ==
  [status : ListingStatus, seller : Users \cup {NoUser}, card : Cards \cup {NoCard},
   ask : Nat, buyer : Users \cup {NoUser}]

(* user = NoUser is a request that is not in flight. *)
RequestRow == [user : Users \cup {NoUser}, card : Cards \cup {NoCard}, ask : Nat]

NoListing ==
  [status |-> "NONE", seller |-> NoUser, card |-> NoCard, ask |-> 0, buyer |-> NoUser]

NoRequest == [user |-> NoUser, card |-> NoCard, ask |-> 0]

MarketInit ==
  /\ listing = [l \in Listings |-> NoListing]
  /\ request = [r \in Requests |-> NoRequest]

(* POST /api/listings, up to the transaction: owner and status as read.    *)
CheckListable(r, u, c, ask) ==
  /\ request[r] = NoRequest
  /\ card[c].owner = u
  /\ card[c].status = "HELD"
  /\ request' = [request EXCEPT ![r] = [user |-> u, card |-> c, ask |-> ask]]
  /\ UNCHANGED <<accountVars, listing>>

(* Mutant of StillHeld: the transaction trusts the status read before it. *)
StillHeldUnchecked(c) == TRUE

(* The status read again, under the lock of the card row. *)
StillHeld(c) == card[c].status = "HELD"

(* POST /api/listings, the transaction. *)
CommitListing(r, l) ==
  LET q == request[r]
  IN  /\ q # NoRequest
      /\ StillHeld(q.card)
      /\ listing[l].status = "NONE"
      /\ listing' = [listing EXCEPT ![l] =
           [status |-> "ACTIVE", seller |-> q.user, card |-> q.card,
            ask |-> q.ask, buyer |-> NoUser]]
      /\ card' = [card EXCEPT ![q.card].status = "LISTED"]
      /\ request' = [request EXCEPT ![r] = NoRequest]
      /\ UNCHANGED <<balance, held, ledgerSum>>

RefuseListing(r) ==
  /\ request[r] # NoRequest
  /\ ~StillHeld(request[r].card)
  /\ request' = [request EXCEPT ![r] = NoRequest]
  /\ UNCHANGED <<accountVars, listing>>

(* TRADE_SELL and TRADE_FEE together. *)
TradeProceeds(ask) == SellerCredit(ask, TradeFee(ask))

(* Mutant of Offered: a sold or cancelled listing is still on offer. *)
OfferedAgain(l) == listing[l].status # "NONE"

(* The listing as read under its lock. *)
Offered(l) == listing[l].status = "ACTIVE"

BuyListing(u, l) ==
  LET x == listing[l]
  IN  /\ Offered(l)
      /\ x.seller # u
      /\ Affords(u, x.ask)
      /\ listing' = [listing EXCEPT ![l] = [@ EXCEPT !.status = "SOLD", !.buyer = u]]
      /\ card' = [card EXCEPT ![x.card] = [owner |-> u, status |-> "HELD"]]
      /\ balance' = Post(Post(balance, u, -x.ask), x.seller, TradeProceeds(x.ask))
      /\ ledgerSum' = Post(Post(ledgerSum, u, -x.ask), x.seller, TradeProceeds(x.ask))
      /\ UNCHANGED <<held, request>>

CancelListing(u, l) ==
  /\ listing[l].seller = u
  /\ Offered(l)
  /\ listing' = [listing EXCEPT ![l].status = "CANCELLED"]
  /\ card' = [card EXCEPT ![listing[l].card].status = "HELD"]
  /\ UNCHANGED <<balance, held, ledgerSum, request>>

MarketNext ==
  \/ \E r \in Requests, u \in Users, c \in Cards, ask \in Asks :
       CheckListable(r, u, c, ask)
  \/ \E r \in Requests, l \in Listings : CommitListing(r, l)
  \/ \E r \in Requests : RefuseListing(r)
  \/ \E u \in Users, l \in Listings : BuyListing(u, l)
  \/ \E u \in Users, l \in Listings : CancelListing(u, l)

MarketTypeOK ==
  /\ listing \in [Listings -> ListingRow]
  /\ request \in [Requests -> RequestRow]
=============================================================================
