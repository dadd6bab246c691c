---------------------------- MODULE AuctionHouse ----------------------------
(***************************************************************************)
(* The auction routes: create, bid, cancel and the settlement the close    *)
(* worker asks for, each as the transaction it runs in.  Every one of them *)
(* takes the row locks of all it reads and writes before it decides, so a  *)
(* transaction is one step; sessions, parsing, status codes and broadcasts *)
(* are left out.  The two-second bid slot only ever refuses a request, and *)
(* admits every request while Redis is unreachable, so any bid may reach   *)
(* the transaction.                                                        *)
(*                                                                         *)
(* auctions.user_card_id is UNIQUE: a card has at most one auction row in  *)
(* its life, and the row is indexed here by its card.                      *)
(***************************************************************************)
EXTENDS Accounts, FiniteSetsExt

CONSTANTS
  StartingBids,  (* the startingBid amounts of create requests             *)
  BidAmounts,    (* the amounts of bid requests                            *)
  Durations,     (* the seconds a durationKey resolves to                  *)
  TickMs,        (* how far one step of the clock moves                    *)
  MaxTime        (* bound: no auction may be created that could outlive it *)

ASSUME AuctionAssumption ==
  /\ StartingBids \subseteq Nat
  /\ BidAmounts \subseteq Nat
  /\ Durations \subseteq Nat \ {0}
  /\ TickMs \in Nat \ {0}
  /\ MaxTime \in Nat

ASSUME FiniteTables == IsFiniteSet(Users) /\ IsFiniteSet(Cards)

VARIABLES
  clock,         (* the web process's Date and the database's now()        *)
  auction,       (* auctions, by card                                      *)
  bids           (* the rows of bids, by card                              *)

auctionVars == <<clock, auction, bids>>
houseVars == <<accountVars, auctionVars>>

AuctionStatus == {"NONE", "LIVE", "CLOSED", "CANCELLED"}

(* bidder = NoUser (with bid = 0) stands for the NULLs of an auction        *)
(* without bids, status "NONE" for a card without an auction row.  An       *)
(* amount can be 0: parseMoney rounds what is below half a unit down to it. *)
AuctionRow ==
  [status : AuctionStatus, seller : Users \cup {NoUser}, start : StartingBids \cup {0},
   bid : BidAmounts \cup {0}, bidder : Users \cup {NoUser}, winner : Users \cup {NoUser},
   startsAt : Nat, closesAt : Nat, ext : Nat]

NoAuction ==
  [status |-> "NONE", seller |-> NoUser, start |-> 0,
   bid |-> 0, bidder |-> NoUser, winner |-> NoUser,
   startsAt |-> 0, closesAt |-> 0, ext |-> 0]

BidRow == [bidder : Users, amount : BidAmounts]

AuctionInit ==
  /\ AccountsInit
  /\ clock = 0
  /\ auction = [c \in Cards |-> NoAuction]
  /\ bids = [c \in Cards |-> {}]

----------------------------------------------------------------------------
(* Create, cancel *)

LongestRun(secs) ==
  (secs + AntiSnipeMaxExtensions * AntiSnipeExtendSec) * MsPerSec

CreateAuction(u, c, start, secs) ==
  /\ card[c].owner = u
  /\ card[c].status = "HELD"
  /\ auction[c].status = "NONE"            \* the UNIQUE index
  /\ clock + LongestRun(secs) <= MaxTime   \* bound
  /\ auction' = [auction EXCEPT ![c] =
       [NoAuction EXCEPT !.status = "LIVE", !.seller = u, !.start = start,
                         !.startsAt = clock,
                         !.closesAt = clock + secs * MsPerSec]]
  /\ card' = [card EXCEPT ![c].status = "AUCTION"]
  /\ UNCHANGED <<balance, held, ledgerSum, clock, bids>>

CancelAuction(u, c) ==
  /\ auction[c].seller = u
  /\ auction[c].status = "LIVE"
  /\ auction[c].bidder = NoUser
  /\ auction' = [auction EXCEPT ![c].status = "CANCELLED"]
  /\ card' = [card EXCEPT ![c].status = "HELD"]
  /\ UNCHANGED <<balance, held, ledgerSum, clock, bids>>

----------------------------------------------------------------------------
(* Bid *)

(* Mutant of AmountAcceptable: the high bid is not looked at. *)
AmountAcceptableFromStart(a, amount) ==
  amount >= a.start /\ ~IsExcessiveOverbid(a.start, amount)

(* The increment rule: the starting price, or an increment on the high     *)
(* bid, and never more than the fat-finger cap over either.                *)
AmountAcceptable(a, amount) ==
  IF a.bidder = NoUser
  THEN amount >= a.start /\ ~IsExcessiveOverbid(a.start, amount)
  ELSE amount >= MinNextBid(a.bid) /\ ~IsExcessiveOverbid(a.bid, amount)

(* Mutant of Required: a raise of one's own bid is held in full. *)
RequiredInFull(u, a, amount) == amount

(* What u must have available: raising one's own bid holds the delta.      *)
Required(u, a, amount) ==
  IF a.bidder = u THEN amount - a.bid ELSE amount

(* Mutant of HoldChange: the outbid leader is not refunded. *)
HoldChangeNoRelease(w, u, a, amount) == IF w = u THEN Required(u, a, amount) ELSE 0

(* How much more of w's money is held once u's bid is in: the previous     *)
(* leader, if another user, gets the whole hold back.                      *)
HoldChange(w, u, a, amount) ==
  CASE w = u -> Required(u, a, amount)
    [] w # u /\ w = a.bidder -> -a.bid
    [] OTHER -> 0

PlaceBid(u, c, amount) ==
  LET a == auction[c]
      snipe == ApplyAntiSnipe(clock, a.closesAt, a.ext)
  IN  /\ a.status = "LIVE"
      /\ a.seller # u
      /\ clock < a.closesAt
      /\ AmountAcceptable(a, amount)
      /\ Affords(u, Required(u, a, amount))
      /\ balance' = [w \in Users |-> balance[w] - HoldChange(w, u, a, amount)]
      /\ held' = [w \in Users |-> held[w] + HoldChange(w, u, a, amount)]
      /\ ledgerSum' = [w \in Users |-> ledgerSum[w] - HoldChange(w, u, a, amount)]
      /\ auction' = [auction EXCEPT ![c] =
           [@ EXCEPT !.bid = amount, !.bidder = u,
                     !.closesAt = snipe.closesAt, !.ext = snipe.ext]]
      /\ bids' = [bids EXCEPT ![c] = @ \cup {[bidder |-> u, amount |-> amount]}]
      /\ UNCHANGED <<card, clock>>

----------------------------------------------------------------------------
(* Settlement.  SKIP LOCKED may pass over the earliest due row while       *)
(* another transaction holds it, so any due auction may be the next one.   *)

(* Mutants of Due: a settled auction is picked again; one nobody bid on is  *)
(* passed over.                                                             *)
DueAgain(c) == auction[c].status \in {"LIVE", "CLOSED"} /\ auction[c].closesAt <= clock
DueWithBids(c) ==
  auction[c].status = "LIVE" /\ auction[c].closesAt <= clock /\ auction[c].bidder # NoUser

Due(c) == auction[c].status = "LIVE" /\ auction[c].closesAt <= clock

(* AUCTION_SELL and AUCTION_FEE together. *)
SellerProceeds(p) == SellerCredit(p, AuctionFee(p))

CardAfterSale(a) == [owner |-> a.bidder, status |-> "HELD"]

(* Mutant of SettleUnsold: the card is not given back. *)
SettleUnsoldKeepsCard(c) ==
  /\ Due(c)
  /\ auction[c].bidder = NoUser
  /\ auction' = [auction EXCEPT ![c].status = "CLOSED"]
  /\ UNCHANGED <<accountVars, clock, bids>>

SettleUnsold(c) ==
  /\ Due(c)
  /\ auction[c].bidder = NoUser
  /\ auction' = [auction EXCEPT ![c].status = "CLOSED"]
  /\ card' = [card EXCEPT ![c].status = "HELD"]
  /\ UNCHANGED <<balance, held, ledgerSum, clock, bids>>

SettleSold(c) ==
  LET a == auction[c]
      credit == SellerProceeds(a.bid)
  IN  /\ Due(c)
      /\ a.bidder # NoUser
      /\ held' = Post(held, a.bidder, -a.bid)
      /\ balance' = Post(balance, a.seller, credit)
      /\ ledgerSum' = Post(Post(ledgerSum, a.bidder, -a.bid),  \* AUCTION_WIN
                           a.seller, credit)                   \* _SELL, _FEE
      /\ card' = [card EXCEPT ![c] = CardAfterSale(a)]
      /\ auction' = [auction EXCEPT ![c] = [@ EXCEPT !.status = "CLOSED", !.winner = a.bidder]]
      /\ UNCHANGED <<clock, bids>>

SettleNextDue(c) == SettleUnsold(c) \/ SettleSold(c)

Tick ==
  /\ clock < MaxTime
  /\ clock' = clock + TickMs
  /\ UNCHANGED <<accountVars, auction, bids>>

AuctionNext ==
  \/ \E u \in Users, c \in Cards, start \in StartingBids, secs \in Durations :
       CreateAuction(u, c, start, secs)
  \/ \E u \in Users, c \in Cards : CancelAuction(u, c)
  \/ \E u \in Users, c \in Cards, amount \in BidAmounts : PlaceBid(u, c, amount)
  \/ \E c \in Cards : SettleUnsold(c)
  \/ \E c \in Cards : SettleSold(c)
  \/ Tick

(* Time passes, and the close worker comes back every second; sellers and  *)
(* bidders need never act.                                                 *)
AuctionFairness ==
  /\ WF_houseVars(Tick)
  /\ \A c \in Cards : WF_houseVars(SettleNextDue(c))

AuctionSpec == AuctionInit /\ [][AuctionNext]_houseVars
FairAuctionSpec == AuctionSpec /\ AuctionFairness

----------------------------------------------------------------------------
(* Properties *)

(* Every row keeps the shape of its columns. *)
AuctionTypeOK ==
  /\ AccountsTypeOK
  /\ clock \in Nat
  /\ auction \in [Cards -> AuctionRow]
  /\ bids \in [Cards -> SUBSET BidRow]

(* What u has at stake in the auction of c: the high bid while u leads it. *)
Lead(u, c) ==
  IF auction[c].status = "LIVE" /\ auction[c].bidder = u THEN auction[c].bid ELSE 0

(* What the settled sale of c kept of the winner's money: the part of the   *)
(* price its seller did not get.                                            *)
Kept(c) ==
  IF auction[c].winner # NoUser THEN auction[c].bid - SellerProceeds(auction[c].bid) ELSE 0

(* balance_held is always the sum of the bids its user leads in live       *)
(* auctions: no outbid, raise or settlement, on any interleaving of several *)
(* auctions, releases a hold twice, loses one, or holds a raise in full.    *)
HeldIsTheLeads ==
  \A u \in Users : held[u] = SumFunction([c \in Cards |-> Lead(u, c)])

(* The same, step by step: a transaction touches one auction, and moves     *)
(* each user's hold by exactly what that user's lead there moved.           *)
HoldsMove ==
  /\ held' # held => \E c \in Cards : auction'[c] # auction[c]
  /\ \A c \in Cards : auction'[c] # auction[c] =>
       /\ \A d \in Cards \ {c} : auction'[d] = auction[d]
       /\ \A u \in Users : held'[u] - held[u] = Lead(u, c)' - Lead(u, c)
HoldsMoveWithTheLead == [][HoldsMove]_houseVars

(* The NULLs of an auction row come and go together: a bid has a bidder, a  *)
(* cancelled auction never had one, and only a closed auction has a winner, *)
(* who is the last bidder.                                                  *)
NullsAgree ==
  \A c \in Cards : LET a == auction[c] IN
    /\ a.status = "NONE" <=> a.seller = NoUser
    /\ a.bidder = NoUser => a.bid = 0
    /\ a.status \in {"NONE", "CANCELLED"} => a.bidder = NoUser
    /\ a.winner = IF a.status = "CLOSED" THEN a.bidder ELSE NoUser

(* A card is in AUCTION exactly while its auction is live, it stays with    *)
(* the seller until then, and the seller never leads the auction of their   *)
(* own card.                                                                *)
CardFollowsAuction ==
  \A c \in Cards :
    /\ card[c].status = "AUCTION" <=> auction[c].status = "LIVE"
    /\ auction[c].status = "LIVE" =>
         card[c].owner = auction[c].seller /\ auction[c].bidder # auction[c].seller

(* The close moves only by whole extensions, at most the cap of them, and   *)
(* each one was paid for by a bid of its own.                               *)
ClosingSchedule ==
  \A c \in Cards : LET a == auction[c] IN
    a.status # "NONE" =>
      /\ \E secs \in Durations :
           a.closesAt = a.startsAt + (secs + a.ext * AntiSnipeExtendSec) * MsPerSec
      /\ a.ext <= AntiSnipeMaxExtensions
      /\ a.ext <= Cardinality(bids[c])

(* Anti-snipe gives everyone time to answer: after any accepted bid at      *)
(* least the window is left on the clock, until the extensions are used up. *)
RoomAfterBid ==
  \A c \in Cards :
    (bids'[c] # bids[c] /\ auction[c].ext < AntiSnipeMaxExtensions) =>
      auction'[c].closesAt - clock >= AntiSnipeWindowSec * MsPerSec
RoomToAnswer == [][RoomAfterBid]_houseVars

(* The bids table is a ladder: of any two bids of an auction one clears the *)
(* increment over the other, the first clears the starting bid, and the     *)
(* denormalised high bid on the auction row is the top rung.                *)
BidLadder ==
  \A c \in Cards :
    /\ \A x, y \in bids[c] :
         x = y \/ x.amount >= MinNextBid(y.amount) \/ y.amount >= MinNextBid(x.amount)
    /\ \A x \in bids[c] : auction[c].start <= x.amount /\ x.amount <= auction[c].bid
    /\ IF auction[c].bidder = NoUser
       THEN bids[c] = {}
       ELSE [bidder |-> auction[c].bidder, amount |-> auction[c].bid] \in bids[c]

(* The ledger explains the balance of everyone who has won no auction: each *)
(* hold, release, sale, fee, trade and deposit writes rows for exactly what *)
(* it does to users.balance.  (What a win adds is LedgerRebuildsBalance.)   *)
LedgerExplainsTheRest ==
  \A u \in Users : (\A c \in Cards : auction[c].winner # u) => balance[u] = ledgerSum[u]

(* Money leaves the users once for each card sold, whatever the fees are,   *)
(* and never otherwise: a settlement that ran twice, or an outbid refunded  *)
(* twice or to the wrong user, would take or make money no sale accounts    *)
(* for.                                                                     *)
MoneyLeavesOnlyBySales ==
  SumFunction([u \in Users |-> Opening - (balance[u] + held[u])])
    = SumFunction([c \in Cards |-> Kept(c)])

(* Nobody spends what they do not have: bidding in several auctions at once *)
(* never overdraws, and a sale never costs its seller more than it brings,  *)
(* as long as no accepted price is below its two fee deductions.            *)
FeesCovered == \A amount \in BidAmounts : 2 * AuctionFee(amount) <= amount
NoOverdraft == FeesCovered => \A u \in Users : balance[u] >= 0

(* Every live auction ends, however its close is pushed back.               *)
EveryAuctionEnds ==
  \A c \in Cards : auction[c].status = "LIVE" ~> auction[c].status \in {"CLOSED", "CANCELLED"}

(* What the documents and the route comments say, and the code does not do. *)

(* "Winner fee 10% of final bid": a sale pays its seller the final bid less *)
(* one fee.                                                                 *)
SellerPaysOneFee ==
  [][ \A c \in Cards : auction'[c].winner # auction[c].winner =>
        LET s == auction[c].seller IN
          balance'[s] - balance[s] = auction[c].bid - AuctionFee(auction[c].bid) ]_houseVars

(* "users.balance is always reconstructable as SUM(ledger.delta)".          *)
LedgerRebuildsBalance == \A u \in Users : balance[u] = ledgerSum[u]

----------------------------------------------------------------------------
(* The promise the auctions keep, with the worth of a user being all the    *)
(* money on the user row.                                                   *)

Phase(a) ==
  CASE a.status = "NONE" -> "idle"
    [] a.status = "LIVE" -> "open"
    [] OTHER -> "over"

Promise == INSTANCE AuctionPromise WITH
  Items <- Cards,
  Nobody <- NoUser,
  phase <- [c \in Cards |-> Phase(auction[c])],
  owner <- [c \in Cards |-> card[c].owner],
  leader <- [c \in Cards |-> auction[c].bidder],
  price <- [c \in Cards |-> auction[c].bid],
  worth <- [u \in Users |-> balance[u] + held[u]],
  Proceeds <- SellerProceeds

(* The auction transactions implement the abstract auction. *)
KeepsPromise == Promise!Spec
=============================================================================
