------------------------------ MODULE DropSale ------------------------------
(***************************************************************************)
(* Pack drops: the purchase route, the reveal route and the scripts that   *)
(* put drops on sale again.                                                *)
(*                                                                         *)
(* A purchase locks the drop row, reads everything it decides on, draws    *)
(* the cards and then writes absolute values.  The drop row is locked from *)
(* the first read to the commit, the user row is not: other transactions   *)
(* may change the balance in between.  A purchase is therefore two steps,  *)
(* the reads and the commit.  The admission limits and the jitter before   *)
(* the transaction only delay or refuse requests.  Which cards a pack gets *)
(* is left out.                                                            *)
(***************************************************************************)
EXTENDS Accounts, FiniteSets

CONSTANTS
  Drops,            (* drops.id                                            *)
  UserPacks,        (* user_packs.id; also the bound on packs ever sold    *)
  Sales,            (* purchase requests that may be in flight at once     *)
  Price,            (* TIER_PRICES_USD of the drop's tier                  *)
  Stock,            (* drops.total_inventory                               *)
  MaxPacksPerUser,  (* MAX_PACKS_PER_USER_PER_DROP, 5 in the code          *)
  MaxSupply,        (* bound: packs a drop is ever stocked with            *)
  NoDrop            (* the drop of a row that does not exist               *)

ASSUME DropAssumption ==
  /\ Price \in [Drops -> Nat]
  /\ Stock \in Nat \ {0}
  /\ MaxPacksPerUser \in Nat
  /\ MaxSupply \in Nat
  /\ NoDrop \notin Drops
  /\ IsFiniteSet(UserPacks)

VARIABLES
  drop,             (* drops                                               *)
  userPack,         (* user_packs                                          *)
  sale              (* purchases between their reads and their commit      *)

dropVars == <<drop, userPack, sale>>
saleVars == <<accountVars, dropVars>>

(* window tells where the clock is relative to starts_at and ends_at;       *)
(* supplied is history: all the packs the drop was ever stocked with.       *)
DropRow ==
  [remaining : Nat, window : {"before", "open", "after"},
   status : {"SCHEDULED", "LIVE", "SOLD_OUT"}, supplied : Nat]

(* owner = NoUser is a pack not sold yet. *)
UserPackRow == [owner : Users \cup {NoUser}, drop : Drops \cup {NoDrop}, revealed : BOOLEAN]
UnsoldPack == [owner |-> NoUser, drop |-> NoDrop, revealed |-> FALSE]

(* user = NoUser is a request that is not in flight; balance and remaining  *)
(* are the values it has read.                                              *)
SaleRow ==
  [user : Users \cup {NoUser}, drop : Drops \cup {NoDrop}, balance : Int, remaining : Int]
NoSale == [user |-> NoUser, drop |-> NoDrop, balance |-> 0, remaining |-> 0]

DropInit ==
  /\ drop = [d \in Drops |->
       [remaining |-> Stock, window |-> "before", status |-> "SCHEDULED", supplied |-> Stock]]
  /\ userPack = [p \in UserPacks |-> UnsoldPack]
  /\ sale = [s \in Sales |-> NoSale]

PacksOf(u, d) == {p \in UserPacks : userPack[p].owner = u /\ userPack[p].drop = d}

----------------------------------------------------------------------------
(* Purchase *)

(* Mutant of DropUnlocked: the drop row is read without FOR UPDATE. *)
DropUnlockedAlways(d) == TRUE

(* A purchase in flight holds the lock of its drop row. *)
DropUnlocked(d) == \A s \in Sales : sale[s].drop # d

(* Mutant of UnderLimit: the limit is a limit per request in flight. *)
UnderLimitInFlight(u, d) ==
  Cardinality({s \in Sales : sale[s].user = u /\ sale[s].drop = d}) < MaxPacksPerUser

UnderLimit(u, d) == Cardinality(PacksOf(u, d)) < MaxPacksPerUser

InStock(d) == drop[d].remaining > 0

ReadForPurchase(s, u, d) ==
  /\ sale[s] = NoSale
  /\ DropUnlocked(d)
  /\ drop[d].window = "open"
  /\ InStock(d)
  /\ UnderLimit(u, d)
  /\ Affords(u, Price[d])
  /\ sale' = [sale EXCEPT ![s] =
       [user |-> u, drop |-> d, balance |-> balance[u], remaining |-> drop[d].remaining]]
  /\ UNCHANGED <<accountVars, drop, userPack>>

(* What the purchase x writes to the user row: computed from what it read. *)
BalanceAfter(x) == x.balance - Price[x.drop]

StatusAfter(d, left) == IF left = 0 THEN "SOLD_OUT" ELSE drop[d].status

CommitPurchase(s, p) ==
  LET x == sale[s]
      left == x.remaining - 1
  IN  /\ x # NoSale
      /\ userPack[p] = UnsoldPack
      /\ drop' = [drop EXCEPT ![x.drop] =
           [@ EXCEPT !.remaining = left, !.status = StatusAfter(x.drop, left)]]
      /\ balance' = [balance EXCEPT ![x.user] = BalanceAfter(x)]
      /\ ledgerSum' = Post(ledgerSum, x.user, -Price[x.drop])
      /\ userPack' = [userPack EXCEPT ![p] = [owner |-> x.user, drop |-> x.drop, revealed |-> FALSE]]
      /\ sale' = [sale EXCEPT ![s] = NoSale]
      /\ UNCHANGED <<held, card>>

(* The transaction times out or throws, and is rolled back. *)
AbortPurchase(s) ==
  /\ sale[s] # NoSale
  /\ sale' = [sale EXCEPT ![s] = NoSale]
  /\ UNCHANGED <<accountVars, drop, userPack>>

----------------------------------------------------------------------------
(* Reveal, the sale window, the scripts *)

RevealPack(u, p) ==
  /\ userPack[p].owner = u
  /\ ~userPack[p].revealed
  /\ userPack' = [userPack EXCEPT ![p].revealed = TRUE]
  /\ UNCHANGED <<accountVars, drop, sale>>

WindowMoves(d) ==
  /\ drop[d].window # "after"
  /\ drop' = [drop EXCEPT ![d].window = IF @ = "before" THEN "open" ELSE "after"]
  /\ UNCHANGED <<accountVars, userPack, sale>>

(* reset-drops and go-live-now refill every drop, one update each, which    *)
(* waits for a purchase that has the row locked; packs sold stay sold.      *)
Restock(d, window, status) ==
  /\ DropUnlocked(d)
  /\ drop[d].supplied + Stock - drop[d].remaining <= MaxSupply   \* bound
  /\ drop' = [drop EXCEPT ![d] =
       [remaining |-> Stock, window |-> window, status |-> status,
        supplied |-> @.supplied + Stock - @.remaining]]
  /\ UNCHANGED <<accountVars, userPack, sale>>

DropNext ==
  \/ \E s \in Sales, u \in Users, d \in Drops : ReadForPurchase(s, u, d)
  \/ \E s \in Sales, p \in UserPacks : CommitPurchase(s, p)
  \/ \E s \in Sales : AbortPurchase(s)
  \/ \E u \in Users, p \in UserPacks : RevealPack(u, p)
  \/ \E d \in Drops : WindowMoves(d)
  \/ \E d \in Drops : Restock(d, "before", "SCHEDULED")
  \/ \E d \in Drops : Restock(d, "open", "LIVE")

DepositStep == (\E u \in Users, amount \in Deposits : AddFunds(u, amount)) /\ UNCHANGED dropVars

SaleInit == AccountsInit /\ DropInit

SaleNext == DropNext \/ DepositStep

SaleSpec == SaleInit /\ [][SaleNext]_saleVars

----------------------------------------------------------------------------
(* Properties *)

(* Every row keeps the shape of its columns; remaining is never negative.   *)
DropTypeOK ==
  /\ AccountsTypeOK
  /\ drop \in [Drops -> DropRow]
  /\ userPack \in [UserPacks -> UserPackRow]
  /\ sale \in [Sales -> SaleRow]

(* The remaining column, written as an absolute value by purchases and by   *)
(* the scripts, accounts for every pack: sold and left add up to what was   *)
(* stocked, and SOLD_OUT is stored exactly when nothing is left.            *)
StockAccountedFor ==
  \A d \in Drops :
    /\ drop[d].remaining + Cardinality({p \in UserPacks : userPack[p].drop = d}) = drop[d].supplied
    /\ drop[d].status = "SOLD_OUT" <=> drop[d].remaining = 0

(* Nobody gets more packs of a drop than the limit, however many purchase   *)
(* requests they have in flight and however often the drop is restocked.    *)
LimitPerUser ==
  \A u \in Users, d \in Drops : Cardinality(PacksOf(u, d)) <= MaxPacksPerUser

(* The stale balance a purchase writes can be wrong, but never negative.    *)
PurchasesNeverOverdraw == \A u \in Users : balance[u] >= 0

(* A purchase in flight still describes its drop row when it commits, since *)
(* it holds the lock; its balance need not still be the user's.             *)
LockedReadsStayFresh ==
  \A s \in Sales : LET x == sale[s] IN
    x # NoSale => /\ x.remaining = drop[x.drop].remaining /\ x.remaining > 0
                  /\ Cardinality(PacksOf(x.user, x.drop)) < MaxPacksPerUser

(* What the architecture document says, and the code does not do.           *)

(* "users.balance is always reconstructable as SUM(ledger.delta)": the      *)
(* purchase path is said to lock the user row.                              *)
BalanceIsLedgerSum == \A u \in Users : balance[u] = ledgerSum[u]
=============================================================================
