--------------------------- MODULE AuctionPromise ---------------------------
(***************************************************************************)
(* What an auction promises the people in it, with no clock, no holds and  *)
(* no ledger: an owner offers an item; while the offer is open others may  *)
(* take the lead at a higher price, which costs nobody anything; when it   *)
(* is over the leader has the item and has paid exactly the price once, or *)
(* there was no leader and nothing has happened.                           *)
(***************************************************************************)
EXTENDS Integers

CONSTANTS
  Users,
  Items,
  Nobody,       (* the leader of an offer nobody has bid on                *)
  Proceeds(_)   (* what a seller receives of a price                       *)

VARIABLES
  phase,        (* of each item: "idle", "open" or "over"                  *)
  owner,
  leader,
  price,
  worth         (* of each user: everything on the account                 *)

vars == <<phase, owner, leader, price, worth>>

Init ==
  /\ phase = [i \in Items |-> "idle"]
  /\ owner \in [Items -> Users]
  /\ leader = [i \in Items |-> Nobody]
  /\ price = [i \in Items |-> 0]
  /\ worth \in [Users -> Int]

Offer(i) ==
  /\ phase[i] = "idle"
  /\ phase' = [phase EXCEPT ![i] = "open"]
  /\ UNCHANGED <<owner, leader, price, worth>>

TakeLead(i, u) ==
  /\ phase[i] = "open"
  /\ u # owner[i]
  /\ leader' = [leader EXCEPT ![i] = u]
  /\ leader[i] = Nobody \/ price'[i] > price[i]
  /\ price' = [price EXCEPT ![i] = price'[i]]
  /\ UNCHANGED <<phase, owner, worth>>

Award(i) ==
  /\ phase[i] = "open"
  /\ leader[i] # Nobody
  /\ phase' = [phase EXCEPT ![i] = "over"]
  /\ owner' = [owner EXCEPT ![i] = leader[i]]
  /\ LET paid == [worth EXCEPT ![leader[i]] = @ - price[i]]
     IN  worth' = [paid EXCEPT ![owner[i]] = @ + Proceeds(price[i])]
  /\ UNCHANGED <<leader, price>>

Withdraw(i) ==
  /\ phase[i] = "open"
  /\ leader[i] = Nobody
  /\ phase' = [phase EXCEPT ![i] = "over"]
  /\ UNCHANGED <<owner, leader, price, worth>>

Next ==
  \E i \in Items :
    \/ Offer(i)
    \/ \E u \in Users : TakeLead(i, u)
    \/ Award(i)
    \/ Withdraw(i)

Spec == Init /\ [][Next]_vars
=============================================================================
