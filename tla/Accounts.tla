------------------------------ MODULE Accounts ------------------------------
(***************************************************************************)
(* The rows every money path shares: users (spendable balance, funds held  *)
(* for bids), the append-only ledger and user_cards (owner, status).       *)
(*                                                                         *)
(* The ledger is kept as the sum of each user's deltas: which rows make it *)
(* up is told by the action that writes them.  acquiredAt and              *)
(* acquiredPrice, which no guard reads, are left out.                      *)
(***************************************************************************)
EXTENDS AuctionMath

CONSTANTS
  Users,      (* users.id                                                  *)
  Cards,      (* user_cards.id                                             *)
  NoUser,     (* a NULL user id                                            *)
  Opening,    (* what each user deposited before the behaviour starts      *)
  Deposits,   (* the amounts a deposit may have                            *)
  MaxBalance  (* bound: no deposit lifts a balance over it                 *)

ASSUME AccountsAssumption ==
  /\ NoUser \notin Users
  /\ Opening \in Nat
  /\ Deposits \subseteq Nat
  /\ MaxBalance \in Nat

VARIABLES
  balance,    (* users.balance                                             *)
  held,       (* users.balance_held                                        *)
  ledgerSum,  (* SUM(ledger.delta) of the user                             *)
  card        (* user_cards: owner (user_id) and status                    *)

accountVars == <<balance, held, ledgerSum, card>>

CardStatus == {"HELD", "LISTED", "AUCTION"}
CardRow == [owner : Users, status : CardStatus]

AccountsTypeOK ==
  /\ balance \in [Users -> Int]
  /\ held \in [Users -> Int]
  /\ ledgerSum \in [Users -> Int]
  /\ card \in [Cards -> CardRow]

(* Revealed cards in anyone's hands, nothing for sale. *)
AccountsInit ==
  /\ balance = [u \in Users |-> Opening]
  /\ held = [u \in Users |-> 0]
  /\ ledgerSum = [u \in Users |-> Opening]
  /\ card \in [Cards -> [owner : Users, status : {"HELD"}]]

(* Mutant of Affords: money held for bids counts as spendable. *)
AffordsWithHeld(u, amount) == balance[u] + held[u] >= amount

(* The funds check of the bid and the listing purchase, on the user row     *)
(* they hold the lock of.                                                   *)
Affords(u, amount) == balance[u] >= amount

(* A column of the user rows after u's has moved by amount. *)
Post(column, u, amount) == [column EXCEPT ![u] = @ + amount]

(* Mutant of AddFunds: the FUND_DEPOSIT row is not written. *)
AddFundsNoRow(u, amount) ==
  /\ balance[u] + amount <= MaxBalance
  /\ balance' = Post(balance, u, amount)
  /\ UNCHANGED <<held, ledgerSum, card>>

(* POST /api/funds/add: an atomic increment and its FUND_DEPOSIT row. *)
AddFunds(u, amount) ==
  /\ balance[u] + amount <= MaxBalance   \* bound
  /\ balance' = Post(balance, u, amount)
  /\ ledgerSum' = Post(ledgerSum, u, amount)
  /\ UNCHANGED <<held, card>>
=============================================================================
