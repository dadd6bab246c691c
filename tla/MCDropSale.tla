----------------------------- MODULE MCDropSale -----------------------------
(* Small instances of DropSale for TLC. *)
EXTENDS DropSale, TLC

(* Drops of one price: a Starter pack is $5.00. *)
MCPrice == [d \in Drops |-> 50000]

Symmetry == Permutations(Users) \cup Permutations(Drops)
              \cup Permutations(UserPacks) \cup Permutations(Sales)
=============================================================================
