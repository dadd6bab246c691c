----------------------------- MODULE MCExchange -----------------------------
(* Small instances of Exchange for TLC. *)
EXTENDS Exchange, TLC

MCStartingBids == {10000}
MCBidAmounts == {10000, 11000}
MCAsks == {10000}

Symmetry == Permutations(Users) \cup Permutations(Cards)
              \cup Permutations(Listings) \cup Permutations(Requests)
=============================================================================
