--------------------------- MODULE MCAuctionHouse ---------------------------
(* Small instances of AuctionHouse for TLC. *)
EXTENDS AuctionHouse

(* Auctions that open at nothing or at a dime, and the dimes after it; four *)
(* dimes are more than anyone has.                                          *)
MCStarts == {0, 1000}
MCDimes == {0, 1000, 2000, 3000, 4000}
=============================================================================
