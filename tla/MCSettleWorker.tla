--------------------------- MODULE MCSettleWorker ---------------------------
(* Two auctions, and two calls of the worker that overlap. *)
EXTENDS SettleWorker
=============================================================================
