----------------------------- MODULE MCLiveFeed -----------------------------
(* One auction, one call of the worker, and a page or two. *)
EXTENDS LiveFeed
=============================================================================
