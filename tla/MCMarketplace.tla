---------------------------- MODULE MCMarketplace ---------------------------
(* TLC instances of Marketplace. *)
EXTENDS Marketplace
=============================================================================
