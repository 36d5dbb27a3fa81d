----------------------------- MODULE MCRebalance -----------------------------
(* TLC instances of Rebalance.                                             *)
EXTENDS Rebalance
=============================================================================
