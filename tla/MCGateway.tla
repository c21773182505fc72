------------------------------ MODULE MCGateway ------------------------------
(***************************************************************************)
(* TLC instance of Gateway.  Every variable is bounded by itself: clients  *)
(* connect once, ages saturate, and MaxInvalidations bounds the kicks.     *)
(***************************************************************************)
EXTENDS Gateway, TLC

Symmetry == Permutations(Clients)
=============================================================================
