------------------------- MODULE MCConnectionManager -------------------------
(***************************************************************************)
(* TLC instance of ConnectionManager.  Clients are used once each, so the  *)
(* instance is finite but for DisconnectedCount, which a re-login and a    *)
(* kick can raise again and again; MaxDisconnects bounds it.               *)
(***************************************************************************)
EXTENDS ConnectionManager, TLC

CONSTANT MaxDisconnects

BoundedDisconnects == metrics.disconnected <= MaxDisconnects

Symmetry == Permutations(Clients) \cup Permutations(Users)
=============================================================================
