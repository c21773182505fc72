-------------------------- MODULE MCSessionTakeover --------------------------
(***************************************************************************)
(* TLC instance of SessionTakeover: two gateways, and connections spread   *)
(* over them so that a takeover happens within one and across two.         *)
(***************************************************************************)
EXTENDS SessionTakeover, TLC

CONSTANTS c1, c2, c3, g1, g2

MCRequests == {c1, c2, c3}
MCGateways == {g1, g2}
MCHome == c1 :> g1 @@ c2 :> g1 @@ c3 :> g2
=============================================================================
