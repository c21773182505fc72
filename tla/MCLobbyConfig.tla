--------------------------- MODULE MCLobbyConfig ----------------------------
(***************************************************************************)
(* TLC instance of LobbyConfig: one registered configuration and another   *)
(* that is published and of no interest here, and interchangeable tools.   *)
(***************************************************************************)
EXTENDS LobbyConfig, TLC

CONSTANTS c1, c2, t1, t2, t3

OneRegistered == <<c1>>
Symmetric == Permutations(Tools)

============================================================================
