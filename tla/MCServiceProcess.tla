--------------------------- MODULE MCServiceProcess ---------------------------
(***************************************************************************)
(* TLC instance of ServiceProcess: a user service with the default pool,   *)
(* and a lobby whose pools are listed.                                     *)
(***************************************************************************)
EXTENDS ServiceProcess

CONSTANTS user, lobby

MCAddrs == {user, lobby}
MCLobbies == {lobby}
MCDataSources == [a \in MCAddrs |-> IF a = user THEN Absent ELSE {DefaultPool, "split"}]
=============================================================================
