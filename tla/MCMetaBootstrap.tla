--------------------------- MODULE MCMetaBootstrap ---------------------------
(***************************************************************************)
(* TLC instance of MetaBootstrap: MaxRev, MaxDrops and MaxFailures bound   *)
(* everything that starts a reload.                                        *)
(***************************************************************************)
EXTENDS MetaBootstrap

=============================================================================
