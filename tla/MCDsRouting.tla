----------------------------- MODULE MCDsRouting -----------------------------
(***************************************************************************)
(* TLC instance of DsRouting: a fallback table, one that splits a domain   *)
(* off, one that names a pool the service has not, one with a prefix twice.*)
(***************************************************************************)
EXTENDS DsRouting

CONSTANTS a, main, split, missing

MCTables ==
    LET rule(prefix, pool) == [prefix |-> prefix, pool |-> pool]
    IN  {<<rule(<<>>, main)>>,
         <<rule(<<a>>, split), rule(<<>>, main)>>,
         <<rule(<<>>, main), rule(<<a>>, missing)>>,
         <<rule(<<a>>, main), rule(<<a>>, split)>>}

MCPools == {main, split}

MCKeys == {<<>>, <<a>>, <<a, a>>}
=============================================================================
