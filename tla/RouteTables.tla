----------------------------- MODULE RouteTables -----------------------------
(***************************************************************************)
(* Every route table of up to MaxRules rules, which grows by one rule at a *)
(* time, duplicates included: what ResolvePoolName makes of each of them.  *)
(***************************************************************************)
EXTENDS Lpm

CONSTANTS Letters, PoolNames, MaxRules, MaxLen

VARIABLE table

Words == UNION {[1 .. n -> Letters] : n \in 0 .. MaxLen}

Rule == [prefix : Words, pool : PoolNames]

ASSUME RuleAssumption == NoRule \notin Rule

TableInit == table = <<>>

TableNext == Len(table) < MaxRules /\ \E r \in Rule : table' = Append(table, r)

TableSpec == TableInit /\ [][TableNext]_table

\* The loop finds the first of the longest matching rules, for every key and
\* whatever the order of the rules, the empty prefix being the shortest.
LongestPrefixWins ==
    \A key \in Words : ResolvePoolName(table, key) = FirstLongest(table, key)

\* "重复 prefix 冲突 | LPM 算法处理，同长度后覆盖前" (dbpool design, 10): of two
\* rules with the same prefix the later one wins.
LaterDuplicateWins ==
    \A key \in Words :
        LongestMatches(table, key) # {} =>
            \E i \in LongestMatches(table, key) :
                /\ \A j \in LongestMatches(table, key) : j <= i
                /\ ResolvePoolName(table, key) = table[i]
=============================================================================
