--------------------------------- MODULE Lpm ---------------------------------
(***************************************************************************)
(* Longest-prefix match of pkg/dsroute/lpm.go: the loop of ResolvePoolName *)
(* as a fold over the rules.  A routing key and a prefix are sequences.    *)
(***************************************************************************)
EXTENDS Naturals, Sequences, SequencesExt

CONSTANT NoRule   \* ResolvePoolName found none: it returns an error

\* Faulty variant: a rule of the same length takes over.
BetterOrEqual(key, best, rule) ==
    IF rule.prefix = <<>>
    THEN IF best = NoRule THEN rule ELSE best
    ELSE IF /\ IsPrefix(rule.prefix, key)
            /\ best = NoRule \/ Len(rule.prefix) >= Len(best.prefix)
         THEN rule ELSE best

\* One turn of the loop: bestCandidate after rule was looked at.
Better(key, best, rule) ==
    IF rule.prefix = <<>>
    THEN IF best = NoRule THEN rule ELSE best
    ELSE IF /\ IsPrefix(rule.prefix, key)
            /\ best = NoRule \/ Len(rule.prefix) > Len(best.prefix)
         THEN rule ELSE best

ResolvePoolName(rules, key) ==
    FoldLeft(LAMBDA best, rule : Better(key, best, rule), NoRule, rules)

\* ValidateRoutes: no prefix twice, whatever the pools.
ValidateRoutes(rules) ==
    \A i, j \in DOMAIN rules : rules[i].prefix = rules[j].prefix => i = j

\* What the package promises of the answer: the first of the longest matches.
Matches(rules, key) == {i \in DOMAIN rules : IsPrefix(rules[i].prefix, key)}

LongestMatches(rules, key) ==
    {i \in Matches(rules, key) :
        \A j \in Matches(rules, key) : Len(rules[j].prefix) <= Len(rules[i].prefix)}

FirstLongest(rules, key) ==
    IF Matches(rules, key) = {} THEN NoRule
    ELSE rules[CHOOSE i \in LongestMatches(rules, key) :
                  \A j \in LongestMatches(rules, key) : i <= j]

=============================================================================
