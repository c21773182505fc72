--------------------------- MODULE DsRoutingProofs ---------------------------
(***************************************************************************)
(* Theorems of modules Lpm and DsRouting, for route tables of any length   *)
(* and any number of writes, watches that end and reads that fail: the     *)
(* loop of ResolvePoolName, the tables a service starts with and the       *)
(* tables it routes by after it was told of a change.                      *)
(***************************************************************************)
EXTENDS DsRouting, RouteTables, WellFoundedInduction, TLAPS

-----------------------------------------------------------------------------
(***************************************************************************)
(* Folds over sequences, from the definition of FoldLeft.                  *)
(***************************************************************************)
Smaller == {p \in Nat \X Nat : p[1] < p[2]}

\* Induction up to n: a set that holds 0, and with each number below n the
\* next one, holds them all.  (There is no smallest number that it misses.)
LEMMA UpTo ==
  ASSUME NEW n \in Nat, NEW T, 0 \in T, \A i \in 0 .. n - 1 : i \in T => i + 1 \in T
  PROVE  \A i \in 0 .. n : i \in T
  <1>. DEFINE Missed == {i \in 0 .. n : i \notin T}
  <1>. SUFFICES ASSUME Missed # {} PROVE FALSE
    OBVIOUS
  <1>1. IsWellFoundedOn(Smaller, Nat)
    BY NatLessThanWellFounded, Zenon DEF OpToRel, Smaller
  <1>2. \E i \in Missed : \A j \in Missed : <<j, i>> \notin Smaller
    <2>1. Missed \subseteq Nat
      OBVIOUS
    <2>. HIDE DEF Missed
    <2>. QED  BY <1>1, <2>1, WFMin
  <1>3. PICK i \in 0 .. n : i \notin T /\ \A j \in Missed : <<j, i>> \notin Smaller
    BY <1>2
  <1>4. i - 1 \in 0 .. n - 1 /\ i - 1 \notin T
    BY <1>3
  <1>5. <<i - 1, i>> \in Smaller /\ i - 1 \in Missed
    <2>1. i \in Nat /\ i - 1 \in Nat /\ i - 1 < i
      BY <1>4
    <2>. QED  BY <1>4, <2>1 DEF Smaller
  <1>. QED  BY <1>3, <1>5

LEMMA MaxIsLast ==
  ASSUME NEW n \in Nat, NEW s \in SUBSET (1 .. n + 1), n + 1 \in s
  PROVE  Max(s) = n + 1
  <1>1. \A y \in s : n + 1 >= y
    OBVIOUS
  <1>2. \A x \in s : (\A y \in s : x >= y) => x = n + 1
    OBVIOUS
  <1>. QED  BY <1>1, <1>2 DEF Max

LEMMA MaxIsIn ==
  ASSUME NEW n \in Nat, NEW s \in SUBSET (1 .. n), s # {}
  PROVE  Max(s) \in s
  <1>. DEFINE HasMax(m) == \A t \in SUBSET (1 .. m) :
                              t # {} => \E x \in t : \A y \in t : x >= y
              T == {m \in 0 .. n : HasMax(m)}
  <1>1. HasMax(0)
    <2>1. 1 .. 0 = {}
      OBVIOUS
    <2>. QED  BY <2>1
  <1>2. ASSUME NEW m \in 0 .. n - 1, HasMax(m)
        PROVE  HasMax(m + 1)
    <2>. SUFFICES ASSUME NEW t \in SUBSET (1 .. m + 1), t # {}
                  PROVE  \E x \in t : \A y \in t : x >= y
      OBVIOUS
    <2>1. CASE m + 1 \in t
      BY <2>1
    <2>2. CASE m + 1 \notin t
      <3>1. t \in SUBSET (1 .. m)
        BY <2>2
      <3>. QED  BY <1>2, <3>1
    <2>. QED  BY <2>1, <2>2
  <1>3. HasMax(n)
    <2>1. 0 \in T /\ \A i \in 0 .. n - 1 : i \in T => i + 1 \in T
      BY <1>1, <1>2
    <2>2. n \in T
      <3>. HIDE DEF T
      <3>. QED  BY <2>1, UpTo
    <2>. QED  BY <2>2
  <1>. QED  BY <1>3 DEF Max

\* The partial results of a fold, on the sets of places that were visited, when
\* the operator is a function F of the result so far and the place.
PartialFolds(F, base, D, n) ==
    {it \in [SUBSET (1 .. n) -> D] :
        \A s \in SUBSET (1 .. n) :
            it[s] = IF s = {} THEN base ELSE F[<<it[s \ {Max(s)}], Max(s)>>]}

\* They exist, whatever F is: those up to n give those up to n + 1.
LEMMA PartialFoldsExist ==
  ASSUME NEW n \in Nat, NEW D, NEW base \in D, NEW F \in [D \X (1 .. n) -> D]
  PROVE  PartialFolds(F, base, D, n) # {}
  <1>. DEFINE T == {m \in 0 .. n : PartialFolds(F, base, D, m) # {}}
  <1>1. 0 \in T
    <2>1. [s \in SUBSET (1 .. 0) |-> base] \in PartialFolds(F, base, D, 0)
      BY DEF PartialFolds
    <2>. QED  BY <2>1
  <1>2. ASSUME NEW m \in 0 .. n - 1, m \in T
        PROVE  m + 1 \in T
    <2>1. PICK it \in PartialFolds(F, base, D, m) : TRUE
      BY <1>2
    <2>. DEFINE more == [s \in SUBSET (1 .. m + 1) |->
                            IF m + 1 \in s THEN F[<<it[s \ {m + 1}], m + 1>>] ELSE it[s]]
    <2>2. \A s \in SUBSET (1 .. m + 1) :
             /\ m + 1 \in s => s \ {m + 1} \in SUBSET (1 .. m)
             /\ m + 1 \notin s => s \in SUBSET (1 .. m)
      OBVIOUS
    <2>3. more \in [SUBSET (1 .. m + 1) -> D]
      <3>1. m + 1 \in 1 .. n
        OBVIOUS
      <3>. QED  BY <2>1, <2>2, <3>1 DEF PartialFolds
    <2>4. ASSUME NEW s \in SUBSET (1 .. m + 1), s # {}
          PROVE  more[s] = F[<<more[s \ {Max(s)}], Max(s)>>]
      <3>1. CASE m + 1 \in s
        <4>1. Max(s) = m + 1
          BY <3>1, MaxIsLast
        <4>2. more[s \ {m + 1}] = it[s \ {m + 1}]
          OBVIOUS
        <4>. QED  BY <3>1, <4>1, <4>2
      <3>2. CASE m + 1 \notin s
        <4>1. s \in SUBSET (1 .. m) /\ m \in Nat
          BY <3>2
        <4>2. Max(s) \in s
          BY <4>1, <2>4, MaxIsIn
        <4>3. s \ {Max(s)} \in SUBSET (1 .. m + 1) /\ m + 1 \notin s \ {Max(s)}
          BY <3>2
        <4>4. more[s \ {Max(s)}] = it[s \ {Max(s)}] /\ more[s] = it[s]
          BY <3>2, <4>3
        <4>5. it[s] = F[<<it[s \ {Max(s)}], Max(s)>>]
          BY <2>1, <2>4, <4>1 DEF PartialFolds
        <4>. QED  BY <4>4, <4>5
      <3>. QED  BY <3>1, <3>2
    <2>5. more[{}] = base
      <3>1. it[{}] = base
        BY <2>1 DEF PartialFolds
      <3>. QED  BY <3>1
    <2>6. more \in PartialFolds(F, base, D, m + 1)
      <3>. HIDE DEF more
      <3>. QED  BY <2>3, <2>4, <2>5 DEF PartialFolds
    <2>. QED  BY <2>6
  <1>3. n \in T
    <2>. HIDE DEF T
    <2>. QED  BY <1>1, <1>2, UpTo
  <1>. QED  BY <1>3

\* A fold visits the places in order.
LEMMA InOrder ==
  ASSUME NEW n \in Nat, NEW i \in 1 .. n
  PROVE  /\ Max(1 .. i) = i /\ (1 .. i) \ {i} = 1 .. i - 1 /\ 1 .. i # {}
         /\ 1 .. i \in SUBSET (1 .. n)
  <1>. DEFINE m == i - 1
  <1>1. m \in Nat /\ 1 .. i \in SUBSET (1 .. m + 1) /\ m + 1 \in 1 .. i /\ i = m + 1
    OBVIOUS
  <1>2. Max(1 .. i) = i
    <2>. HIDE DEF m
    <2>. QED  BY <1>1, MaxIsLast
  <1>. QED  BY <1>1, <1>2

-----------------------------------------------------------------------------
(***************************************************************************)
(* ResolvePoolName, for any table and any key.                             *)
(***************************************************************************)
\* The candidates of the loop: best[i] is the one after i rules.
LEMMA ResolveSteps ==
  ASSUME NEW R, NEW rules \in Seq(R), NEW key
  PROVE  \E best \in [0 .. Len(rules) -> R \cup {NoRule}] :
            /\ best[0] = NoRule
            /\ \A i \in 1 .. Len(rules) : best[i] = Better(key, best[i - 1], rules[i])
            /\ ResolvePoolName(rules, key) = best[Len(rules)]
  <1>. DEFINE n == Len(rules)
              D == R \cup {NoRule}
              IsFold(it) ==
                  it = [s \in SUBSET (1 .. n) |->
                          IF s = {} THEN NoRule
                          ELSE Better(key, it[s \ {Max(s)}], rules[Max(s)])]
              F == [p \in D \X (1 .. n) |-> Better(key, p[1], rules[p[2]])]
  <1>1. n \in Nat /\ DOMAIN rules = 1 .. n /\ \A i \in 1 .. n : rules[i] \in R
    OBVIOUS
  <1>2. ResolvePoolName(rules, key) = (CHOOSE it : IsFold(it))[1 .. n]
    BY <1>1 DEF ResolvePoolName, FoldLeft, MapThenFoldSet
  <1>3. \E it : IsFold(it)
    <2>1. F \in [D \X (1 .. n) -> D] /\ NoRule \in D
      BY <1>1 DEF Better
    <2>2. PICK it \in PartialFolds(F, NoRule, D, n) : TRUE
      <3>. HIDE DEF n, F, D
      <3>. QED  BY <1>1, <2>1, PartialFoldsExist
    <2>3. ASSUME NEW s \in SUBSET (1 .. n), s # {}
          PROVE  F[<<it[s \ {Max(s)}], Max(s)>>]
                    = Better(key, it[s \ {Max(s)}], rules[Max(s)])
      <3>1. Max(s) \in 1 .. n
        <4>. HIDE DEF n
        <4>. QED  BY <1>1, <2>3, MaxIsIn
      <3>2. it[s \ {Max(s)}] \in D
        BY <2>2 DEF PartialFolds
      <3>. QED  BY <3>1, <3>2
    <2>4. IsFold(it)
      <3>. HIDE DEF n, F, D
      <3>. QED  BY <2>2, <2>3 DEF PartialFolds
    <2>. QED  BY <2>4
  <1>4. PICK it : IsFold(it) /\ ResolvePoolName(rules, key) = it[1 .. n]
    BY <1>2, <1>3
  <1>. DEFINE best == [i \in 0 .. n |-> it[1 .. i]]
              T == {i \in 0 .. n : best[i] \in D}
  <1>5. best[0] = NoRule /\ best[n] = it[1 .. n]
    BY <1>1, <1>4
  <1>6. ASSUME NEW i \in 1 .. n
        PROVE  best[i] = Better(key, best[i - 1], rules[i])
    <2>1. it[1 .. i] = Better(key, it[1 .. i - 1], rules[i])
      <3>. HIDE DEF n
      <3>. QED  BY <1>1, <1>4, InOrder
    <2>. QED  BY <1>1, <2>1
  <1>7. ASSUME NEW i \in 0 .. n - 1, i \in T
        PROVE  i + 1 \in T
    <2>1. i + 1 \in 1 .. n /\ (i + 1) - 1 = i
      BY <1>1
    <2>2. best[i + 1] = Better(key, best[(i + 1) - 1], rules[i + 1])
      <3>. HIDE DEF best, n
      <3>. QED  BY <1>6, <2>1
    <2>3. best[i] \in D /\ rules[i + 1] \in D
      BY <1>1, <1>7, <2>1
    <2>4. best[i + 1] \in D
      <3>. HIDE DEF best, n, D
      <3>. QED  BY <2>1, <2>2, <2>3 DEF Better
    <2>. QED  BY <1>1, <2>1, <2>4
  <1>8. best \in [0 .. n -> D]
    <2>1. \A i \in 0 .. n : i \in T
      <3>1. 0 \in T
        BY <1>1, <1>5
      <3>. HIDE DEF T, n
      <3>. QED  BY <1>1, <1>7, <3>1, UpTo
    <2>. QED  BY <2>1
  <1>. HIDE DEF best
  <1>. QED  BY <1>4, <1>5, <1>6, <1>8

\* What a table's key resolves to is one of its rules.
LEMMA ResolvedIsRule ==
  ASSUME NEW rules, rules \in Seq(ToSet(rules)), NEW key,
         ResolvePoolName(rules, key) # NoRule
  PROVE  \E i \in DOMAIN rules : ResolvePoolName(rules, key) = rules[i]
  <1>1. ResolvePoolName(rules, key) \in ToSet(rules) \cup {NoRule}
    <2>1. PICK best \in [0 .. Len(rules) -> ToSet(rules) \cup {NoRule}] :
             ResolvePoolName(rules, key) = best[Len(rules)]
      BY ResolveSteps
    <2>2. Len(rules) \in 0 .. Len(rules)
      OBVIOUS
    <2>. QED  BY <2>1, <2>2
  <1>. QED  BY <1>1 DEF ToSet

\* The rules among the first i that match a key, and the first of the longest.
MatchesUpTo(rules, key, i) == {j \in 1 .. i : IsPrefix(rules[j].prefix, key)}

IsFirstLongest(rules, M, m) ==
    /\ m \in M
    /\ \A j \in M : /\ Len(rules[j].prefix) <= Len(rules[m].prefix)
                    /\ Len(rules[j].prefix) = Len(rules[m].prefix) => m <= j

BestOf(rules, M, rule) ==
    IF M = {} THEN rule = NoRule
    ELSE \E m \in M : rule = rules[m] /\ IsFirstLongest(rules, M, m)

\* One turn of the loop.
LEMMA BetterIsBest ==
  ASSUME NEW P, NEW rules, NEW key \in Seq(P), NEW i \in Nat,
         \A j \in 1 .. i + 1 : rules[j].prefix \in Seq(P) /\ rules[j] # NoRule,
         NEW best,
         BestOf(rules, MatchesUpTo(rules, key, i), best)
  PROVE  BestOf(rules, MatchesUpTo(rules, key, i + 1), Better(key, best, rules[i + 1]))
  <1>. DEFINE rule == rules[i + 1]
              M == MatchesUpTo(rules, key, i)
              N == MatchesUpTo(rules, key, i + 1)
              L(j) == Len(rules[j].prefix)
  <1>1. /\ i + 1 \in 1 .. i + 1 /\ rule.prefix \in Seq(P)
        /\ \A j \in 1 .. i + 1 : L(j) \in Nat /\ rules[j] # NoRule
    OBVIOUS
  <1>2. /\ N = IF IsPrefix(rule.prefix, key) THEN M \cup {i + 1} ELSE M
        /\ M \subseteq 1 .. i
    BY DEF MatchesUpTo
  <1>3. rule.prefix = <<>> <=> L(i + 1) = 0
    BY <1>1
  <1>4. rule.prefix = <<>> => IsPrefix(rule.prefix, key)
    BY <1>1 DEF IsPrefix
  <1>5. best = NoRule <=> M = {}
    BY <1>1, <1>2 DEF BestOf
  <1>. HIDE DEF M, N
  <1>6. CASE M = {}
    <2>1. CASE IsPrefix(rule.prefix, key)
      <3>1. Better(key, best, rule) = rule /\ N = {i + 1}
        BY <1>2, <1>5, <1>6, <2>1 DEF Better
      <3>2. IsFirstLongest(rules, N, i + 1)
        BY <1>1, <3>1 DEF IsFirstLongest
      <3>. QED  BY <3>1, <3>2 DEF BestOf, N
    <2>2. CASE ~IsPrefix(rule.prefix, key)
      <3>1. Better(key, best, rule) = NoRule /\ N = {}
        BY <1>2, <1>4, <1>5, <1>6, <2>2 DEF Better
      <3>. QED  BY <3>1 DEF BestOf, N
    <2>. QED  BY <2>1, <2>2
  <1>7. CASE M # {}
    <2>1. PICK m \in M : best = rules[m] /\ IsFirstLongest(rules, M, m)
      BY <1>7 DEF BestOf, M
    <2>2. best # NoRule /\ m \in 1 .. i /\ L(m) \in Nat /\ L(i + 1) \in Nat
      BY <1>1, <1>2, <2>1
    <2>3. CASE IsPrefix(rule.prefix, key) /\ L(i + 1) > L(m)
      <3>1. Better(key, best, rule) = rule /\ i + 1 \in N /\ N = M \cup {i + 1}
        BY <1>2, <1>3, <2>1, <2>2, <2>3 DEF Better
      <3>2. \A j \in M : L(j) \in Nat /\ L(j) <= L(m)
        BY <1>1, <1>2, <2>1 DEF IsFirstLongest
      <3>3. \A j \in N : j = i + 1 \/ (L(j) \in Nat /\ L(j) < L(i + 1))
        <4>. TAKE j \in N
        <4>1. CASE j \in M
          <5>. DEFINE lj == L(j)
                      lm == L(m)
                      li == L(i + 1)
          <5>1. lj \in Nat /\ lj <= lm /\ lm \in Nat /\ li \in Nat /\ li > lm
            BY <2>2, <2>3, <3>2, <4>1
          <5>2. lj \in Nat /\ lj < li
            <6>. HIDE DEF lj, lm, li
            <6>. QED  BY <5>1
          <5>. QED  BY <5>2
        <4>. QED  BY <3>1, <4>1
      <3>4. IsFirstLongest(rules, N, i + 1)
        BY <2>2, <3>1, <3>3 DEF IsFirstLongest
      <3>. QED  BY <3>1, <3>4 DEF BestOf, N
    <2>4. CASE ~(IsPrefix(rule.prefix, key) /\ L(i + 1) > L(m))
      <3>1. Better(key, best, rule) = best
        BY <1>4, <2>1, <2>2, <2>4 DEF Better
      <3>2. IsPrefix(rule.prefix, key) => L(i + 1) <= L(m)
        BY <2>2, <2>4
      <3>3. \A j \in N : j \in M \/ (j = i + 1 /\ L(i + 1) <= L(m) /\ m < i + 1)
        BY <1>2, <2>2, <3>2
      <3>4. IsFirstLongest(rules, N, m)
        <4>1. m \in N
          BY <1>2, <2>1
        <4>2. ASSUME NEW j \in N
              PROVE  /\ L(j) <= L(m)
                     /\ L(j) = L(m) => m <= j
          <5>1. CASE j \in M
            BY <2>1, <5>1 DEF IsFirstLongest
          <5>2. CASE j = i + 1 /\ L(i + 1) <= L(m) /\ m < i + 1
            BY <2>2, <5>2
          <5>. QED  BY <3>3, <5>1, <5>2
        <4>. QED  BY <4>1, <4>2 DEF IsFirstLongest
      <3>. QED  BY <2>1, <3>1, <3>4 DEF BestOf, N, IsFirstLongest
    <2>. QED  BY <2>3, <2>4
  <1>. QED  BY <1>6, <1>7

\* The loop finds the first of the longest matches in every table.
LEMMA ResolveIsFirstLongest ==
  ASSUME NEW P, NEW R, NEW rules \in Seq(R), NEW key \in Seq(P),
         \A j \in DOMAIN rules : rules[j].prefix \in Seq(P) /\ rules[j] # NoRule
  PROVE  ResolvePoolName(rules, key) = FirstLongest(rules, key)
  <1>. DEFINE n == Len(rules)
              M == Matches(rules, key)
  <1>1. n \in Nat /\ DOMAIN rules = 1 .. n
        /\ \A j \in 1 .. n : rules[j].prefix \in Seq(P) /\ rules[j] # NoRule
    OBVIOUS
  <1>2. PICK best : /\ best[0] = NoRule
                    /\ \A i \in 1 .. n : best[i] = Better(key, best[i - 1], rules[i])
                    /\ ResolvePoolName(rules, key) = best[n]
    BY ResolveSteps
  <1>. DEFINE T == {i \in 0 .. n : BestOf(rules, MatchesUpTo(rules, key, i), best[i])}
  <1>3. 0 \in T
    BY <1>1, <1>2 DEF BestOf, MatchesUpTo
  <1>4. ASSUME NEW i \in 0 .. n - 1, i \in T
        PROVE  i + 1 \in T
    <2>1. i + 1 \in 1 .. n /\ i + 1 \in 0 .. n /\ (i + 1) - 1 = i
      BY <1>1
    <2>2. best[i + 1] = Better(key, best[i], rules[i + 1])
      BY <1>2, <2>1
    <2>3. BestOf(rules, MatchesUpTo(rules, key, i), best[i])
      BY <1>4
    <2>4. \A j \in 1 .. i + 1 : rules[j].prefix \in Seq(P) /\ rules[j] # NoRule
      BY <1>1
    <2>5. BestOf(rules, MatchesUpTo(rules, key, i + 1), best[i + 1])
      <3>1. i \in Nat
        BY <1>1
      <3>. QED  BY <2>2, <2>3, <2>4, <3>1, BetterIsBest
    <2>. QED  BY <2>1, <2>5
  <1>5. BestOf(rules, M, ResolvePoolName(rules, key))
    <2>1. n \in T
      <3>1. n \in 0 .. n
        BY <1>1
      <3>. HIDE DEF T, n
      <3>. QED  BY <1>1, <1>3, <1>4, <3>1, UpTo
    <2>2. MatchesUpTo(rules, key, n) = M
      BY <1>1 DEF MatchesUpTo, Matches
    <2>. QED  BY <1>2, <2>1, <2>2
  <1>6. CASE M = {}
    BY <1>5, <1>6 DEF BestOf, FirstLongest
  <1>7. CASE M # {}
    <2>1. PICK m \in M : /\ ResolvePoolName(rules, key) = rules[m]
                         /\ IsFirstLongest(rules, M, m)
      BY <1>5, <1>7 DEF BestOf
    <2>2. \A j \in M : j \in 1 .. n /\ Len(rules[j].prefix) \in Nat
      BY <1>1 DEF Matches
    <2>. DEFINE LM == LongestMatches(rules, key)
    <2>3. m \in LM /\ \A j \in LM : m <= j
      BY <2>1, <2>2 DEF LongestMatches, IsFirstLongest
    <2>4. (CHOOSE i \in LM : \A j \in LM : i <= j) = m
      <3>1. LM \subseteq 1 .. n
        BY <2>2 DEF LongestMatches
      <3>. HIDE DEF LM
      <3>2. \A i \in LM : (\A j \in LM : i <= j) => i = m
        BY <2>3, <3>1
      <3>. QED  BY <2>3, <3>2
    <2>. QED  BY <1>7, <2>1, <2>4 DEF FirstLongest
  <1>. QED  BY <1>6, <1>7

\* Among the tables of any length, over any letters and pools.
THEOREM LongestAlwaysWins == TableSpec => []LongestPrefixWins
  <1>. DEFINE Typed == table \in Seq(Rule)
  <1>1. TableInit => Typed
    BY DEF TableInit
  <1>2. Typed /\ [TableNext]_table => Typed'
    BY DEF TableNext
  <1>3. Typed => LongestPrefixWins
    <2>. SUFFICES ASSUME Typed, NEW key \in Words
                  PROVE  ResolvePoolName(table, key) = FirstLongest(table, key)
      BY DEF LongestPrefixWins
    <2>1. Words \subseteq Seq(Letters)
      BY DEF Words
    <2>2. \A j \in DOMAIN table : table[j] \in Rule
      OBVIOUS
    <2>3. \A j \in DOMAIN table : table[j].prefix \in Seq(Letters) /\ table[j] # NoRule
      BY <2>1, <2>2, RuleAssumption DEF Rule
    <2>. QED  BY <2>1, <2>3, ResolveIsFirstLongest
  <1>. QED  BY <1>1, <1>2, <1>3, PTL DEF TableSpec

-----------------------------------------------------------------------------
(***************************************************************************)
(* The routing goroutine.                                                  *)
(***************************************************************************)
Early == at \in {"start_mysql", "start_redis", "new_router", "open"}
Reloading == at \in {"reload_mysql", "reload_redis", "store_mysql", "store_redis"}

\* Nothing is told before the watch is opened, and reloads follow an event.
ToldWhileWatching ==
    /\ Early => ~told
    /\ Reloading => told

\* Until the first event the tables are those NewRouter has accepted.
RoutesChecked == ~told /\ Serving => PoolsKnown(mysqlRoutes) /\ PoolsKnown(redisRoutes)

\* The watch will tell of a change.
EventToCome == next <= rev

\* What a reload has read or stored is what etcd holds, or an event is still to
\* come that starts the next reload.
ReadOrToCome ==
    NoFault =>
        /\ at \in {"reload_redis", "store_mysql"} => loaded.mysql = mysqlKey \/ EventToCome
        /\ at = "store_redis" => mysqlRoutes = mysqlKey \/ EventToCome
        /\ at \in {"store_mysql", "store_redis"} => loaded.redis = redisKey \/ EventToCome
        /\ at = "watching" /\ told => Current \/ EventToCome
        /\ at # "blind"

\* The watch is at most one revision ahead.
Ahead == next <= rev + 1

\* The inductive invariant.
IInv == TypeOK /\ ToldWhileWatching /\ RoutesChecked /\ Ahead /\ ReadOrToCome

LEMMA Bounds == MaxRev \in Nat /\ MaxRev > 0 /\ MaxDrops \in Nat /\ MaxFailures \in Nat
  BY DsAssumption

LEMMA InitIInv == Init => IInv
  <1>. SUFFICES ASSUME Init PROVE IInv
    OBVIOUS
  <1>1. TypeOK
    <2>1. loaded \in [mysql : Tables \cup {<<>>}, redis : Tables \cup {<<>>}]
      BY DEF Init, Nothing
    <2>2. /\ rev \in 1 .. MaxRev /\ next \in 0 .. MaxRev + 1
          /\ drops \in 0 .. MaxDrops /\ failures \in 0 .. MaxFailures
      BY Bounds DEF Init
    <2>. QED  BY <2>1, <2>2 DEF Init, TypeOK
  <1>2. ToldWhileWatching /\ RoutesChecked /\ Ahead /\ ReadOrToCome
    BY DEF Init, ToldWhileWatching, Early, Reloading, RoutesChecked, Serving, Ahead, ReadOrToCome
  <1>. QED  BY <1>1, <1>2 DEF IInv

\* A change of a key is an event the watch has yet to tell of.
LEMMA WriteKeeps ==
  ASSUME IInv, NEW value \in Tables \cup {Bad}, Write(value)
  PROVE  IInv'
  <1>1. /\ rev' = rev + 1 /\ rev < MaxRev /\ rev \in Nat /\ next \in Nat /\ next <= rev + 1
        /\ UNCHANGED <<at, loaded, next, told, mysqlRoutes, redisRoutes, drops, failures>>
        /\ mysqlKey' \in Tables \cup {Bad} /\ redisKey' \in Tables \cup {Bad}
    BY Bounds DEF Write, routerVars, IInv, TypeOK, Ahead
  <1>2. TypeOK'
    BY <1>1, Bounds DEF IInv, TypeOK
  <1>3. ToldWhileWatching' /\ RoutesChecked'
    BY <1>1 DEF IInv, ToldWhileWatching, Early, Reloading, RoutesChecked, Serving
  <1>4. Ahead' /\ EventToCome'
    BY <1>1 DEF Ahead, EventToCome
  <1>5. ReadOrToCome'
    BY <1>1, <1>4 DEF IInv, ReadOrToCome, NoFault
  <1>. QED  BY <1>2, <1>3, <1>4, <1>5 DEF IInv

\* Get of the first key, at start-up or in a reload.
LEMMA GetMysqlKeeps ==
  ASSUME IInv,
         \/ GetMysql("start_mysql", "start_redis")
         \/ GetMysql("reload_mysql", "reload_redis")
  PROVE  IInv'
  <1>1. /\ UNCHANGED <<mysqlKey, redisKey, rev, next, told, mysqlRoutes, redisRoutes,
                       drops, failures>>
        /\ \/ mysqlKey = Bad /\ loaded' = loaded
           \/ mysqlKey # Bad /\ loaded' = [loaded EXCEPT !.mysql = mysqlKey]
        /\ \/ at = "start_mysql" /\ at' = IF mysqlKey = Bad THEN "exited" ELSE "start_redis"
           \/ at = "reload_mysql" /\ at' = IF mysqlKey = Bad THEN "watching" ELSE "reload_redis"
    BY DEF GetMysql, Failed, etcdVars, routerVars
  <1>2. TypeOK'
    BY <1>1 DEF IInv, TypeOK
  <1>3. ToldWhileWatching' /\ RoutesChecked' /\ Ahead'
    BY <1>1 DEF IInv, ToldWhileWatching, Early, Reloading, RoutesChecked, Serving, Ahead
  <1>4. ReadOrToCome'
    BY <1>1 DEF IInv, TypeOK, ReadOrToCome, NoFault, EventToCome, Current,
       ToldWhileWatching, Early
  <1>. QED  BY <1>2, <1>3, <1>4 DEF IInv

\* Get of the second key.
LEMMA GetRedisKeeps ==
  ASSUME IInv,
         \/ GetRedis("start_redis", "new_router")
         \/ GetRedis("reload_redis", "store_mysql")
  PROVE  IInv'
  <1>1. /\ UNCHANGED <<mysqlKey, redisKey, rev, next, told, mysqlRoutes, redisRoutes,
                       drops, failures>>
        /\ \/ redisKey = Bad /\ loaded' = loaded
           \/ redisKey # Bad /\ loaded' = [loaded EXCEPT !.redis = redisKey]
        /\ \/ at = "start_redis" /\ at' = IF redisKey = Bad THEN "exited" ELSE "new_router"
           \/ at = "reload_redis" /\ at' = IF redisKey = Bad THEN "watching" ELSE "store_mysql"
    BY DEF GetRedis, Failed, etcdVars, routerVars
  <1>2. TypeOK'
    BY <1>1 DEF IInv, TypeOK
  <1>3. ToldWhileWatching' /\ RoutesChecked' /\ Ahead'
    BY <1>1 DEF IInv, ToldWhileWatching, Early, Reloading, RoutesChecked, Serving, Ahead
  <1>4. ReadOrToCome'
    BY <1>1 DEF IInv, TypeOK, ReadOrToCome, NoFault, EventToCome, Current,
       ToldWhileWatching, Early
  <1>. QED  BY <1>2, <1>3, <1>4 DEF IInv

\* From the first failure on ReadOrToCome promises nothing.
LEMMA FaultKeeps ==
  ASSUME IInv, GetFails \/ WatchEnds
  PROVE  IInv'
  <1>1. /\ UNCHANGED <<mysqlKey, redisKey, rev, loaded, next, told, mysqlRoutes, redisRoutes>>
        /\ \/ drops \in 1 .. MaxDrops /\ drops' = drops - 1 /\ failures' = failures
           \/ failures \in 1 .. MaxFailures /\ failures' = failures - 1 /\ drops' = drops
        /\ \/ at \in {"start_mysql", "start_redis"} /\ at' = "exited"
           \/ at \in {"reload_mysql", "reload_redis"} /\ at' = "watching"
           \/ at = "watching" /\ at' = "blind"
    BY Bounds DEF GetFails, WatchEnds, Failed, etcdVars, routerVars, IInv, TypeOK
  <1>2. TypeOK' /\ ~NoFault'
    BY <1>1, Bounds DEF IInv, TypeOK, NoFault
  <1>3. ToldWhileWatching' /\ RoutesChecked' /\ Ahead'
    BY <1>1 DEF IInv, ToldWhileWatching, Early, Reloading, RoutesChecked, Serving, Ahead
  <1>. QED  BY <1>2, <1>3 DEF IInv, ReadOrToCome

\* What NewRouter accepts names pools the service has.
LEMMA NewRouterKeeps ==
  ASSUME IInv, NewRouter
  PROVE  IInv'
  <1>1. /\ UNCHANGED <<mysqlKey, redisKey, rev, next, told, drops, failures>>
        /\ at = "new_router" /\ at' \in {"open", "exited"} /\ loaded' = Nothing
        /\ at' = "open" => /\ PoolsKnown(loaded.mysql) /\ PoolsKnown(loaded.redis)
                           /\ mysqlRoutes' = loaded.mysql /\ redisRoutes' = loaded.redis
        /\ at' = "exited" => UNCHANGED <<mysqlRoutes, redisRoutes>>
    BY DEF NewRouter, Acceptable, etcdVars, routerVars
  <1>2. TypeOK'
    BY <1>1 DEF IInv, TypeOK, Nothing
  <1>3. ToldWhileWatching' /\ RoutesChecked' /\ Ahead'
    BY <1>1 DEF IInv, ToldWhileWatching, Early, Reloading, RoutesChecked, Serving, Ahead
  <1>4. ReadOrToCome'
    BY <1>1 DEF ReadOrToCome
  <1>. QED  BY <1>2, <1>3, <1>4 DEF IInv

LEMMA OpenWatchKeeps ==
  ASSUME IInv, OpenWatch
  PROVE  IInv'
  <1>1. /\ UNCHANGED <<mysqlKey, redisKey, rev, loaded, told, mysqlRoutes, redisRoutes,
                       drops, failures>>
        /\ at = "open" /\ at' = "watching" /\ next' = rev + 1
    BY DEF OpenWatch, etcdVars, routerVars
  <1>2. TypeOK'
    BY <1>1, Bounds DEF IInv, TypeOK
  <1>3. ToldWhileWatching' /\ RoutesChecked' /\ Ahead'
    BY <1>1, <1>2 DEF IInv, TypeOK, ToldWhileWatching, Early, Reloading, RoutesChecked,
       Serving, Ahead
  <1>4. ReadOrToCome'
    BY <1>1 DEF IInv, ToldWhileWatching, Early, ReadOrToCome
  <1>. QED  BY <1>2, <1>3, <1>4 DEF IInv

LEMMA WatchResponseKeeps ==
  ASSUME IInv, WatchResponse
  PROVE  IInv'
  <1>1. /\ UNCHANGED <<mysqlKey, redisKey, rev, loaded, mysqlRoutes, redisRoutes,
                       drops, failures>>
        /\ at = "watching" /\ at' = "reload_mysql" /\ told' = TRUE
        /\ next' \in next + 1 .. rev + 1
    BY DEF WatchResponse, etcdVars, routerVars
  <1>2. TypeOK' /\ Ahead'
    BY <1>1, Bounds DEF IInv, TypeOK, Ahead
  <1>3. ToldWhileWatching' /\ RoutesChecked' /\ ReadOrToCome'
    BY <1>1 DEF ToldWhileWatching, Early, RoutesChecked, ReadOrToCome
  <1>. QED  BY <1>2, <1>3 DEF IInv

LEMMA StoreMysqlKeeps ==
  ASSUME IInv, StoreMysql
  PROVE  IInv'
  <1>1. /\ UNCHANGED <<mysqlKey, redisKey, rev, loaded, next, told, redisRoutes,
                       drops, failures>>
        /\ at = "store_mysql" /\ at' = "store_redis" /\ mysqlRoutes' = loaded.mysql
    BY DEF StoreMysql, etcdVars
  <1>2. TypeOK' /\ Ahead'
    BY <1>1 DEF IInv, TypeOK, Ahead
  <1>3. ToldWhileWatching' /\ RoutesChecked'
    BY <1>1 DEF IInv, ToldWhileWatching, Early, Reloading, RoutesChecked
  <1>4. ReadOrToCome'
    BY <1>1 DEF IInv, ReadOrToCome, NoFault, EventToCome
  <1>. QED  BY <1>2, <1>3, <1>4 DEF IInv

LEMMA StoreRedisKeeps ==
  ASSUME IInv, StoreRedis
  PROVE  IInv'
  <1>1. /\ UNCHANGED <<mysqlKey, redisKey, rev, next, told, mysqlRoutes, drops, failures>>
        /\ at = "store_redis" /\ at' = "watching"
        /\ redisRoutes' = loaded.redis /\ loaded' = Nothing
    BY DEF StoreRedis, etcdVars
  <1>2. TypeOK' /\ Ahead'
    BY <1>1 DEF IInv, TypeOK, Ahead, Nothing
  <1>3. ToldWhileWatching' /\ RoutesChecked'
    BY <1>1 DEF IInv, ToldWhileWatching, Early, Reloading, RoutesChecked
  <1>4. ReadOrToCome'
    BY <1>1 DEF IInv, ReadOrToCome, NoFault, EventToCome, Current
  <1>. QED  BY <1>2, <1>3, <1>4 DEF IInv

LEMMA NextKeeps == IInv /\ [Next]_vars => IInv'
  <1>. SUFFICES ASSUME IInv, [Next]_vars PROVE IInv'
    OBVIOUS
  <1>1. CASE UNCHANGED vars
    BY <1>1 DEF vars, etcdVars, routerVars, IInv, TypeOK, ToldWhileWatching, Early, Reloading,
       RoutesChecked, Serving, Ahead, ReadOrToCome, NoFault, EventToCome, Current
  <1>2. CASE Next
    BY <1>2, WriteKeeps, GetMysqlKeeps, GetRedisKeeps, FaultKeeps, NewRouterKeeps,
       OpenWatchKeeps, WatchResponseKeeps, StoreMysqlKeeps, StoreRedisKeeps DEF Next
  <1>. QED  BY <1>1, <1>2

THEOREM Invariant == Spec => []IInv
  BY InitIInv, NextKeeps, PTL DEF Spec

\* The variables keep their types, whatever the operator writes.
THEOREM TypeCorrect == Spec => []TypeOK
  <1>1. IInv => TypeOK
    BY DEF IInv
  <1>. QED  BY <1>1, Invariant, PTL

\* What a service starts with resolves every key to a pool it has, in tables of
\* any length and whatever is written while it starts.
THEOREM AlwaysStartedSafely == Spec => []StartedSafely
  <1>1. IInv => StartedSafely
    <2>. SUFFICES ASSUME IInv, Serving, ~told,
                         NEW key \in Keys, NEW rules \in {mysqlRoutes, redisRoutes},
                         ResolvePoolName(rules, key) # NoRule
                  PROVE  ResolvePoolName(rules, key).pool \in Pools
      BY DEF StartedSafely
    <2>1. rules \in Tables \cup {<<>>} /\ PoolsKnown(rules)
      BY DEF IInv, TypeOK, RoutesChecked
    <2>2. rules \in Seq(ToSet(rules))
      <3>1. CASE rules = <<>>
        BY <3>1 DEF ToSet
      <3>. QED  BY <2>1, <3>1, DsAssumption
    <2>. QED  BY <2>1, <2>2, ResolvedIsRule DEF PoolsKnown
  <1>. QED  BY <1>1, Invariant, PTL

\* From the first event on, a service at rest routes by what etcd holds, as
\* long as no read failed and no watch ended.
THEOREM RefreshedStaysCurrent == Spec => []RefreshedIsCurrent
  <1>1. IInv => RefreshedIsCurrent
    BY DEF IInv, TypeOK, RefreshedIsCurrent, Quiescent, ReadOrToCome, EventToCome
  <1>. QED  BY <1>1, Invariant, PTL

==============================================================================
