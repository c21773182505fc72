--------------------------- MODULE ConfigToolProofs ---------------------------
(***************************************************************************)
(* For sheets of any shape and any options: what the tool leaves behind    *)
(* comes from a checked sheet, no cell or map entry of it is lost on the   *)
(* way, and every typed column decodes with the struct that is generated.  *)
(***************************************************************************)
EXTENDS ConfigTool, WellFoundedInduction, FiniteSetTheorems, TLAPS

-----------------------------------------------------------------------------
(***************************************************************************)
(* Folds over sequences, from the definition of FoldLeft.                  *)
(***************************************************************************)
Smaller == {p \in Nat \X Nat : p[1] < p[2]}

\* Induction up to n: a set that holds 0, and with each number below n the
\* next one, holds them all.  (There is no smallest number that it misses.)
LEMMA UpTo ==
  ASSUME NEW n \in Nat, NEW T, 0 \in T, \A i \in 0 .. n - 1 : i \in T => i + 1 \in T
  PROVE  \A i \in 0 .. n : i \in T
  <1>. DEFINE Missed == {i \in 0 .. n : i \notin T}
  <1>. SUFFICES ASSUME Missed # {} PROVE FALSE
    OBVIOUS
  <1>1. IsWellFoundedOn(Smaller, Nat)
    BY NatLessThanWellFounded, Zenon DEF OpToRel, Smaller
  <1>2. \E i \in Missed : \A j \in Missed : <<j, i>> \notin Smaller
    <2>1. Missed \subseteq Nat
      OBVIOUS
    <2>. HIDE DEF Missed
    <2>. QED  BY <1>1, <2>1, WFMin
  <1>3. PICK i \in 0 .. n : i \notin T /\ \A j \in Missed : <<j, i>> \notin Smaller
    BY <1>2
  <1>4. i - 1 \in 0 .. n - 1 /\ i - 1 \notin T
    BY <1>3
  <1>5. <<i - 1, i>> \in Smaller /\ i - 1 \in Missed
    <2>1. i \in Nat /\ i - 1 \in Nat /\ i - 1 < i
      BY <1>4
    <2>. QED  BY <1>4, <2>1 DEF Smaller
  <1>. QED  BY <1>3, <1>5

LEMMA MaxIsLast ==
  ASSUME NEW n \in Nat, NEW s \in SUBSET (1 .. n + 1), n + 1 \in s
  PROVE  Max(s) = n + 1
  <1>1. \A y \in s : n + 1 >= y
    OBVIOUS
  <1>2. \A x \in s : (\A y \in s : x >= y) => x = n + 1
    OBVIOUS
  <1>. QED  BY <1>1, <1>2 DEF Max

LEMMA MaxIsIn ==
  ASSUME NEW n \in Nat, NEW s \in SUBSET (1 .. n), s # {}
  PROVE  Max(s) \in s
  <1>. DEFINE HasMax(m) == \A t \in SUBSET (1 .. m) :
                              t # {} => \E x \in t : \A y \in t : x >= y
              T == {m \in 0 .. n : HasMax(m)}
  <1>1. HasMax(0)
    <2>1. 1 .. 0 = {}
      OBVIOUS
    <2>. QED  BY <2>1
  <1>2. ASSUME NEW m \in 0 .. n - 1, HasMax(m)
        PROVE  HasMax(m + 1)
    <2>. SUFFICES ASSUME NEW t \in SUBSET (1 .. m + 1), t # {}
                  PROVE  \E x \in t : \A y \in t : x >= y
      OBVIOUS
    <2>1. CASE m + 1 \in t
      BY <2>1
    <2>2. CASE m + 1 \notin t
      <3>1. t \in SUBSET (1 .. m)
        BY <2>2
      <3>. QED  BY <1>2, <3>1
    <2>. QED  BY <2>1, <2>2
  <1>3. HasMax(n)
    <2>1. 0 \in T /\ \A i \in 0 .. n - 1 : i \in T => i + 1 \in T
      BY <1>1, <1>2
    <2>2. n \in T
      <3>. HIDE DEF T
      <3>. QED  BY <2>1, UpTo
    <2>. QED  BY <2>2
  <1>. QED  BY <1>3 DEF Max

\* The partial results of a fold, on the sets of places that were visited, when
\* the operator is a function F of the result so far and the place.
PartialFolds(F, base, D, n) ==
    {it \in [SUBSET (1 .. n) -> D] :
        \A s \in SUBSET (1 .. n) :
            it[s] = IF s = {} THEN base ELSE F[<<it[s \ {Max(s)}], Max(s)>>]}

\* They exist, whatever F is: those up to n give those up to n + 1.
LEMMA PartialFoldsExist ==
  ASSUME NEW n \in Nat, NEW D, NEW base \in D, NEW F \in [D \X (1 .. n) -> D]
  PROVE  PartialFolds(F, base, D, n) # {}
  <1>. DEFINE T == {m \in 0 .. n : PartialFolds(F, base, D, m) # {}}
  <1>1. 0 \in T
    <2>1. [s \in SUBSET (1 .. 0) |-> base] \in PartialFolds(F, base, D, 0)
      BY DEF PartialFolds
    <2>. QED  BY <2>1
  <1>2. ASSUME NEW m \in 0 .. n - 1, m \in T
        PROVE  m + 1 \in T
    <2>1. PICK it \in PartialFolds(F, base, D, m) : TRUE
      BY <1>2
    <2>. DEFINE more == [s \in SUBSET (1 .. m + 1) |->
                            IF m + 1 \in s THEN F[<<it[s \ {m + 1}], m + 1>>] ELSE it[s]]
    <2>2. \A s \in SUBSET (1 .. m + 1) :
             /\ m + 1 \in s => s \ {m + 1} \in SUBSET (1 .. m)
             /\ m + 1 \notin s => s \in SUBSET (1 .. m)
      OBVIOUS
    <2>3. more \in [SUBSET (1 .. m + 1) -> D]
      <3>1. m + 1 \in 1 .. n
        OBVIOUS
      <3>. QED  BY <2>1, <2>2, <3>1 DEF PartialFolds
    <2>4. ASSUME NEW s \in SUBSET (1 .. m + 1), s # {}
          PROVE  more[s] = F[<<more[s \ {Max(s)}], Max(s)>>]
      <3>1. CASE m + 1 \in s
        <4>1. Max(s) = m + 1
          BY <3>1, MaxIsLast
        <4>2. more[s \ {m + 1}] = it[s \ {m + 1}]
          OBVIOUS
        <4>. QED  BY <3>1, <4>1, <4>2
      <3>2. CASE m + 1 \notin s
        <4>1. s \in SUBSET (1 .. m) /\ m \in Nat
          BY <3>2
        <4>2. Max(s) \in s
          BY <4>1, <2>4, MaxIsIn
        <4>3. s \ {Max(s)} \in SUBSET (1 .. m + 1) /\ m + 1 \notin s \ {Max(s)}
          BY <3>2
        <4>4. more[s \ {Max(s)}] = it[s \ {Max(s)}] /\ more[s] = it[s]
          BY <3>2, <4>3
        <4>5. it[s] = F[<<it[s \ {Max(s)}], Max(s)>>]
          BY <2>1, <2>4, <4>1 DEF PartialFolds
        <4>. QED  BY <4>4, <4>5
      <3>. QED  BY <3>1, <3>2
    <2>5. more[{}] = base
      <3>1. it[{}] = base
        BY <2>1 DEF PartialFolds
      <3>. QED  BY <3>1
    <2>6. more \in PartialFolds(F, base, D, m + 1)
      <3>. HIDE DEF more
      <3>. QED  BY <2>3, <2>4, <2>5 DEF PartialFolds
    <2>. QED  BY <2>6
  <1>3. n \in T
    <2>. HIDE DEF T
    <2>. QED  BY <1>1, <1>2, UpTo
  <1>. QED  BY <1>3

\* A fold visits the places in order.
LEMMA InOrder ==
  ASSUME NEW n \in Nat, NEW i \in 1 .. n
  PROVE  /\ Max(1 .. i) = i /\ (1 .. i) \ {i} = 1 .. i - 1 /\ 1 .. i # {}
         /\ 1 .. i \in SUBSET (1 .. n)
  <1>. DEFINE m == i - 1
  <1>1. m \in Nat /\ 1 .. i \in SUBSET (1 .. m + 1) /\ m + 1 \in 1 .. i /\ i = m + 1
    OBVIOUS
  <1>2. Max(1 .. i) = i
    <2>. HIDE DEF m
    <2>. QED  BY <1>1, MaxIsLast
  <1>. QED  BY <1>1, <1>2

\* What a fold has after each place it visits.
VisitsInOrder(it, F, base, D, n) ==
    /\ it[{}] = base
    /\ \A i \in 1 .. n : it[1 .. i - 1] \in D => it[1 .. i] = F[<<it[1 .. i - 1], i>>]

StepsOf(it, F, base, D, n) ==
    {steps \in [0 .. n -> D] :
        /\ steps[0] = base /\ steps[n] = it[1 .. n]
        /\ \A i \in 1 .. n : steps[i] = F[<<steps[i - 1], i>>]}

LEMMA FoldVisits ==
  ASSUME NEW n \in Nat, NEW D, NEW base \in D, NEW F \in [D \X (1 .. n) -> D], NEW it,
         VisitsInOrder(it, F, base, D, n)
  PROVE  StepsOf(it, F, base, D, n) # {}
  <1>. USE DEF VisitsInOrder
  <1>. DEFINE steps == [i \in 0 .. n |-> it[1 .. i]]
              T == {i \in 0 .. n : it[1 .. i] \in D}
  <1>1. it[1 .. 0] = base
    <2>1. 1 .. 0 = {}
      OBVIOUS
    <2>. QED  BY <2>1
  <1>2. ASSUME NEW i \in 0 .. n - 1, i \in T
        PROVE  i + 1 \in T
    <2>1. i + 1 \in 1 .. n /\ (i + 1) - 1 = i /\ it[1 .. i] \in D
      BY <1>2
    <2>2. it[1 .. i + 1] = F[<<it[1 .. i], i + 1>>]
      BY <2>1
    <2>3. it[1 .. i + 1] \in D
      BY <2>1, <2>2
    <2>. QED  BY <2>1, <2>3
  <1>3. \A i \in 0 .. n : it[1 .. i] \in D
    <2>1. 0 \in T
      BY <1>1
    <2>2. \A i \in 0 .. n : i \in T
      <3>. HIDE DEF T
      <3>. QED  BY <1>2, <2>1, UpTo
    <2>. QED  BY <2>2
  <1>4. steps \in [0 .. n -> D]
    BY <1>3
  <1>5. ASSUME NEW i \in 1 .. n
        PROVE  steps[i] = F[<<steps[i - 1], i>>]
    <2>1. i \in 0 .. n /\ i - 1 \in 0 .. n
      OBVIOUS
    <2>2. it[1 .. i] = F[<<it[1 .. i - 1], i>>]
      BY <1>3, <2>1
    <2>. QED  BY <2>1, <2>2
  <1>6. steps[0] = base /\ steps[n] = it[1 .. n]
    BY <1>1
  <1>. HIDE DEF steps
  <1>7. steps \in StepsOf(it, F, base, D, n)
    BY <1>4, <1>5, <1>6 DEF StepsOf
  <1>. QED  BY <1>7

-----------------------------------------------------------------------------
(***************************************************************************)
(* The cells of a sheet.                                                   *)
(***************************************************************************)
\* Only selects.
LEMMA OnlyIsSeq ==
  ASSUME NEW R, NEW seq \in Seq(R), NEW wanted
  PROVE  Only(seq, wanted) \in Seq(R \cap wanted)
  <1>. DEFINE n == Len(seq)
              D == Seq(R \cap wanted)
              Turn(kept, x) == IF x \in wanted THEN Append(kept, x) ELSE kept
              IsFold(it) ==
                  it = [s \in SUBSET (1 .. n) |->
                          IF s = {} THEN <<>> ELSE Turn(it[s \ {Max(s)}], seq[Max(s)])]
              F == [p \in D \X (1 .. n) |-> Turn(p[1], seq[p[2]])]
  <1>1. n \in Nat /\ DOMAIN seq = 1 .. n /\ \A i \in 1 .. n : seq[i] \in R
    OBVIOUS
  <1>2. Only(seq, wanted) = (CHOOSE it : IsFold(it))[1 .. n]
    BY <1>1 DEF Only, FoldLeft, MapThenFoldSet
  <1>3. F \in [D \X (1 .. n) -> D] /\ <<>> \in D
    BY <1>1
  <1>4. \E it : IsFold(it)
    <2>1. PICK it \in PartialFolds(F, <<>>, D, n) : TRUE
      <3>. HIDE DEF n, F, D
      <3>. QED  BY <1>1, <1>3, PartialFoldsExist
    <2>2. ASSUME NEW s \in SUBSET (1 .. n), s # {}
          PROVE  F[<<it[s \ {Max(s)}], Max(s)>>] = Turn(it[s \ {Max(s)}], seq[Max(s)])
      <3>1. Max(s) \in 1 .. n
        <4>. HIDE DEF n
        <4>. QED  BY <1>1, <2>2, MaxIsIn
      <3>2. it[s \ {Max(s)}] \in D
        BY <2>1 DEF PartialFolds
      <3>. QED  BY <3>1, <3>2
    <2>3. IsFold(it)
      <3>. HIDE DEF n, F, D, Turn
      <3>. QED  BY <2>1, <2>2 DEF PartialFolds
    <2>. QED  BY <2>3
  <1>5. PICK it : IsFold(it) /\ Only(seq, wanted) = it[1 .. n]
    BY <1>2, <1>4
  <1>6. it[{}] = <<>>
    BY <1>5
  <1>7. ASSUME NEW i \in 1 .. n, it[1 .. i - 1] \in D
        PROVE  it[1 .. i] = F[<<it[1 .. i - 1], i>>]
    <2>1. it[1 .. i] = Turn(it[1 .. i - 1], seq[i])
      <3>. HIDE DEF n, Turn
      <3>. QED  BY <1>1, <1>5, InOrder
    <2>. QED  BY <1>7, <2>1
  <1>. HIDE DEF n, F, D, Turn, IsFold
  <1>8. PICK steps \in StepsOf(it, F, <<>>, D, n) : TRUE
    <2>1. VisitsInOrder(it, F, <<>>, D, n)
      BY <1>6, <1>7 DEF VisitsInOrder
    <2>. QED  BY <1>1, <1>3, <2>1, FoldVisits
  <1>9. n \in 0 .. n
    BY <1>1
  <1>10. steps[n] \in D
    BY <1>8, <1>9 DEF StepsOf
  <1>. QED  BY <1>5, <1>8, <1>10 DEF D, StepsOf

\* Split cuts a text into one or more texts.
LEMMA SplitIsSeq ==
  ASSUME NEW R, NEW text \in Seq(R), NEW separator
  PROVE  Split(text, separator) \in Seq(Seq(R))
  <1>. DEFINE n == Len(text)
              D == Seq(Seq(R)) \ {<<>>}
              Turn(parts, c) == IF c = separator THEN Append(parts, <<>>)
                                ELSE [parts EXCEPT ![Len(parts)] = Append(@, c)]
              IsFold(it) ==
                  it = [s \in SUBSET (1 .. n) |->
                          IF s = {} THEN <<<<>>>> ELSE Turn(it[s \ {Max(s)}], text[Max(s)])]
              F == [p \in D \X (1 .. n) |-> Turn(p[1], text[p[2]])]
  <1>1. n \in Nat /\ DOMAIN text = 1 .. n /\ \A i \in 1 .. n : text[i] \in R
    OBVIOUS
  <1>2. Split(text, separator) = (CHOOSE it : IsFold(it))[1 .. n]
    BY <1>1 DEF Split, FoldLeft, MapThenFoldSet
  <1>3. F \in [D \X (1 .. n) -> D] /\ <<<<>>>> \in D
    <2>1. ASSUME NEW parts \in D, NEW c \in R
          PROVE  Turn(parts, c) \in D
      <3>1. parts \in Seq(Seq(R)) /\ Len(parts) \in 1 .. Len(parts) /\ <<>> \in Seq(R)
        OBVIOUS
      <3>2. Append(parts, <<>>) \in D
        BY <3>1
      <3>3. Append(parts[Len(parts)], c) \in Seq(R)
        BY <3>1
      <3>4. [parts EXCEPT ![Len(parts)] = Append(@, c)] \in D
        <4>. DEFINE more == [parts EXCEPT ![Len(parts)] = Append(@, c)]
        <4>1. more \in Seq(Seq(R)) /\ DOMAIN more = 1 .. Len(parts)
          BY <3>1, <3>3
        <4>. QED  BY <3>1, <4>1
      <3>. QED  BY <3>2, <3>4
    <2>2. <<<<>>>> \in D
      OBVIOUS
    <2>. HIDE DEF D, n, Turn
    <2>. QED  BY <1>1, <2>1, <2>2
  <1>4. \E it : IsFold(it)
    <2>1. PICK it \in PartialFolds(F, <<<<>>>>, D, n) : TRUE
      <3>. HIDE DEF n, F, D
      <3>. QED  BY <1>1, <1>3, PartialFoldsExist
    <2>2. ASSUME NEW s \in SUBSET (1 .. n), s # {}
          PROVE  F[<<it[s \ {Max(s)}], Max(s)>>] = Turn(it[s \ {Max(s)}], text[Max(s)])
      <3>1. Max(s) \in 1 .. n
        <4>. HIDE DEF n
        <4>. QED  BY <1>1, <2>2, MaxIsIn
      <3>2. it[s \ {Max(s)}] \in D
        BY <2>1 DEF PartialFolds
      <3>. HIDE DEF Turn, D
      <3>. QED  BY <3>1, <3>2
    <2>3. IsFold(it)
      <3>. HIDE DEF n, F, D, Turn
      <3>. QED  BY <2>1, <2>2 DEF PartialFolds
    <2>. QED  BY <2>3
  <1>5. PICK it : IsFold(it) /\ Split(text, separator) = it[1 .. n]
    BY <1>2, <1>4
  <1>6. it[{}] = <<<<>>>>
    BY <1>5
  <1>7. ASSUME NEW i \in 1 .. n, it[1 .. i - 1] \in D
        PROVE  it[1 .. i] = F[<<it[1 .. i - 1], i>>]
    <2>1. it[1 .. i] = Turn(it[1 .. i - 1], text[i])
      <3>. HIDE DEF n, Turn
      <3>. QED  BY <1>1, <1>5, InOrder
    <2>. HIDE DEF Turn, D
    <2>. QED  BY <1>7, <2>1
  <1>. HIDE DEF n, F, D, Turn, IsFold
  <1>8. PICK steps \in StepsOf(it, F, <<<<>>>>, D, n) : TRUE
    <2>1. VisitsInOrder(it, F, <<<<>>>>, D, n)
      BY <1>6, <1>7 DEF VisitsInOrder
    <2>. QED  BY <1>1, <1>3, <2>1, FoldVisits
  <1>9. n \in 0 .. n
    BY <1>1
  <1>10. steps[n] \in D
    BY <1>8, <1>9 DEF StepsOf
  <1>. QED  BY <1>5, <1>8, <1>10 DEF D, StepsOf

\* A map cell has a sequence of entries.
LEMMA EntriesIsSeq ==
  ASSUME NEW raw \in Seq(STRING)
  PROVE  Entries(raw) \in Seq(ToSet(Entries(raw)))
  <1>. DEFINE parts == Split(raw, "|")
              trimmed == [i \in DOMAIN parts |-> Trim(parts[i])]
              wanted == {entry \in ToSet(trimmed) : EqualSigns(entry) # {}}
              pairs == Only(trimmed, wanted)
              R == {Trim(parts[i]) : i \in DOMAIN parts}
              entries == [i \in DOMAIN pairs |-> SplitKeyValue(pairs[i])]
  <1>1. parts \in Seq(Seq(STRING))
    BY SplitIsSeq
  <1>2. trimmed \in Seq(R)
    <2>. HIDE DEF parts
    <2>1. DOMAIN parts = 1 .. Len(parts) /\ Len(parts) \in Nat
      BY <1>1
    <2>2. \A i \in 1 .. Len(parts) : Trim(parts[i]) \in R
      BY <2>1
    <2>3. trimmed = [i \in 1 .. Len(parts) |-> Trim(parts[i])]
      BY <2>1
    <2>. HIDE DEF R, trimmed
    <2>. QED  BY <2>1, <2>2, <2>3
  <1>3. pairs \in Seq(R \cap wanted)
    <2>. HIDE DEF trimmed, wanted, R
    <2>. QED  BY <1>2, OnlyIsSeq
  <1>4. entries \in Seq(ToSet(entries))
    <2>. HIDE DEF pairs, wanted, R
    <2>1. DOMAIN entries = 1 .. Len(pairs) /\ Len(pairs) \in Nat
      BY <1>3
    <2>. HIDE DEF entries
    <2>2. \A i \in 1 .. Len(pairs) : entries[i] \in ToSet(entries)
      BY <2>1 DEF ToSet
    <2>3. entries = [i \in 1 .. Len(pairs) |-> entries[i]]
      BY <2>1 DEF entries
    <2>. QED  BY <2>1, <2>2, <2>3
  <1>. QED  BY <1>4 DEF Entries

\* The maps with keys in K and values in V.
MapsOver(K, V) == UNION {[S -> V] : S \in SUBSET K}

LEMMA PutKeeps ==
  ASSUME NEW K, NEW V, NEW map \in MapsOver(K, V), NEW key \in K, NEW value \in V
  PROVE  Put(map, key, value) \in MapsOver(K, V)
  <1>1. PICK S \in SUBSET K : map \in [S -> V]
    BY DEF MapsOver
  <1>2. Put(map, key, value) \in [S \cup {key} -> V]
    BY <1>1 DEF Put
  <1>. QED  BY <1>1, <1>2 DEF MapsOver

\* The loop of parseMap: maps[i] is the map after i entries.
LEMMA ParseMapSteps ==
  ASSUME NEW raw \in Seq(STRING), ~Blank(raw), NEW type,
         NEW D, Object(<<>>) \in D,
         \A map \in D, entry \in ToSet(Entries(raw)) : AddEntry(type, map, entry) \in D
  PROVE  \E maps \in [0 .. Len(Entries(raw)) -> D] :
            /\ maps[0] = Object(<<>>)
            /\ \A i \in 1 .. Len(Entries(raw)) :
                  maps[i] = AddEntry(type, maps[i - 1], Entries(raw)[i])
            /\ ParseMap(raw, type) = maps[Len(Entries(raw))]
  <1>. DEFINE entries == Entries(raw)
              n == Len(entries)
              none == Object(<<>>)
              IsFold(it) ==
                  it = [s \in SUBSET (1 .. n) |->
                          IF s = {} THEN none
                          ELSE AddEntry(type, it[s \ {Max(s)}], entries[Max(s)])]
              F == [p \in D \X (1 .. n) |-> AddEntry(type, p[1], entries[p[2]])]
  <1>1. n \in Nat /\ DOMAIN entries = 1 .. n /\ \A i \in 1 .. n : entries[i] \in ToSet(entries)
    <2>1. entries \in Seq(ToSet(entries))
      BY EntriesIsSeq
    <2>. HIDE DEF entries
    <2>. QED  BY <2>1
  <1>2. ParseMap(raw, type) = (CHOOSE it : IsFold(it))[1 .. n]
    <2>. HIDE DEF entries
    <2>1. ParseMap(raw, type)
             = FoldLeft(LAMBDA map, entry : AddEntry(type, map, entry), none, entries)
      BY DEF ParseMap, entries
    <2>. QED  BY <1>1, <2>1 DEF FoldLeft, MapThenFoldSet
  <1>. HIDE DEF entries, none
  <1>3. F \in [D \X (1 .. n) -> D] /\ none \in D
    BY <1>1 DEF entries, none
  <1>4. \E it : IsFold(it)
    <2>1. PICK it \in PartialFolds(F, none, D, n) : TRUE
      <3>. HIDE DEF n, F
      <3>. QED  BY <1>1, <1>3, PartialFoldsExist
    <2>2. ASSUME NEW s \in SUBSET (1 .. n), s # {}
          PROVE  F[<<it[s \ {Max(s)}], Max(s)>>]
                    = AddEntry(type, it[s \ {Max(s)}], entries[Max(s)])
      <3>1. Max(s) \in 1 .. n
        <4>. HIDE DEF n
        <4>. QED  BY <1>1, <2>2, MaxIsIn
      <3>2. it[s \ {Max(s)}] \in D
        BY <2>1 DEF PartialFolds
      <3>. QED  BY <3>1, <3>2
    <2>3. IsFold(it)
      <3>. HIDE DEF n, F
      <3>. QED  BY <2>1, <2>2 DEF PartialFolds
    <2>. QED  BY <2>3
  <1>5. PICK it : IsFold(it) /\ ParseMap(raw, type) = it[1 .. n]
    BY <1>2, <1>4
  <1>6. it[{}] = none
    BY <1>5
  <1>7. ASSUME NEW i \in 1 .. n, it[1 .. i - 1] \in D
        PROVE  it[1 .. i] = F[<<it[1 .. i - 1], i>>]
    <2>1. it[1 .. i] = AddEntry(type, it[1 .. i - 1], entries[i])
      <3>. HIDE DEF n
      <3>. QED  BY <1>1, <1>5, InOrder
    <2>. QED  BY <1>7, <2>1
  <1>8. PICK maps \in StepsOf(it, F, none, D, n) : TRUE
    <2>. HIDE DEF n, F
    <2>1. VisitsInOrder(it, F, none, D, n)
      BY <1>6, <1>7 DEF VisitsInOrder
    <2>. QED  BY <1>1, <1>3, <2>1, FoldVisits
  <1>9. ASSUME NEW i \in 1 .. n
        PROVE  maps[i] = AddEntry(type, maps[i - 1], entries[i])
    <2>1. i - 1 \in 0 .. n
      BY <1>1
    <2>. QED  BY <1>8, <2>1 DEF StepsOf
  <1>10. maps \in [0 .. n -> D] /\ maps[0] = none /\ ParseMap(raw, type) = maps[n]
    BY <1>5, <1>8 DEF StepsOf
  <1>. QED  BY <1>9, <1>10 DEF entries, none

\* The numbers an integer type can be read as.
Numbers(type) == {Num(Number[x]) : x \in {x \in DOMAIN Number : Within(Number[x], type)}}

\* What parseMap makes of a cell of a type: a map, or what is wrong with it.
KeysOf(type, entries) ==
    IF IntKeyed(type) THEN Numbers(MapType(type)[1])
    ELSE {Str(KeyText(entry)) : entry \in ToSet(entries)}

ValuesOf(type, entries) ==
    IF IntValued(type) THEN Numbers(MapType(type)[2])
    ELSE {Str(ValueText(entry)) : entry \in ToSet(entries)}

MapErrors == {Error("ErrInvalidValue"), Error("ErrDuplicateKey")}

MapValues(type, entries) ==
    {Object(map) : map \in MapsOver(KeysOf(type, entries), ValuesOf(type, entries))}
        \cup (IF IntKeyed(type) \/ IntValued(type) THEN MapErrors ELSE {})

LEMMA MapValueCases ==
  ASSUME NEW type, NEW entries, NEW value \in MapValues(type, entries)
  PROVE  \/ IsError(value) /\ (IntKeyed(type) \/ IntValued(type))
         \/ /\ ~IsError(value) /\ value = Object(value.is)
            /\ value.is \in MapsOver(KeysOf(type, entries), ValuesOf(type, entries))
  <1>1. CASE \E map \in MapsOver(KeysOf(type, entries), ValuesOf(type, entries)) :
                value = Object(map)
    BY <1>1 DEF Object, IsError
  <1>2. CASE (IntKeyed(type) \/ IntValued(type)) /\ value \in MapErrors
    BY <1>2 DEF MapErrors, Error, IsError
  <1>. QED  BY <1>1, <1>2 DEF MapValues

LEMMA ReadNumber ==
  ASSUME NEW text, NEW type, Fits(text, type)
  PROVE  Num(Number[text[1]]) \in Numbers(type)
  BY DEF Fits, Numbers

LEMMA AddEntryKeeps ==
  ASSUME NEW type, NEW entries, NEW map \in MapValues(type, entries),
         NEW entry \in ToSet(entries)
  PROVE  AddEntry(type, map, entry) \in MapValues(type, entries)
  <1>. DEFINE K == KeysOf(type, entries)
              V == ValuesOf(type, entries)
  <1>1. ASSUME NEW key \in K, NEW value \in V, ~IsError(map)
        PROVE  Object(Put(map.is, key, value)) \in MapValues(type, entries)
    <2>1. map.is \in MapsOver(K, V)
      BY <1>1, MapValueCases
    <2>2. Put(map.is, key, value) \in MapsOver(K, V)
      <3>. HIDE DEF K, V
      <3>. QED  BY <1>1, <2>1, PutKeeps
    <2>. QED  BY <2>2 DEF MapValues
  <1>2. IntKeyed(type) \/ IntValued(type)
           => /\ Error("ErrInvalidValue") \in MapValues(type, entries)
              /\ Error("ErrDuplicateKey") \in MapValues(type, entries)
    BY DEF MapValues, MapErrors
  <1>3. ~(IntKeyed(type) /\ IntValued(type))
    BY DEF IntKeyed, IntValued, Ints
  <1>4. ~IntKeyed(type) => Str(KeyText(entry)) \in K
    BY DEF KeysOf
  <1>5. ~IntValued(type) => Str(ValueText(entry)) \in V
    BY DEF ValuesOf
  <1>6. CASE IntKeyed(type)
    <2>. DEFINE key == Num(Number[KeyText(entry)[1]])
    <2>1. Fits(KeyText(entry), MapType(type)[1]) => key \in K
      BY <1>6, ReadNumber DEF KeysOf
    <2>2. AddEntry(type, map, entry) = AddIntKey(MapType(type)[1], map, entry)
      BY <1>6 DEF AddEntry
    <2>3. \/ AddEntry(type, map, entry) = map
          \/ AddEntry(type, map, entry) \in MapErrors
          \/ /\ ~IsError(map) /\ Fits(KeyText(entry), MapType(type)[1])
             /\ AddEntry(type, map, entry) = Object(Put(map.is, key, Str(ValueText(entry))))
      BY <2>2 DEF AddIntKey, MapErrors
    <2>. HIDE DEF key, K, V
    <2>. QED  BY <1>1, <1>2, <1>3, <1>5, <1>6, <2>1, <2>3 DEF MapErrors
  <1>7. CASE ~IntKeyed(type) /\ IntValued(type)
    <2>. DEFINE text == Trim(entry[2])
                number == Num(Number[text[1]])
    <2>1. Fits(text, MapType(type)[2]) => number \in V
      BY <1>7, ReadNumber DEF ValuesOf
    <2>2. AddEntry(type, map, entry) = AddIntValue(MapType(type)[2], map, entry)
      BY <1>7 DEF AddEntry
    <2>3. \/ AddEntry(type, map, entry) = map
          \/ AddEntry(type, map, entry) \in MapErrors
          \/ /\ ~IsError(map) /\ Fits(text, MapType(type)[2])
             /\ AddEntry(type, map, entry) = Object(Put(map.is, Str(KeyText(entry)), number))
      BY <2>2 DEF AddIntValue, MapErrors
    <2>. HIDE DEF text, number, K, V
    <2>. QED  BY <1>1, <1>2, <1>4, <1>7, <2>1, <2>3 DEF MapErrors
  <1>8. CASE ~IntKeyed(type) /\ ~IntValued(type)
    <2>1. ~IsError(map)
      BY <1>8, MapValueCases
    <2>2. AddEntry(type, map, entry)
             = Object(Put(map.is, Str(KeyText(entry)), Str(ValueText(entry))))
      BY <1>8 DEF AddEntry, AddStrings
    <2>. HIDE DEF K, V
    <2>. QED  BY <1>1, <1>4, <1>5, <1>8, <2>1, <2>2
  <1>. QED  BY <1>6, <1>7, <1>8

\* The empty map is of every type.
LEMMA NoEntries ==
  ASSUME NEW type, NEW entries
  PROVE  Object(<<>>) \in MapValues(type, entries)
  <1>1. <<>> \in MapsOver(KeysOf(type, entries), ValuesOf(type, entries))
    BY DEF MapsOver
  <1>. QED  BY <1>1 DEF MapValues

LEMMA ParsedMap ==
  ASSUME NEW raw \in Seq(STRING), NEW type
  PROVE  ParseMap(raw, type) \in MapValues(type, Entries(raw))
  <1>1. CASE Blank(raw)
    BY <1>1, NoEntries DEF ParseMap
  <1>2. CASE ~Blank(raw)
    <2>. DEFINE n == Len(Entries(raw))
    <2>1. PICK maps \in [0 .. n -> MapValues(type, Entries(raw))] :
             /\ maps[0] = Object(<<>>)
             /\ \A i \in 1 .. n : maps[i] = AddEntry(type, maps[i - 1], Entries(raw)[i])
             /\ ParseMap(raw, type) = maps[n]
      BY <1>2, NoEntries, AddEntryKeeps, ParseMapSteps
    <2>2. n \in 0 .. n
      BY EntriesIsSeq
    <2>. QED  BY <2>1, <2>2
  <1>. QED  BY <1>1, <1>2

\* A map with integer keys has as many of them as the cell has entries.
LEMMA EntriesCounted ==
  ASSUME NEW raw \in Seq(STRING), ~Blank(raw), NEW type, IntKeyed(type),
         ~IsError(ParseMap(raw, type))
  PROVE  Cardinality(DOMAIN ParseMap(raw, type).is) = Len(Entries(raw))
  <1>. DEFINE n == Len(Entries(raw))
              entry(i) == Entries(raw)[i]
              D == MapValues(type, Entries(raw))
  <1>1. n \in Nat
    BY EntriesIsSeq
  <1>2. PICK maps \in [0 .. n -> D] :
           /\ maps[0] = Object(<<>>)
           /\ \A i \in 1 .. n : maps[i] = AddEntry(type, maps[i - 1], entry(i))
           /\ ParseMap(raw, type) = maps[n]
    BY NoEntries, AddEntryKeeps, ParseMapSteps
  <1>. DEFINE Counted(i) == ~IsError(maps[i]) => /\ IsFiniteSet(DOMAIN maps[i].is)
                                                 /\ Cardinality(DOMAIN maps[i].is) = i
              T == {i \in 0 .. n : Counted(i)}
  <1>3. 0 \in T
    <2>1. DOMAIN maps[0].is = {}
      BY <1>2 DEF Object
    <2>. QED  BY <1>1, <2>1, FS_EmptySet
  <1>4. ASSUME NEW i \in 0 .. n - 1, i \in T
        PROVE  i + 1 \in T
    <2>1. i + 1 \in 1 .. n /\ (i + 1) - 1 = i /\ i \in Nat
      BY <1>1
    <2>2. maps[i + 1] = AddIntKey(MapType(type)[1], maps[i], entry(i + 1))
      <3>1. maps[i + 1] = AddEntry(type, maps[i], entry(i + 1))
        BY <1>2, <2>1
      <3>. QED  BY <3>1 DEF AddEntry
    <2>. DEFINE key == Num(Number[KeyText(entry(i + 1))[1]])
                value == Str(ValueText(entry(i + 1)))
    <2>3. ~IsError(maps[i + 1]) => /\ ~IsError(maps[i]) /\ key \notin DOMAIN maps[i].is
                                   /\ maps[i + 1] = Object(Put(maps[i].is, key, value))
      BY <2>2 DEF AddIntKey, IsError, Error
    <2>4. Object(Put(maps[i].is, key, value)).is = Put(maps[i].is, key, value)
      BY DEF Object
    <2>5. DOMAIN Put(maps[i].is, key, value) = DOMAIN maps[i].is \cup {key}
      BY DEF Put
    <2>. HIDE DEF key, value
    <2>6. ASSUME ~IsError(maps[i + 1])
          PROVE  /\ IsFiniteSet(DOMAIN maps[i + 1].is)
                 /\ Cardinality(DOMAIN maps[i + 1].is) = i + 1
      <3>1. /\ key \notin DOMAIN maps[i].is
            /\ DOMAIN maps[i + 1].is = DOMAIN maps[i].is \cup {key}
        BY <2>3, <2>4, <2>5, <2>6
      <3>2. IsFiniteSet(DOMAIN maps[i].is) /\ Cardinality(DOMAIN maps[i].is) = i
        BY <1>4, <2>3, <2>6
      <3>. QED  BY <3>1, <3>2, FS_AddElement
    <2>. QED  BY <2>1, <2>6
  <1>5. \A i \in 0 .. n : i \in T
    <2>. HIDE DEF T, n
    <2>. QED  BY <1>1, <1>3, <1>4, UpTo
  <1>. QED  BY <1>1, <1>2, <1>5

-----------------------------------------------------------------------------
(***************************************************************************)
(* What the parser makes of a cell, and the struct it is decoded into.     *)
(***************************************************************************)
LEMMA NoMaps ==
  \A name : name # "=" => ~IsMap(<<name>>)
  BY DEF IsMap, EqualSigns

\* The types of one word.
LEMMA WordTypes ==
  /\ \A raw : /\ ParseValue(raw, <<"int32">>) = ParseInt(raw, "int32")
              /\ ParseValue(raw, <<"int64">>) = ParseInt(raw, "int64")
              /\ ParseValue(raw, <<"string">>) = Str(raw)
              /\ ParseValue(raw, <<"int32[]">>) = ParseIntArray(raw, "int32")
              /\ ParseValue(raw, <<"int64[]">>) = ParseIntArray(raw, "int64")
              /\ ParseValue(raw, <<"string[]">>) = ParseStringArray(raw)
  /\ GoType(<<"int32">>) = <<"int32">>
  /\ GoType(<<"int64">>) = <<"int64">>
  /\ GoType(<<"string">>) = <<"string">>
  /\ GoType(<<"int32[]">>) = <<"slice", "int32">>
  /\ GoType(<<"int64[]">>) = <<"slice", "int64">>
  /\ GoType(<<"string[]">>) = <<"slice", "string">>
  <1>1. ~IsMap(<<"int32">>) /\ ~IsMap(<<"int64">>) /\ ~IsMap(<<"string">>)
    BY NoMaps
  <1>2. ~IsMap(<<"int32[]">>) /\ ~IsMap(<<"int64[]">>) /\ ~IsMap(<<"string[]">>)
    BY NoMaps
  <1>3. ASSUME NEW raw
        PROVE  /\ ParseValue(raw, <<"int32">>) = ParseInt(raw, "int32")
               /\ ParseValue(raw, <<"int64">>) = ParseInt(raw, "int64")
               /\ ParseValue(raw, <<"string">>) = Str(raw)
    BY <1>1 DEF ParseValue
  <1>4. ASSUME NEW raw
        PROVE  /\ ParseValue(raw, <<"int32[]">>) = ParseIntArray(raw, "int32")
               /\ ParseValue(raw, <<"int64[]">>) = ParseIntArray(raw, "int64")
               /\ ParseValue(raw, <<"string[]">>) = ParseStringArray(raw)
    BY <1>2 DEF ParseValue
  <1>5. /\ GoType(<<"int32">>) = <<"int32">> /\ GoType(<<"int64">>) = <<"int64">>
        /\ GoType(<<"string">>) = <<"string">>
    BY <1>1 DEF GoType
  <1>6. /\ GoType(<<"int32[]">>) = <<"slice", "int32">>
        /\ GoType(<<"int64[]">>) = <<"slice", "int64">>
        /\ GoType(<<"string[]">>) = <<"slice", "string">>
    BY <1>2 DEF GoType
  <1>. QED  BY <1>3, <1>4, <1>5, <1>6

LEMMA ReadInt ==
  ASSUME NEW raw, NEW type, ~IsError(ParseInt(raw, type))
  PROVE  \E n : ParseInt(raw, type) = Num(n) /\ Within(n, type)
  <1>1. Within(0, type)
    <2>1. Max32 \in Nat /\ Max64 \in Nat
      BY ToolAssumption
    <2>. QED  BY <2>1 DEF Within
  <1>2. Fits(raw, type) => Within(Number[raw[1]], type)
    BY DEF Fits
  <1>3. \/ ParseInt(raw, type) = Num(0)
        \/ Fits(raw, type) /\ ParseInt(raw, type) = Num(Number[raw[1]])
    BY DEF ParseInt, Error, IsError
  <1>. QED  BY <1>1, <1>2, <1>3

LEMMA NumberDecodes ==
  ASSUME NEW n, NEW type \in Ints, Within(n, type)
  PROVE  DecodesScalar(Num(n), type)
  <1>1. Num(n).json = "number" /\ Num(n).is = n
    BY DEF Num
  <1>. QED  BY <1>1 DEF DecodesScalar, Ints

LEMMA StringDecodes ==
  ASSUME NEW text
  PROVE  DecodesScalar(Str(text), "string")
  <1>1. Str(text).json = "string"
    BY DEF Str
  <1>. QED  BY <1>1 DEF DecodesScalar, Ints

LEMMA IntDecodes ==
  ASSUME NEW raw, NEW name \in Ints, ~IsError(ParseValue(raw, <<name>>))
  PROVE  Decodes(ParseValue(raw, <<name>>), GoType(<<name>>))
  <1>1. ParseValue(raw, <<name>>) = ParseInt(raw, name) /\ GoType(<<name>>) = <<name>>
    BY WordTypes DEF Ints
  <1>2. DecodesScalar(ParseInt(raw, name), name)
    BY <1>1, ReadInt, NumberDecodes
  <1>. QED  BY <1>1, <1>2 DEF Decodes, Ints

LEMMA TextDecodes ==
  ASSUME NEW raw
  PROVE  Decodes(ParseValue(raw, <<"string">>), GoType(<<"string">>))
  <1>1. ParseValue(raw, <<"string">>) = Str(raw) /\ GoType(<<"string">>) = <<"string">>
    BY WordTypes
  <1>. QED  BY <1>1, StringDecodes DEF Decodes

LEMMA IntsDecode ==
  ASSUME NEW raw, NEW name \in Ints, ~IsError(ParseIntArray(raw, name))
  PROVE  Decodes(ParseIntArray(raw, name), <<"slice", name>>)
  <1>. DEFINE parts == Split(raw, "|")
              items == [i \in DOMAIN parts |-> ParseInt(parts[i], name)]
  <1>1. CASE Blank(raw)
    <2>1. ParseIntArray(raw, name).json = "array" /\ ParseIntArray(raw, name).is = <<>>
      BY <1>1 DEF ParseIntArray, Array
    <2>. QED  BY <2>1 DEF Decodes
  <1>2. CASE ~Blank(raw)
    <2>1. ParseIntArray(raw, name) = Array(items) /\ \A i \in DOMAIN items : ~IsError(items[i])
      BY <1>2 DEF ParseIntArray, Error, IsError
    <2>2. \A i \in DOMAIN items : DecodesScalar(items[i], name)
      BY <2>1, ReadInt, NumberDecodes
    <2>3. Array(items).json = "array" /\ Array(items).is = items
      BY DEF Array
    <2>. HIDE DEF items
    <2>. QED  BY <2>1, <2>2, <2>3 DEF Decodes
  <1>. QED  BY <1>1, <1>2

LEMMA TextsDecode ==
  ASSUME NEW raw
  PROVE  Decodes(ParseStringArray(raw), <<"slice", "string">>)
  <1>. DEFINE parts == Split(raw, "|")
              items == [i \in DOMAIN parts |-> Str(Unquote(Trim(parts[i])))]
  <1>1. \/ ParseStringArray(raw) = Array(<<>>)
        \/ ParseStringArray(raw) = Array(items)
    BY DEF ParseStringArray
  <1>2. \A i \in DOMAIN items : DecodesScalar(items[i], "string")
    BY StringDecodes
  <1>3. \A is : Array(is).json = "array" /\ Array(is).is = is
    BY DEF Array
  <1>. HIDE DEF items
  <1>. QED  BY <1>1, <1>2, <1>3 DEF Decodes

\* The column types of arrays.
LEMMA ArrayDecodes ==
  ASSUME NEW raw, NEW name \in {"int32[]", "int64[]", "string[]"},
         ~IsError(ParseValue(raw, <<name>>))
  PROVE  Decodes(ParseValue(raw, <<name>>), GoType(<<name>>))
  <1>1. CASE name = "int32[]"
    <2>1. /\ ParseValue(raw, <<name>>) = ParseIntArray(raw, "int32")
          /\ GoType(<<name>>) = <<"slice", "int32">>
      BY <1>1, WordTypes
    <2>. QED  BY <2>1, IntsDecode DEF Ints
  <1>2. CASE name = "int64[]"
    <2>1. /\ ParseValue(raw, <<name>>) = ParseIntArray(raw, "int64")
          /\ GoType(<<name>>) = <<"slice", "int64">>
      BY <1>2, WordTypes
    <2>. QED  BY <2>1, IntsDecode DEF Ints
  <1>3. CASE name = "string[]"
    <2>1. /\ ParseValue(raw, <<name>>) = ParseStringArray(raw)
          /\ GoType(<<name>>) = <<"slice", "string">>
      BY <1>3, WordTypes
    <2>. QED  BY <2>1, TextsDecode
  <1>. QED  BY <1>1, <1>2, <1>3

\* A map type of which the parser types a side as the generator does.
LEMMA MapDecodes ==
  ASSUME NEW raw \in Seq(STRING), NEW type, IsMap(type),
         IntKeyed(type) \/ IntValued(type) \/ MapType(type) = <<"string", "string">>,
         ~IsError(ParseValue(raw, type))
  PROVE  Decodes(ParseValue(raw, type), GoType(type))
  <1>. DEFINE entries == Entries(raw)
              value == ParseMap(raw, type)
              key == MapType(type)[1]
              elem == MapType(type)[2]
  <1>1. ParseValue(raw, type) = value
    BY NoMaps DEF ParseValue
  <1>2. GoType(type) = <<"map", key, elem>>
    <2>1. key \in Ints \cup {"string"} /\ elem \in Ints \cup {"string"}
      BY DEF IntKeyed, IntValued
    <2>2. GoType(type) = <<"map", IF key \in Ints THEN key ELSE "string",
                                  IF elem \in Ints THEN elem ELSE "string">>
      BY NoMaps DEF GoType
    <2>. QED  BY <2>1, <2>2
  <1>3. value.json = "object" /\ value.is \in MapsOver(KeysOf(type, entries), ValuesOf(type, entries))
    <2>1. value \in MapValues(type, entries) /\ ~IsError(value)
      BY <1>1, ParsedMap
    <2>2. value = Object(value.is)
          /\ value.is \in MapsOver(KeysOf(type, entries), ValuesOf(type, entries))
      <3>. HIDE DEF value, entries
      <3>. QED  BY <2>1, MapValueCases
    <2>. QED  BY <2>2 DEF Object
  <1>4. \A k \in DOMAIN value.is : k \in KeysOf(type, entries)
                                   /\ value.is[k] \in ValuesOf(type, entries)
    <2>. HIDE DEF value, entries
    <2>. QED  BY <1>3 DEF MapsOver
  <1>5. \A k \in KeysOf(type, entries) : DecodesKey(k, key)
    <2>1. CASE IntKeyed(type)
      BY <2>1 DEF KeysOf, Numbers, Num, DecodesKey
    <2>2. CASE ~IntKeyed(type)
      <3>1. key = "string"
        BY <2>2 DEF IntValued
      <3>. QED  BY <3>1 DEF DecodesKey, Ints
    <2>. QED  BY <2>1, <2>2
  <1>6. \A v \in ValuesOf(type, entries) : DecodesScalar(v, elem)
    <2>1. CASE IntValued(type)
      BY <2>1, NumberDecodes DEF ValuesOf, Numbers, IntValued
    <2>2. CASE ~IntValued(type)
      <3>1. elem = "string"
        BY <2>2 DEF IntKeyed
      <3>. QED  BY <2>2, <3>1, StringDecodes DEF ValuesOf
    <2>. QED  BY <2>1, <2>2
  <1>. HIDE DEF value, entries, key, elem
  <1>. QED  BY <1>1, <1>2, <1>3, <1>4, <1>5, <1>6 DEF Decodes

LEMMA TypedDecodes ==
  ASSUME NEW raw \in Seq(STRING), NEW type, Typed(type), ~IsError(ParseValue(raw, type))
  PROVE  Decodes(ParseValue(raw, type), GoType(type))
  <1>1. CASE \E name \in Ints : type = <<name>>
    BY <1>1, IntDecodes
  <1>2. CASE type = <<"string">>
    BY <1>2, TextDecodes
  <1>3. CASE \E name \in {"int32[]", "int64[]", "string[]"} : type = <<name>>
    BY <1>3, ArrayDecodes
  <1>4. CASE IsMap(type) /\ (IntKeyed(type) \/ IntValued(type)
                                \/ MapType(type) = <<"string", "string">>)
    BY <1>4, MapDecodes
  <1>. QED  BY <1>1, <1>2, <1>3, <1>4 DEF Typed, Ints

-----------------------------------------------------------------------------
(***************************************************************************)
(* Entries written by the rules of the format.                             *)
(***************************************************************************)
QuotesUpTo(text, i) == {j \in 1 .. i : text[j] \in Quotes}

\* A text in which every "=" is within quotes, and every quote is closed.
Closed(text) ==
    /\ Cardinality(QuotesUpTo(text, Len(text))) % 2 = 0
    /\ \A i \in EqualSigns(text) : Cardinality(QuotesUpTo(text, i)) % 2 # 0

LEMMA MinIs ==
  ASSUME NEW S \in SUBSET Int, NEW m \in S, \A x \in S : m <= x
  PROVE  Min(S) = m
  <1>1. \A x \in S : (\A y \in S : x <= y) => x = m
    OBVIOUS
  <1>. QED  BY <1>1 DEF Min

LEMMA Joined ==
  ASSUME NEW R, NEW one \in Seq(R), NEW two \in Seq(R)
  PROVE  /\ one \o two \in Seq(R)
         /\ Len(one \o two) = Len(one) + Len(two)
         /\ \A i \in 1 .. Len(one) : (one \o two)[i] = one[i]
         /\ \A i \in 1 .. Len(two) : (one \o two)[Len(one) + i] = two[i]
  OBVIOUS

\* splitKeyValue cuts an entry at the "=" behind such a text, whatever follows.
LEMMA SplitBehindClosed ==
  ASSUME NEW R, "=" \in R, NEW left \in Seq(R), NEW right \in Seq(R), Closed(left)
  PROVE  SplitKeyValue(left \o <<"=">> \o right) = <<left, right>>
  <1>. DEFINE entry == left \o <<"=">> \o right
              n == Len(left)
              sign == n + 1
  <1>1. /\ n \in Nat /\ Len(right) \in Nat /\ entry \in Seq(R)
        /\ Len(entry) = n + 1 + Len(right)
        /\ \A i \in 1 .. n : entry[i] = left[i]
        /\ entry[sign] = "="
        /\ \A i \in 1 .. Len(right) : entry[sign + i] = right[i]
    <2>. DEFINE cut == left \o <<"=">>
    <2>1. /\ <<"=">> \in Seq(R) /\ Len(<<"=">>) = 1 /\ <<"=">>[1] = "="
          /\ n \in Nat /\ Len(right) \in Nat /\ 1 \in 1 .. 1
      OBVIOUS
    <2>2. /\ cut \in Seq(R) /\ Len(cut) = sign /\ cut[sign] = "="
          /\ \A i \in 1 .. n : cut[i] = left[i]
      BY <2>1, Joined
    <2>. HIDE DEF cut
    <2>3. /\ cut \o right \in Seq(R) /\ Len(cut \o right) = sign + Len(right)
          /\ \A i \in 1 .. sign : (cut \o right)[i] = cut[i]
          /\ \A i \in 1 .. Len(right) : (cut \o right)[sign + i] = right[i]
      <3>1. /\ cut \o right \in Seq(R) /\ Len(cut \o right) = Len(cut) + Len(right)
            /\ \A i \in 1 .. Len(cut) : (cut \o right)[i] = cut[i]
            /\ \A i \in 1 .. Len(right) : (cut \o right)[Len(cut) + i] = right[i]
        <4>1. \A s \in Seq(R) :
                 /\ s \o right \in Seq(R) /\ Len(s \o right) = Len(s) + Len(right)
                 /\ \A i \in 1 .. Len(s) : (s \o right)[i] = s[i]
                 /\ \A i \in 1 .. Len(right) : (s \o right)[Len(s) + i] = right[i]
          BY Joined
        <4>. QED  BY <2>2, <4>1
      <3>. HIDE DEF sign
      <3>. QED  BY <2>2, <3>1
    <2>4. entry = cut \o right
      BY DEF cut
    <2>. HIDE DEF entry
    <2>. QED  BY <2>1, <2>2, <2>3, <2>4
  <1>2. "=" \notin Quotes
    BY Zenon DEF Quotes
  <1>. HIDE DEF entry, n
  <1>3. QuotesUpTo(entry, sign) = QuotesUpTo(left, n)
    BY <1>1, <1>2 DEF QuotesUpTo
  <1>4. \A i \in 1 .. n : QuotesUpTo(entry, i) = QuotesUpTo(left, i)
    BY <1>1 DEF QuotesUpTo
  <1>5. EqualSigns(left) = {i \in 1 .. n : entry[i] = "="}
    BY <1>1 DEF EqualSigns, n
  <1>6. \A i \in 1 .. n : entry[i] = "=" => Cardinality(QuotesUpTo(entry, i)) % 2 # 0
    BY <1>4, <1>5 DEF Closed
  <1>7. Cardinality(QuotesUpTo(entry, sign)) % 2 = 0
    BY <1>3 DEF Closed, n
  <1>8. Outside(entry) = {i \in 1 .. Len(entry) :
                             entry[i] = "=" /\ Cardinality(QuotesUpTo(entry, i)) % 2 = 0}
    <2>1. DOMAIN entry = 1 .. Len(entry)
      BY <1>1
    <2>. QED  BY <2>1 DEF Outside, EqualSigns, QuotesUpTo
  <1>9. sign \in Outside(entry)
    BY <1>1, <1>7, <1>8
  <1>10. Outside(entry) \in SUBSET Int /\ \A i \in Outside(entry) : sign <= i
    BY <1>1, <1>6, <1>8
  <1>11. Min(Outside(entry)) = sign
    <2>. HIDE DEF sign
    <2>. QED  BY <1>9, <1>10, MinIs
  <1>12. SplitKeyValue(entry)
           = <<SubSeq(entry, 1, sign - 1), SubSeq(entry, sign + 1, Len(entry))>>
    <2>. HIDE DEF sign
    <2>. QED  BY <1>9, <1>11 DEF SplitKeyValue
  <1>13. SubSeq(entry, 1, sign - 1) = left
    BY <1>1 DEF n
  <1>14. SubSeq(entry, sign + 1, Len(entry)) = right
    BY <1>1
  <1>. QED  BY <1>12, <1>13, <1>14 DEF entry

\* Two quote characters are an even number: the pair around a key.
LEMMA CardinalityOfTwo ==
  ASSUME NEW a, NEW b, a # b
  PROVE  Cardinality({a} \cup {b}) = 2
  <1>1. IsFiniteSet({a}) /\ Cardinality({a}) = 1 /\ b \notin {a}
    BY FS_Singleton, Zenon
  <1>2. Cardinality({a} \cup {b}) = Cardinality({a}) + 1
    BY <1>1, FS_AddElement, Zenon
  <1>3. 1 + 1 = 2
    OBVIOUS
  <1>. QED  BY <1>1, <1>2, <1>3, Zenon

\* A key in quotes is found, "=" signs in it or not, and is what is between the
\* quotes, as long as it has no quotes of its own (splitKeyValue, unquote).
THEOREM QuotedKeyFound ==
  ASSUME NEW Lexemes, Quotes \cup {"="} \subseteq Lexemes,
         NEW key \in Seq(Lexemes), NEW quote \in Quotes,
         \A i \in DOMAIN key : key[i] \notin Quotes,
         NEW value \in Seq(Lexemes)
  PROVE  /\ SplitKeyValue(<<quote>> \o key \o <<quote>> \o <<"=">> \o value)
               = <<<<quote>> \o key \o <<quote>>, value>>
         /\ Unquote(<<quote>> \o key \o <<quote>>) = key
  <1>. DEFINE quoted == <<quote>> \o key \o <<quote>>
              last == Len(key) + 2
  <1>1. /\ Len(key) \in Nat /\ quoted \in Seq(Lexemes) /\ Len(quoted) = last
        /\ quoted[1] = quote /\ quoted[last] = quote
        /\ \A i \in 2 .. last - 1 : quoted[i] = key[i - 1]
    <2>. DEFINE open == <<quote>> \o key
    <2>1. /\ <<quote>> \in Seq(Lexemes) /\ Len(<<quote>>) = 1 /\ <<quote>>[1] = quote
          /\ key \in Seq(Lexemes) /\ Len(key) \in Nat /\ 1 \in 1 .. 1
      OBVIOUS
    <2>2. /\ open \in Seq(Lexemes) /\ Len(open) = last - 1 /\ open[1] = quote
          /\ \A i \in 1 .. Len(key) : open[1 + i] = key[i]
      <3>. QED  BY <2>1, Joined
    <2>. HIDE DEF open
    <2>3. /\ open \o <<quote>> \in Seq(Lexemes) /\ Len(open \o <<quote>>) = last
          /\ \A i \in 1 .. last - 1 : (open \o <<quote>>)[i] = open[i]
          /\ (open \o <<quote>>)[last] = quote
      <3>1. /\ open \o <<quote>> \in Seq(Lexemes)
            /\ Len(open \o <<quote>>) = Len(open) + Len(<<quote>>)
            /\ \A i \in 1 .. Len(open) : (open \o <<quote>>)[i] = open[i]
            /\ \A i \in 1 .. Len(<<quote>>) : (open \o <<quote>>)[Len(open) + i] = <<quote>>[i]
        BY <2>1, <2>2, Joined
      <3>2. (last - 1) + 1 = last
        BY <2>1
      <3>. QED  BY <2>1, <2>2, <3>1, <3>2
    <2>4. quoted = open \o <<quote>>
      BY DEF open
    <2>5. \A i \in 2 .. last - 1 : i - 1 \in 1 .. Len(key) /\ 1 + (i - 1) = i /\ i \in 1 .. last - 1
      BY <2>1
    <2>6. 1 \in 1 .. last - 1
      BY <2>1
    <2>7. /\ quoted \in Seq(Lexemes) /\ Len(quoted) = last /\ quoted[last] = quote
          /\ \A i \in 1 .. last - 1 : quoted[i] = open[i]
      BY <2>3, <2>4
    <2>8. \A i \in 2 .. last - 1 : open[i] = key[i - 1]
      <3>. HIDE DEF last
      <3>. QED  BY <2>2, <2>5
    <2>. HIDE DEF quoted, last
    <2>. QED  BY <2>1, <2>2, <2>5, <2>6, <2>7, <2>8
  <1>0. "=" \notin Quotes
    BY Zenon DEF Quotes
  <1>2. \A i \in 2 .. last - 1 : quoted[i] \notin Quotes
    <2>1. \A i \in 2 .. last - 1 : i - 1 \in DOMAIN key
      BY <1>1
    <2>. QED  BY <1>1, <2>1
  <1>. HIDE DEF quoted
  <1>3. Closed(quoted)
    <2>0. last \in Nat /\ last >= 2
      BY <1>1
    <2>1. QuotesUpTo(quoted, last) = {1} \cup {last}
      <3>1. \A i \in 1 .. last : i = 1 \/ i = last \/ i \in 2 .. last - 1
        BY <2>0
      <3>2. 1 \in 1 .. last /\ last \in 1 .. last
        BY <2>0
      <3>. HIDE DEF last
      <3>. QED  BY <1>1, <1>2, <3>1, <3>2 DEF QuotesUpTo
    <2>2. Cardinality({1} \cup {last}) = 2
      <3>1. 1 # last
        BY <2>0
      <3>. HIDE DEF last
      <3>. QED  BY <3>1, CardinalityOfTwo
    <2>3. ASSUME NEW i \in EqualSigns(quoted)
          PROVE  QuotesUpTo(quoted, i) = {1}
      <3>1. i \in 1 .. last /\ quoted[i] = "="
        BY <1>1 DEF EqualSigns
      <3>2. i \in 2 .. last - 1
        BY <1>0, <1>1, <3>1
      <3>. QED  BY <1>1, <1>2, <3>2 DEF QuotesUpTo
    <2>4. Cardinality({1}) = 1
      BY FS_Singleton
    <2>5. 1 % 2 # 0 /\ 2 % 2 = 0
      OBVIOUS
    <2>. QED  BY <1>1, <2>1, <2>2, <2>3, <2>4, <2>5 DEF Closed
  <1>4. SplitKeyValue(quoted \o <<"=">> \o value) = <<quoted, value>>
    <2>1. "=" \in Lexemes
      OBVIOUS
    <2>. QED  BY <1>1, <1>3, <2>1, SplitBehindClosed
  <1>5. Unquote(quoted) = SubSeq(quoted, 2, Len(quoted) - 1)
    BY <1>1 DEF Unquote, Last
  <1>6. SubSeq(quoted, 2, Len(quoted) - 1) = key
    BY <1>1
  <1>. QED  BY <1>4, <1>5, <1>6 DEF quoted

-----------------------------------------------------------------------------
(***************************************************************************)
(* One run of the tool.                                                    *)
(***************************************************************************)
\* The phases before the checks, and between them and the exit.
Unchecked == {"parse", "validate"}
Working == {"generate_json", "write_output", "read_again", "insert", "publish", "generate_go"}

Left == output # None \/ row # None \/ announced \/ code # None \/ payload # None

\* Nothing is left behind before the checks, the phases after them see a sheet
\* that passed them, and the rows are those of the sheet.
Progress ==
    /\ announced \in BOOLEAN
    /\ at \in Unchecked => ~Left
    /\ at = "validate" => ~HasError(sheet) /\ DOMAIN sheet.values = DOMAIN sheet.raw
    /\ at \in Working \/ Left =>
          /\ ~HasError(sheet) /\ Valid(sheet) /\ "dry-run" \notin options
          /\ DOMAIN sheet.values = DOMAIN sheet.raw
    /\ payload # None => payload = DataOf(sheet)

\* The value under a column's name is that column's, when names are distinct.
LEMMA DataKeepsCells ==
    ASSUME NEW s, Valid(s), DOMAIN s.values = DOMAIN s.raw,
           NEW i \in DOMAIN s.raw, NEW j \in DOMAIN s.names
    PROVE  DataOf(s)[i][s.names[j]] = s.values[i][j]
<1>1. LastOf(s.names, s.names[j]) = j
  BY DEF LastOf, Valid, IsInjective
<1>2. s.names[j] \in ToSet(s.names)
  BY DEF ToSet
<1>. QED  BY <1>1, <1>2 DEF DataOf

LEMMA ProgressInit == Init => Progress
BY DEF Init, Progress, Unchecked, Working, Left

LEMMA ProgressStep == Progress /\ [Next]_vars => Progress'
<1>. SUFFICES ASSUME Progress, [Next]_vars PROVE Progress'
  OBVIOUS
<1>. USE DEF Progress, Unchecked, Working, Left
<1>1. ASSUME NEW saved \in Saved, Save(saved) PROVE Progress'
  BY <1>1 DEF Save
<1>2. CASE Parse
  <2>1. DOMAIN SheetOf(file.lines).values = DOMAIN SheetOf(file.lines).raw
    BY DEF SheetOf
  <2>2. /\ at' \in {"validate", "exit_2"}
        /\ at' = "validate" => sheet' = SheetOf(file.lines) /\ ~HasError(SheetOf(file.lines))
    BY <1>2 DEF Parse
  <2>3. UNCHANGED <<options, payload, output, row, announced, code>> /\ ~Left
    BY <1>2 DEF Parse
  <2>. QED  BY <2>1, <2>2, <2>3
<1>3. CASE Validate
  BY <1>3 DEF Validate
<1>4. CASE GenerateJson
  BY <1>4 DEF GenerateJson
<1>5. CASE WriteOutput
  BY <1>5 DEF WriteOutput
<1>6. CASE ReadAgain
  BY <1>6 DEF ReadAgain
<1>7. CASE Insert
  BY <1>7 DEF Insert
<1>8. CASE Publish
  BY <1>8 DEF Publish
<1>9. CASE GenerateGo
  BY <1>9 DEF GenerateGo
<1>10. CASE UNCHANGED vars
  BY <1>10 DEF vars
<1>. QED
  BY <1>1, <1>2, <1>3, <1>4, <1>5, <1>6, <1>7, <1>8, <1>9, <1>10 DEF Next, Exited

\* Neither a dry run nor a sheet that the parser or Validate refuses writes, inserts or
\* announces anything, in any order of saves and failures.
THEOREM NothingUnchecked == Spec => []OnlyCheckedLeaves
<1>1. Progress => OnlyCheckedLeaves
  BY DEF Progress, Left, OnlyCheckedLeaves
<1>. QED  BY <1>1, ProgressInit, ProgressStep, PTL DEF Spec

\* Every cell of a sheet of any size is found in its row.
THEOREM CellsKept == Spec => []EveryCellKept
<1>1. Progress => EveryCellKept
  BY DataKeepsCells DEF Progress, Left, EveryCellKept
<1>. QED  BY <1>1, ProgressInit, ProgressStep, PTL DEF Spec

\* The sheet a readable file has.
LEMMA SheetShape ==
  ASSUME NEW lines \in Seq(Seq(Seq(STRING))), Readable(lines)
  PROVE  /\ DOMAIN SheetOf(lines).names = DOMAIN SheetOf(lines).types
         /\ DOMAIN SheetOf(lines).values = DOMAIN SheetOf(lines).raw
         /\ DOMAIN SheetOf(lines).raw = 1 .. Len(SheetOf(lines).raw)
         /\ Len(SheetOf(lines).raw) \in Nat
         /\ DOMAIN SheetOf(lines).types = 1 .. Len(SheetOf(lines).types)
         /\ Len(SheetOf(lines).types) \in Nat
         /\ \A i \in DOMAIN SheetOf(lines).raw :
               Len(SheetOf(lines).raw[i]) = Len(SheetOf(lines).types)
         /\ \A i \in DOMAIN SheetOf(lines).raw : \A j \in DOMAIN SheetOf(lines).types :
               /\ SheetOf(lines).raw[i][j] \in Seq(STRING)
               /\ SheetOf(lines).values[i][j]
                     = ParseValue(SheetOf(lines).raw[i][j], SheetOf(lines).types[j])
  <1>. DEFINE records == Records(lines)
              raw == SubSeq(records, 4, Len(records))
              types == records[3]
              values == [i \in DOMAIN raw |->
                           [j \in DOMAIN raw[i] |-> ParseValue(raw[i][j], types[j])]]
  <1>1. records \in Seq(Seq(Seq(STRING)))
    <2>1. records \in Seq(Seq(Seq(STRING)) \cap (ToSet(lines) \ {<<<<>>>>}))
      BY OnlyIsSeq DEF Records
    <2>. HIDE DEF records
    <2>. QED  BY <2>1
  <1>2. /\ Len(records) \in Nat /\ Len(records) >= 3
        /\ \A i \in 1 .. Len(records) :
              records[i] \in Seq(Seq(STRING)) /\ Len(records[i]) = Len(records[1])
    <2>1. /\ Len(records) >= 3
          /\ \A i \in DOMAIN records : Len(records[i]) = Len(records[1])
      BY DEF Readable
    <2>. HIDE DEF records
    <2>. QED  BY <1>1, <2>1
  <1>3. /\ SheetOf(lines).names = records[2] /\ SheetOf(lines).types = types
        /\ SheetOf(lines).raw = raw /\ SheetOf(lines).values = values
    BY DEF SheetOf
  <1>. HIDE DEF records
  <1>4. \A i \in 1 .. Len(records) : DOMAIN records[i] = DOMAIN records[1]
    BY <1>2
  <1>5. DOMAIN records[2] = DOMAIN types
    BY <1>2, <1>4
  <1>6. \A i \in DOMAIN raw : i + 3 \in 1 .. Len(records) /\ raw[i] = records[i + 3]
    BY <1>1, <1>2
  <1>7. DOMAIN raw = 1 .. Len(raw) /\ Len(raw) \in Nat
    BY <1>1, <1>2
  <1>8. DOMAIN types = 1 .. Len(types) /\ Len(types) \in Nat
    BY <1>2
  <1>9. \A i \in DOMAIN raw : /\ raw[i] \in Seq(Seq(STRING)) /\ DOMAIN raw[i] = DOMAIN types
                              /\ Len(raw[i]) = Len(types)
    <2>1. 3 \in 1 .. Len(records)
      BY <1>2
    <2>. HIDE DEF raw
    <2>. QED  BY <1>2, <1>4, <1>6, <2>1
  <1>. HIDE DEF raw, types
  <1>10. \A i \in DOMAIN raw : \A j \in DOMAIN types :
           raw[i][j] \in Seq(STRING) /\ values[i][j] = ParseValue(raw[i][j], types[j])
    BY <1>9
  <1>11. DOMAIN values = DOMAIN raw
    OBVIOUS
  <1>. HIDE DEF values
  <1>. QED  BY <1>3, <1>5, <1>7, <1>8, <1>9, <1>10, <1>11

\* The sheet is one that was parsed without an error, whatever the file is now.
Parsed ==
    \E f \in Files \cup Saved :
        Readable(f.lines) /\ sheet = SheetOf(f.lines) /\ ~HasError(sheet)

Reading ==
    /\ file \in Files \cup Saved
    /\ at = "validate" \/ at \in Working \/ Left \/ sheet # None => Parsed

LEMMA ReadingInit == Init => Reading
BY DEF Init, Reading, Working, Left

LEMMA ReadingStep == Reading /\ [Next]_vars => Reading'
<1>. SUFFICES ASSUME Reading, [Next]_vars PROVE Reading'
  OBVIOUS
<1>. USE DEF Reading, Working, Left
<1>1. ASSUME NEW saved \in Saved, Save(saved) PROVE Reading'
  BY <1>1 DEF Save, Parsed
<1>2. CASE Parse
  <2>1. CASE Readable(file.lines) /\ ~HasError(SheetOf(file.lines))
    <3>1. Parsed' /\ file' = file
      BY <1>2, <2>1 DEF Parse, Parsed
    <3>. QED  BY <3>1
  <2>2. CASE ~(Readable(file.lines) /\ ~HasError(SheetOf(file.lines)))
    BY <1>2, <2>2 DEF Parse, Parsed
  <2>. QED  BY <2>1, <2>2
<1>3. CASE Validate
  BY <1>3 DEF Validate, Parsed
<1>4. CASE GenerateJson
  BY <1>4 DEF GenerateJson, Parsed
<1>5. CASE WriteOutput
  BY <1>5 DEF WriteOutput, Parsed
<1>6. CASE ReadAgain
  BY <1>6 DEF ReadAgain, Parsed
<1>7. CASE Insert
  BY <1>7 DEF Insert, Parsed
<1>8. CASE Publish
  BY <1>8 DEF Publish, Parsed
<1>9. CASE GenerateGo
  BY <1>9 DEF GenerateGo, Parsed
<1>10. CASE UNCHANGED vars
  BY <1>10 DEF vars, Parsed
<1>. QED
  BY <1>1, <1>2, <1>3, <1>4, <1>5, <1>6, <1>7, <1>8, <1>9, <1>10 DEF Next, Exited

\* What is known of the value of a cell.
LEMMA CellParsed ==
  ASSUME Parsed, NEW i \in DOMAIN sheet.raw, NEW j \in DOMAIN sheet.types
  PROVE  /\ DOMAIN sheet.names = DOMAIN sheet.types
         /\ sheet.raw[i][j] \in Seq(STRING)
         /\ sheet.values[i][j] = ParseValue(sheet.raw[i][j], sheet.types[j])
         /\ ~IsError(ParseValue(sheet.raw[i][j], sheet.types[j]))
  <1>1. PICK lines \in Seq(Seq(Seq(STRING))) :
           Readable(lines) /\ sheet = SheetOf(lines) /\ ~HasError(sheet)
    BY ToolAssumption DEF Parsed
  <1>2. /\ DOMAIN sheet.names = DOMAIN sheet.types
        /\ DOMAIN sheet.values = DOMAIN sheet.raw
        /\ sheet.raw[i][j] \in Seq(STRING)
        /\ sheet.values[i][j] = ParseValue(sheet.raw[i][j], sheet.types[j])
    BY <1>1, SheetShape
  <1>3. ~IsError(sheet.values[i][j])
    BY <1>1, <1>2 DEF HasError
  <1>. QED  BY <1>2, <1>3

\* In a map column with integer keys, of a sheet of any size, every entry has a
\* key of its own in the rows, however many there are and however they are
\* written.
THEOREM EntriesKept == Spec => []IntEntriesKept
<1>1. Reading => IntEntriesKept
  <2>. SUFFICES ASSUME Reading, sheet # None,
                       NEW i \in DOMAIN sheet.raw, NEW j \in DOMAIN sheet.types,
                       IsMap(sheet.types[j]), IntKeyed(sheet.types[j]), ~Blank(sheet.raw[i][j])
                PROVE  Cardinality(DOMAIN sheet.values[i][j].is) = Len(Entries(sheet.raw[i][j]))
    BY DEF IntEntriesKept
  <2>. DEFINE raw == sheet.raw[i][j]
              type == sheet.types[j]
  <2>1. /\ raw \in Seq(STRING) /\ sheet.values[i][j] = ParseValue(raw, type)
        /\ ~IsError(ParseValue(raw, type))
    BY CellParsed DEF Reading
  <2>2. ParseValue(raw, type) = ParseMap(raw, type)
    BY NoMaps DEF ParseValue
  <2>. HIDE DEF raw, type
  <2>3. IntKeyed(type) /\ ~Blank(raw)
    BY DEF raw, type
  <2>4. Cardinality(DOMAIN ParseMap(raw, type).is) = Len(Entries(raw))
    BY <2>1, <2>2, <2>3, EntriesCounted
  <2>. QED  BY <2>1, <2>2, <2>4 DEF raw
<1>. QED  BY <1>1, ReadingInit, ReadingStep, PTL DEF Spec

\* Every typed column of every row decodes with the struct generated from the
\* same sheet: the parser and the two generators agree on every type, for cells
\* of any length and whatever the numerals are.
THEOREM TypedLoads == Spec => []TypedIsLoadable
<1>1. Reading /\ Progress => TypedIsLoadable
  <2>. SUFFICES ASSUME Reading, Progress, payload # None,
                       NEW i \in DOMAIN payload,
                       NEW j \in DOMAIN sheet.types, Typed(sheet.types[j])
                PROVE  Decodes(payload[i][sheet.names[j]], GoType(sheet.types[j]))
    BY DEF TypedIsLoadable, Loadable
  <2>1. /\ Parsed /\ Valid(sheet) /\ DOMAIN sheet.values = DOMAIN sheet.raw
        /\ payload = DataOf(sheet)
    BY DEF Reading, Progress, Left
  <2>2. i \in DOMAIN sheet.raw
    BY <2>1 DEF DataOf
  <2>3. /\ j \in DOMAIN sheet.names /\ sheet.raw[i][j] \in Seq(STRING)
        /\ sheet.values[i][j] = ParseValue(sheet.raw[i][j], sheet.types[j])
        /\ ~IsError(ParseValue(sheet.raw[i][j], sheet.types[j]))
    BY <2>1, <2>2, CellParsed
  <2>4. payload[i][sheet.names[j]] = sheet.values[i][j]
    BY <2>1, <2>2, <2>3, DataKeepsCells
  <2>. QED  BY <2>3, <2>4, TypedDecodes
<1>. QED  BY <1>1, ReadingInit, ReadingStep, ProgressInit, ProgressStep, PTL DEF Spec

\* What each phase has, and what the phases before it have not.
Ordered ==
    /\ options \in Options
    /\ at \in Unchecked \cup Working \cup Exits
    /\ at \in Unchecked \cup {"generate_json"} => payload = None /\ output = None
    /\ at \in Unchecked \cup {"generate_json", "write_output", "read_again", "insert"} => row = None
    /\ output \in {None, payload}
    /\ row # None => row = [data |-> payload, csv_text |-> csvText]
    /\ announced \in BOOLEAN
    /\ code # None => code = CodeOf(sheet)

LEMMA OrderedInit == Init => Ordered
BY DEF Init, Ordered, Unchecked

LEMMA OrderedStep == Ordered /\ Progress /\ [Next]_vars => Ordered'
<1>. SUFFICES ASSUME Ordered, Progress, [Next]_vars PROVE Ordered'
  OBVIOUS
<1>. USE DEF Ordered, Unchecked, Working, Exits
<1>1. ASSUME NEW saved \in Saved, Save(saved) PROVE Ordered'
  BY <1>1 DEF Save
<1>2. CASE Parse
  <2>1. code = None
    BY <1>2 DEF Parse, Progress, Left
  <2>. QED  BY <1>2, <2>1 DEF Parse
<1>3. CASE Validate
  BY <1>3 DEF Validate
<1>4. CASE GenerateJson
  BY <1>4 DEF GenerateJson
<1>5. CASE WriteOutput
  BY <1>5 DEF WriteOutput
<1>6. CASE ReadAgain
  BY <1>6 DEF ReadAgain
<1>7. CASE Insert
  BY <1>7 DEF Insert
<1>8. CASE Publish
  BY <1>8 DEF Publish
<1>9. CASE GenerateGo
  BY <1>9 DEF GenerateGo
<1>10. CASE UNCHANGED vars
  BY <1>10 DEF vars
<1>. QED
  BY <1>1, <1>2, <1>3, <1>4, <1>5, <1>6, <1>7, <1>8, <1>9, <1>10 DEF Next, Exited

\* The variables keep their types: every record of the sheet is as long as its
\* header, and rows, database row and code are those of the sheet.
THEOREM TypeCorrect == Spec => []TypeOK
<1>1. Ordered /\ Reading /\ Progress => TypeOK
  <2>. SUFFICES ASSUME Ordered, Reading, Progress PROVE TypeOK
    OBVIOUS
  <2>1. ASSUME Parsed
        PROVE  /\ sheet # None
               /\ \A i \in DOMAIN sheet.raw : Len(sheet.raw[i]) = Len(sheet.types)
               /\ Len(DataOf(sheet)) = Len(sheet.raw)
               /\ Len(CodeOf(sheet).row) = Len(sheet.types)
    <3>1. PICK f \in Files \cup Saved : Readable(f.lines) /\ sheet = SheetOf(f.lines)
      BY <2>1 DEF Parsed
    <3>2. f.lines \in Seq(Seq(Seq(STRING))) /\ sheet # None
      BY <3>1, ToolAssumption
    <3>3. /\ DOMAIN sheet.names = DOMAIN sheet.types /\ DOMAIN sheet.values = DOMAIN sheet.raw
          /\ DOMAIN sheet.raw = 1 .. Len(sheet.raw) /\ Len(sheet.raw) \in Nat
          /\ DOMAIN sheet.types = 1 .. Len(sheet.types) /\ Len(sheet.types) \in Nat
          /\ \A i \in DOMAIN sheet.raw : Len(sheet.raw[i]) = Len(sheet.types)
      BY <3>1, <3>2, SheetShape
    <3>4. DOMAIN DataOf(sheet) = 1 .. Len(sheet.raw)
      BY <3>3 DEF DataOf
    <3>5. Len(DataOf(sheet)) = Len(sheet.raw)
      BY <3>3, <3>4
    <3>6. CodeOf(sheet).row = StructOf(sheet)
      BY DEF CodeOf
    <3>7. DOMAIN StructOf(sheet) = 1 .. Len(sheet.types)
      BY <3>3 DEF StructOf
    <3>8. Len(StructOf(sheet)) = Len(sheet.types)
      BY <3>3, <3>7
    <3>. QED  BY <3>2, <3>3, <3>5, <3>6, <3>8
  <2>2. sheet # None \/ payload # None \/ code # None => Parsed
    BY DEF Reading, Left
  <2>3. payload # None => payload = DataOf(sheet)
    BY DEF Progress
  <2>. QED  BY <2>1, <2>2, <2>3 DEF Ordered, TypeOK, Unchecked, Working, Exits
<1>. QED  BY <1>1, OrderedInit, OrderedStep, ReadingInit, ReadingStep,
             ProgressInit, ProgressStep, PTL DEF Spec
==============================================================================
