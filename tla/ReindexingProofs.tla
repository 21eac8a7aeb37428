-------------------------- MODULE ReindexingProofs --------------------------
(***************************************************************************)
(* Proofs about the re-index algorithm, for catalogues of any size, texts  *)
(* of any length and any weights that meet IdfAssumption.                  *)
(*                                                                         *)
(* What the recursive definitions compute is proved by induction, in the   *)
(* form of a least counterexample.                                         *)
(***************************************************************************)
EXTENDS Reindexing, FiniteSetTheorems, WellFoundedInduction, TLAPS

\* A set of natural numbers that is not empty has a least one.
LEMMA LeastNumber ==
  ASSUME NEW S \in SUBSET Nat, S # {}
  PROVE  \E k \in S : \A i \in S : k <= i
  <1>1. PICK k \in S : \A i \in S : <<i, k>> \notin OpToRel(<, Nat)
    <2> HIDE DEF OpToRel
    <2> QED BY NatLessThanWellFounded, WFMin
  <1>2. \A i \in S : ~(i < k)
    BY <1>1 DEF OpToRel
  <1> QED
    BY <1>2

-----------------------------------------------------------------------------
(* Sorting. *)

\* SetToSeqs lists every element once.
LEMMA ListsOnce ==
  ASSUME NEW S, IsFiniteSet(S), NEW s \in SetToSeqs(S)
  PROVE  /\ s \in Seq(S) /\ Len(s) = Cardinality(S) /\ ToSet(s) = S
         /\ \A x, y \in DOMAIN s : s[x] = s[y] => x = y
  <1> DEFINE D == 1..Cardinality(S)
  <1>1. Cardinality(S) \in Nat
    BY FS_CardinalityType
  <1>2. s \in [D -> S] /\ \A x, y \in D : s[x] = s[y] => x = y
    BY DEF SetToSeqs
  <1>3. s \in Seq(S) /\ Len(s) = Cardinality(S) /\ DOMAIN s = D
    BY <1>1, <1>2
  <1>4. s \in Surjection(D, S)
    <2>1. IsFiniteSet(D) /\ Cardinality(D) = Cardinality(S)
      BY <1>1, FS_Interval
    <2>2. s \in Injection(D, S)
      BY <1>2 DEF Injection, IsInjective
    <2> QED
      BY <2>1, <2>2, FS_Injection
  <1>5. ToSet(s) = S
    BY <1>2, <1>4 DEF ToSet, Surjection
  <1> QED
    BY <1>2, <1>3, <1>5

\* A finite set can be listed in any strict total order: an element's place is
\* the number of those before it.
LEMMA OrderedList ==
  ASSUME NEW S, IsFiniteSet(S), NEW R,
         \A x \in S : <<x, x>> \notin R,
         \A x, y, z \in S : <<x, y>> \in R /\ <<y, z>> \in R => <<x, z>> \in R,
         \A x, y \in S : x # y => <<x, y>> \in R \/ <<y, x>> \in R
  PROVE  \E s \in SetToSeqs(S) : \A x, y \in DOMAIN s : x < y => <<s[x], s[y]>> \in R
  <1> DEFINE c == Cardinality(S)
             Below(x) == {y \in S : <<y, x>> \in R}
             place == [x \in S |-> Cardinality(Below(x)) + 1]
  <1>1. c \in Nat /\ IsFiniteSet(1..c) /\ Cardinality(1..c) = c
    BY FS_CardinalityType, FS_Interval
  <1>2. \A x \in S : IsFiniteSet(Below(x)) /\ Cardinality(Below(x)) \in Nat
    <2> SUFFICES ASSUME NEW x \in S PROVE IsFiniteSet(Below(x))
      BY FS_CardinalityType
    <2>1. Below(x) \in SUBSET S
      OBVIOUS
    <2> QED
      BY <2>1, FS_Subset
  <1>3. ASSUME NEW x \in S PROVE place[x] \in 1..c
    <2>1. Below(x) \in SUBSET (S \ {x})
      OBVIOUS
    <2>2. IsFiniteSet(S \ {x}) /\ Cardinality(S \ {x}) = c - 1
      BY FS_RemoveElement
    <2> HIDE DEF Below, c
    <2>3. Cardinality(Below(x)) <= c - 1
      BY <2>1, <2>2, FS_Subset
    <2> QED
      BY <1>1, <1>2, <2>3
  <1>4. ASSUME NEW x \in S, NEW y \in S, <<x, y>> \in R PROVE place[x] < place[y]
    <2>1. Below(x) \in SUBSET Below(y) /\ x \in Below(y) /\ x \notin Below(x)
      BY <1>4
    <2> HIDE DEF Below
    <2>2. Cardinality(Below(x)) < Cardinality(Below(y))
      BY <1>2, <2>1, FS_Subset
    <2> QED
      BY <1>2, <2>2
  <1> HIDE DEF Below, c, place
  <1>5. place \in [S -> 1..c]
    BY <1>3 DEF place
  <1>6. \A x, y \in S : place[x] = place[y] => x = y
    <2> SUFFICES ASSUME NEW x \in S, NEW y \in S, place[x] = place[y], x # y PROVE FALSE
      OBVIOUS
    <2>1. place[x] < place[y] \/ place[y] < place[x]
      BY <1>4
    <2> QED
      BY <1>1, <1>3, <2>1
  <1>7. \A k \in 1..c : \E x \in S : place[x] = k
    <2>1. place \in Injection(S, 1..c)
      BY <1>5, <1>6 DEF Injection, IsInjective
    <2>2. place \in Surjection(S, 1..c)
      BY <1>1, <2>1, FS_Injection DEF c
    <2> QED
      BY <2>2 DEF Surjection
  <1> DEFINE list == [k \in 1..c |-> CHOOSE x \in S : place[x] = k]
  <1>8. list \in [1..c -> S] /\ \A k \in 1..c : place[list[k]] = k
    BY <1>7
  <1> HIDE DEF list
  <1>9. list \in SetToSeqs(S)
    BY <1>8 DEF SetToSeqs, c
  <1>10. ASSUME NEW x \in DOMAIN list, NEW y \in DOMAIN list, x < y
         PROVE  <<list[x], list[y]>> \in R
    <2>1. x \in 1..c /\ y \in 1..c /\ list[x] \in S /\ list[y] \in S
      BY <1>8
    <2>2. list[x] # list[y]
      BY <1>1, <1>8, <1>10, <2>1
    <2>3. <<list[y], list[x]>> \notin R
      BY <1>1, <1>4, <1>8, <1>10, <2>1
    <2> QED
      BY <2>1, <2>2, <2>3
  <1> QED
    BY <1>9, <1>10

\* And in one way only: the order leaves a sort no choice.
LEMMA OneOrderedList ==
  ASSUME NEW S, IsFiniteSet(S), NEW R,
         \A x \in S : <<x, x>> \notin R,
         \A x, y, z \in S : <<x, y>> \in R /\ <<y, z>> \in R => <<x, z>> \in R,
         NEW s \in SetToSeqs(S), \A x, y \in DOMAIN s : x < y => <<s[x], s[y]>> \in R,
         NEW t \in SetToSeqs(S), \A x, y \in DOMAIN t : x < y => <<t[x], t[y]>> \in R
  PROVE  s = t
  <1> DEFINE D == 1..Cardinality(S)
             Differ == {x \in D : s[x] # t[x]}
  <1>1. /\ s \in [D -> S] /\ t \in [D -> S]
        /\ \A x, y \in D : (s[x] = s[y] => x = y) /\ (t[x] = t[y] => x = y)
    BY DEF SetToSeqs
  <1>2. \A e \in S : (\E x \in D : s[x] = e) /\ (\E x \in D : t[x] = e)
    <2>1. ToSet(s) = S /\ ToSet(t) = S
      BY ListsOnce
    <2>2. DOMAIN s = D /\ DOMAIN t = D
      BY <1>1
    <2> HIDE DEF D
    <2> QED
      BY <2>1, <2>2 DEF ToSet
  <1>3. Differ \in SUBSET Nat /\ D \in SUBSET Nat
    OBVIOUS
  <1> HIDE DEF D
  <1>4. ASSUME NEW a \in [D -> S], NEW b \in [D -> S],
               \A x, y \in D : b[x] = b[y] => x = y,
               \A x, y \in D : x < y => <<a[x], a[y]>> \in R,
               \A e \in S : \E x \in D : a[x] = e,
               NEW x \in D, a[x] # b[x], \A y \in D : y < x => a[y] = b[y]
        PROVE  <<a[x], b[x]>> \in R
    <2>1. PICK y \in D : a[y] = b[x]
      BY <1>4
    <2>2. y # x
      BY <1>4, <2>1
    <2>3. ~(y < x)
      BY <1>4, <2>1, <2>2
    <2>4. x < y
      BY <1>3, <2>2, <2>3
    <2> QED
      BY <1>4, <2>1, <2>4
  <1>5. ASSUME Differ # {} PROVE FALSE
    <2>1. PICK x \in Differ : \A y \in Differ : x <= y
      <3> HIDE DEF Differ
      <3> QED
        BY <1>3, <1>5, LeastNumber
    <2>2. x \in D /\ s[x] # t[x] /\ x \in Nat
      BY <1>3
    <2>3. \A y \in D : y < x => s[y] = t[y]
      BY <1>3, <2>1, <2>2
    <2>4. <<s[x], t[x]>> \in R
      <3>1. \A y, z \in D : y < z => <<s[y], s[z]>> \in R
        BY <1>1
      <3> QED
        BY <1>1, <1>2, <1>4, <2>2, <2>3, <3>1
    <2>5. <<t[x], s[x]>> \in R
      <3>1. \A y, z \in D : y < z => <<t[y], t[z]>> \in R
        BY <1>1
      <3> QED
        BY <1>1, <1>2, <1>4, <2>2, <2>3, <3>1
    <2>6. s[x] \in S /\ t[x] \in S
      BY <1>1, <2>2
    <2> QED
      BY <2>4, <2>5, <2>6
  <1> QED
    BY <1>1, <1>5

-----------------------------------------------------------------------------
(* Adding up the terms of a dot product. *)

Term == [word : Nat, weight : Nat]

LEMMA Products ==
  \A x, y \in Nat : x * y \in Nat /\ (x * y > 0 <=> x > 0 /\ y > 0)
  <1> SUFFICES ASSUME NEW x \in Nat, NEW y \in Nat
               PROVE  x * y \in Nat /\ (x * y > 0 <=> x > 0 /\ y > 0)
    OBVIOUS
  <1>1. x * y \in Nat
    OBVIOUS
  <1>2. x = 0 => x * y = 0
    OBVIOUS
  <1>3. y = 0 => x * y = 0
    OBVIOUS
  <1>4. x > 0 /\ y > 0 => x * y > 0
    OBVIOUS
  <1> QED
    BY <1>1, <1>2, <1>3, <1>4

LEMMA MaxIsIn ==
  ASSUME NEW k \in Nat, NEW S \in SUBSET (1..k), S # {}
  PROVE  Max(S) \in S
  <1> DEFINE Gaps == {k - x : x \in S}
  <1>1. Gaps \in SUBSET Nat /\ Gaps # {}
    <2>1. \A x \in S : k - x \in Nat
      OBVIOUS
    <2> QED
      BY <2>1
  <1>2. PICK g \in Gaps : \A h \in Gaps : g <= h
    <2> HIDE DEF Gaps
    <2> QED
      BY <1>1, LeastNumber
  <1>3. PICK x \in S : g = k - x
    BY <1>2
  <1>4. ASSUME NEW y \in S PROVE x >= y
    <2>1. x \in Nat /\ y \in Nat /\ k - y \in Gaps
      OBVIOUS
    <2> HIDE DEF Gaps
    <2>2. k - x <= k - y
      BY <1>2, <1>3, <2>1
    <2> QED
      BY <2>1, <2>2
  <1> QED
    BY <1>4 DEF Max

\* g adds up the terms at every set of places of t, the last first.
AddsUp(t, g) ==
  g = [s \in SUBSET (DOMAIN t) |->
         IF s = {} THEN 0 ELSE g[s \ {Max(s)}] + t[Max(s)].weight]

LEMMA TotalByChoice ==
  ASSUME NEW t
  PROVE  Total(t) = (CHOOSE g : AddsUp(t, g))[DOMAIN t]
  BY DEF Total, FoldLeft, MapThenFoldSet, AddsUp

LEMMA AddsUpExists ==
  ASSUME NEW t \in Seq(Term)
  PROVE  \E g : AddsUp(t, g)
  <1> DEFINE Places == SUBSET (DOMAIN t)
             Sum(g, s) == IF s = {} THEN 0 ELSE g[s \ {Max(s)}] + t[Max(s)].weight
             UpTo(k) == \E g : /\ g = [s \in Places |-> g[s]]
                               /\ \A s \in Places : Cardinality(s) <= k => g[s] = Sum(g, s)
             Bad == {k \in Nat : ~UpTo(k)}
  <1>0. DOMAIN t = 1..Len(t) /\ Len(t) \in Nat /\ IsFiniteSet(DOMAIN t)
    BY FS_Interval
  <1>1. \A s \in Places : IsFiniteSet(s) /\ Cardinality(s) \in Nat /\ (Cardinality(s) = 0 <=> s = {})
    BY <1>0, FS_Subset, FS_CardinalityType, FS_EmptySet
  <1>2. ASSUME NEW s \in Places, s # {}
        PROVE  s \ {Max(s)} \in Places /\ Cardinality(s \ {Max(s)}) = Cardinality(s) - 1
    <2>1. Max(s) \in s
      BY <1>0, <1>2, MaxIsIn
    <2> QED
      BY <1>1, <2>1, FS_RemoveElement
  <1>3. UpTo(0)
    <2> DEFINE g == [s \in Places |-> 0]
    <2>1. g = [s \in Places |-> g[s]]
      OBVIOUS
    <2>2. \A s \in Places : Cardinality(s) <= 0 => g[s] = Sum(g, s)
      BY <1>1
    <2> HIDE DEF g, Sum
    <2> QED
      BY <2>1, <2>2
  <1>4. ASSUME NEW k \in Nat, UpTo(k) PROVE UpTo(k + 1)
    <2>1. PICK g : \A s \in Places : Cardinality(s) <= k => g[s] = Sum(g, s)
      BY <1>4
    <2> DEFINE h == [s \in Places |-> Sum(g, s)]
    <2>2. h = [s \in Places |-> h[s]]
      OBVIOUS
    <2>3. ASSUME NEW s \in Places, Cardinality(s) <= k + 1 PROVE h[s] = Sum(h, s)
      <3>1. CASE s = {}
        BY <3>1
      <3>2. CASE s # {}
        <4>1. Cardinality(s \ {Max(s)}) <= k /\ s \ {Max(s)} \in Places
          BY <1>1, <1>2, <2>3, <3>2
        <4>2. h[s \ {Max(s)}] = g[s \ {Max(s)}]
          BY <2>1, <4>1
        <4> QED
          BY <3>2, <4>2
      <3> QED
        BY <3>1, <3>2
    <2> HIDE DEF h, Sum
    <2> QED
      BY <2>2, <2>3
  <1> HIDE DEF UpTo
  <1>5. ASSUME NEW k \in Bad PROVE \E i \in Bad : i < k
    <2>1. k # 0 /\ k \in Nat
      BY <1>3, <1>5
    <2>2. k - 1 \in Nat /\ (k - 1) + 1 = k
      BY <2>1
    <2>3. k - 1 \in Bad
      BY <1>4, <1>5, <2>2
    <2> QED
      BY <2>1, <2>3
  <1>6. UpTo(Len(t))
    <2>1. Bad \in SUBSET Nat
      OBVIOUS
    <2> HIDE DEF Bad
    <2>2. Bad = {}
      BY <1>5, <2>1, LeastNumber
    <2> QED
      BY <1>0, <2>2 DEF Bad
  <1>7. PICK g : /\ g = [s \in Places |-> g[s]]
                 /\ \A s \in Places : Cardinality(s) <= Len(t) => g[s] = Sum(g, s)
    BY <1>6 DEF UpTo
  <1>8. \A s \in Places : Cardinality(s) <= Len(t)
    <2>1. Cardinality(1..Len(t)) = Len(t)
      BY <1>0, FS_Interval
    <2> QED
      BY <1>0, <2>1, FS_Subset
  <1>9. g = [s \in Places |-> Sum(g, s)]
    BY <1>7, <1>8
  <1> QED
    BY <1>9 DEF AddsUp

\* A sum of weights is positive exactly if one of them is.
LEMMA TotalPositive ==
  ASSUME NEW t \in Seq(Term)
  PROVE  Total(t) \in Nat /\ (Total(t) > 0 <=> \E x \in DOMAIN t : t[x].weight > 0)
  <1> DEFINE g == CHOOSE f : AddsUp(t, f)
             Places == SUBSET (DOMAIN t)
             Right(s) == g[s] \in Nat /\ (g[s] > 0 <=> \E x \in s : t[x].weight > 0)
             Bad == {k \in Nat : \E s \in Places : Cardinality(s) = k /\ ~Right(s)}
  <1>0. DOMAIN t = 1..Len(t) /\ Len(t) \in Nat /\ IsFiniteSet(DOMAIN t)
    BY FS_Interval
  <1>1. AddsUp(t, g)
    BY AddsUpExists
  <1> HIDE DEF g
  <1>2. g[{}] = 0 /\ \A s \in Places : s # {} => g[s] = g[s \ {Max(s)}] + t[Max(s)].weight
    BY <1>1 DEF AddsUp
  <1>3. ASSUME NEW x \in DOMAIN t PROVE t[x].weight \in Nat
    <2>1. t[x] \in Term
      BY <1>0
    <2> QED
      BY <2>1 DEF Term
  <1>4. Right({})
    BY <1>2
  <1>5. ASSUME NEW s \in Places, NEW m \in s, m = Max(s), Right(s \ {m})
        PROVE  Right(s)
    <2>1. g[s] = g[s \ {m}] + t[m].weight
      BY <1>2, <1>5
    <2>2. t[m].weight \in Nat /\ g[s \ {m}] \in Nat
      BY <1>3, <1>5
    <2>3. g[s] > 0 <=> g[s \ {m}] > 0 \/ t[m].weight > 0
      BY <2>1, <2>2
    <2>4. g[s] \in Nat
      BY <2>1, <2>2
    <2>5. g[s \ {m}] > 0 <=> \E x \in s \ {m} : t[x].weight > 0
      BY <1>5
    <2> QED
      BY <2>3, <2>4, <2>5
  <1> HIDE DEF Right
  <1>6. ASSUME NEW k \in Bad PROVE \E i \in Bad : i < k
    <2>0. k \in Nat
      OBVIOUS
    <2>1. PICK s \in Places : Cardinality(s) = k /\ ~Right(s)
      BY <1>6
    <2>2. s # {}
      BY <1>4, <2>1
    <2>3. Max(s) \in s
      BY <1>0, <2>2, MaxIsIn
    <2>4. IsFiniteSet(s)
      BY <1>0, FS_Subset
    <2>5. Cardinality(s \ {Max(s)}) = k - 1 /\ k - 1 \in Nat
      <3>1. IsFiniteSet(s \ {Max(s)})
        BY <2>3, <2>4, FS_RemoveElement
      <3> QED
        BY <2>0, <2>1, <2>3, <2>4, <3>1, FS_RemoveElement, FS_CardinalityType
    <2>6. ~Right(s \ {Max(s)}) /\ s \ {Max(s)} \in Places
      BY <1>5, <2>1, <2>3
    <2> QED
      BY <2>0, <2>5, <2>6
  <1>7. Bad = {}
    <2>1. Bad \in SUBSET Nat
      OBVIOUS
    <2> HIDE DEF Bad
    <2> QED
      BY <1>6, <2>1, LeastNumber
  <1>8. Right(DOMAIN t)
    <2>1. Cardinality(DOMAIN t) \in Nat
      BY <1>0, FS_CardinalityType
    <2> QED
      BY <1>7, <2>1
  <1> QED
    BY <1>8, TotalByChoice DEF g, Right

-----------------------------------------------------------------------------
(* The single pass over two vectors. *)

\* A vector: its terms in alphabetical order, each word once.
Ascending(t) ==
  t \in Seq(Term) /\ \A x, y \in DOMAIN t : x < y => t[x].word < t[y].word

LEMMA TermsOf ==
  ASSUME NEW t, Ascending(t), NEW x \in DOMAIN t
  PROVE  t[x].word \in Nat /\ t[x].weight \in Nat
  <1>1. t[x] \in Term
    BY DEF Ascending
  <1> QED
    BY <1>1 DEF Term

\* The pass at at: what it has still to add, given what it adds from later on.
Pass(a, b, f, at) ==
  LET i == at[1]
      j == at[2]
  IN IF i > Len(a) \/ j > Len(b) THEN <<>>
     ELSE IF a[i].word = b[j].word
            THEN <<[word |-> a[i].word, weight |-> a[i].weight * b[j].weight]>>
                   \o f[<<i + 1, j + 1>>]
     ELSE IF a[i].word < b[j].word THEN f[<<i + 1, j>>] ELSE f[<<i, j + 1>>]

Positions(a, b) == (1..Len(a) + 1) \X (1..Len(b) + 1)

Merges(a, b, f) == f = [at \in Positions(a, b) |-> Pass(a, b, f, at)]

LEMMA MergeByChoice ==
  ASSUME NEW a, NEW b
  PROVE  Merge(a, b) = (CHOOSE f : Merges(a, b, f))[<<1, 1>>]
  BY DEF Merge, Merges, Pass, Positions

\* How far the pass has to go.
Left(a, b, at) == (Len(a) + 1 - at[1]) + (Len(b) + 1 - at[2])

\* The pass moves forward at every step.
LEMMA PassMoves ==
  ASSUME NEW a \in Seq(Term), NEW b \in Seq(Term), NEW at \in Positions(a, b)
  PROVE  /\ Left(a, b, at) \in Nat /\ Left(a, b, at) <= Len(a) + Len(b)
         /\ Left(a, b, at) = 0 => at[1] > Len(a)
         /\ ~(at[1] > Len(a) \/ at[2] > Len(b)) =>
              \A to \in {<<at[1] + 1, at[2] + 1>>, <<at[1] + 1, at[2]>>, <<at[1], at[2] + 1>>} :
                to \in Positions(a, b) /\ Left(a, b, to) < Left(a, b, at)
  <1> DEFINE i == at[1]
             j == at[2]
             l == Len(a)
             m == Len(b)
  <1>1. l \in Nat /\ m \in Nat /\ i \in 1..l + 1 /\ j \in 1..m + 1
    BY DEF Positions
  <1>2. /\ Left(a, b, at) \in Nat /\ Left(a, b, at) <= Len(a) + Len(b)
        /\ Left(a, b, at) = 0 => at[1] > Len(a)
    <2>1. Left(a, b, at) = (l + 1 - i) + (m + 1 - j)
      BY DEF Left
    <2> HIDE DEF i, j, l, m
    <2>2. /\ Left(a, b, at) \in Nat /\ Left(a, b, at) <= l + m
          /\ Left(a, b, at) = 0 => i > l
      BY <1>1, <2>1
    <2> QED
      BY <2>2 DEF i, l, m
  <1>3. ASSUME ~(at[1] > Len(a) \/ at[2] > Len(b))
        PROVE  \A x \in {at[1], at[1] + 1}, y \in {at[2], at[2] + 1} : <<x, y>> \in Positions(a, b)
    BY <1>1, <1>3 DEF Positions
  <1>4. /\ Left(a, b, <<at[1] + 1, at[2] + 1>>) < Left(a, b, at)
        /\ Left(a, b, <<at[1] + 1, at[2]>>) < Left(a, b, at)
        /\ Left(a, b, <<at[1], at[2] + 1>>) < Left(a, b, at)
    <2>1. /\ Left(a, b, at) = (l + 1 - i) + (m + 1 - j)
          /\ Left(a, b, <<i + 1, j + 1>>) = (l + 1 - (i + 1)) + (m + 1 - (j + 1))
          /\ Left(a, b, <<i + 1, j>>) = (l + 1 - (i + 1)) + (m + 1 - j)
          /\ Left(a, b, <<i, j + 1>>) = (l + 1 - i) + (m + 1 - (j + 1))
      BY DEF Left
    <2> HIDE DEF i, j, l, m
    <2>2. /\ Left(a, b, <<i + 1, j + 1>>) < Left(a, b, at)
          /\ Left(a, b, <<i + 1, j>>) < Left(a, b, at)
          /\ Left(a, b, <<i, j + 1>>) < Left(a, b, at)
      BY <1>1, <2>1
    <2> QED
      BY <2>2 DEF i, j
  <1> QED
    BY <1>2, <1>3, <1>4

\* So it has a result.
LEMMA MergesExists ==
  ASSUME NEW a \in Seq(Term), NEW b \in Seq(Term)
  PROVE  \E f : Merges(a, b, f)
  <1> DEFINE P == Positions(a, b)
             UpTo(k) == \E f : /\ f = [at \in P |-> f[at]]
                               /\ \A at \in P : Left(a, b, at) <= k => f[at] = Pass(a, b, f, at)
             Bad == {k \in Nat : ~UpTo(k)}
  <1>0. Len(a) + Len(b) \in Nat
    OBVIOUS
  <1>1. \A at \in P : Left(a, b, at) \in Nat /\ Left(a, b, at) <= Len(a) + Len(b)
    BY PassMoves
  <1>2. \A f : \A at \in P : Left(a, b, at) <= 0 => Pass(a, b, f, at) = <<>>
    <2>1. \A at \in P : Left(a, b, at) <= 0 => at[1] > Len(a)
      <3>1. \A at \in P : Left(a, b, at) = 0 => at[1] > Len(a)
        BY PassMoves
      <3>2. \A at \in P : Left(a, b, at) <= 0 => Left(a, b, at) = 0
        BY <1>1
      <3> QED
        BY <3>1, <3>2
    <2> QED
      BY <2>1 DEF Pass
  <1>3. ASSUME NEW at \in P, NEW f, NEW g,
               \A to \in P : Left(a, b, to) < Left(a, b, at) => f[to] = g[to]
        PROVE  Pass(a, b, f, at) = Pass(a, b, g, at)
    <2>1. CASE at[1] > Len(a) \/ at[2] > Len(b)
      BY <2>1 DEF Pass
    <2>2. CASE ~(at[1] > Len(a) \/ at[2] > Len(b))
      <3>1. /\ f[<<at[1] + 1, at[2] + 1>>] = g[<<at[1] + 1, at[2] + 1>>]
            /\ f[<<at[1] + 1, at[2]>>] = g[<<at[1] + 1, at[2]>>]
            /\ f[<<at[1], at[2] + 1>>] = g[<<at[1], at[2] + 1>>]
        BY <1>3, <2>2, PassMoves
      <3> QED
        BY <3>1 DEF Pass
    <2> QED
      BY <2>1, <2>2
  <1> HIDE DEF P
  <1>4. UpTo(0)
    <2> DEFINE f == [at \in P |-> <<>>]
    <2>1. f = [at \in P |-> f[at]]
      OBVIOUS
    <2>2. \A at \in P : Left(a, b, at) <= 0 => f[at] = Pass(a, b, f, at)
      BY <1>2
    <2> HIDE DEF f
    <2> QED
      BY <2>1, <2>2
  <1>5. ASSUME NEW k \in Nat, UpTo(k) PROVE UpTo(k + 1)
    <2>1. PICK f : \A at \in P : Left(a, b, at) <= k => f[at] = Pass(a, b, f, at)
      BY <1>5
    <2> DEFINE h == [at \in P |-> Pass(a, b, f, at)]
    <2>2. h = [at \in P |-> h[at]]
      OBVIOUS
    <2>3. \A at \in P : h[at] = Pass(a, b, f, at)
      OBVIOUS
    <2> HIDE DEF h
    <2>4. ASSUME NEW at \in P, Left(a, b, at) <= k + 1 PROVE h[at] = Pass(a, b, h, at)
      <3>1. ASSUME NEW to \in P, Left(a, b, to) < Left(a, b, at) PROVE f[to] = h[to]
        <4>1. Left(a, b, to) <= k
          BY <1>1, <2>4, <3>1
        <4> QED
          BY <2>1, <2>3, <4>1
      <3>2. Pass(a, b, f, at) = Pass(a, b, h, at)
        BY <1>3, <3>1
      <3> QED
        BY <2>3, <3>2
    <2> QED
      BY <2>2, <2>4
  <1> HIDE DEF UpTo
  <1>6. ASSUME NEW k \in Bad PROVE \E i \in Bad : i < k
    <2>1. k # 0 /\ k \in Nat
      BY <1>4, <1>6
    <2>2. k - 1 \in Nat /\ (k - 1) + 1 = k
      BY <2>1
    <2>3. k - 1 \in Bad
      BY <1>5, <1>6, <2>2
    <2> QED
      BY <2>1, <2>3
  <1>7. UpTo(Len(a) + Len(b))
    <2>1. Bad \in SUBSET Nat
      OBVIOUS
    <2> HIDE DEF Bad
    <2>2. Bad = {}
      BY <1>6, <2>1, LeastNumber
    <2> QED
      BY <1>0, <2>2 DEF Bad
  <1>8. PICK f : /\ f = [at \in P |-> f[at]]
                 /\ \A at \in P : Left(a, b, at) <= Len(a) + Len(b) => f[at] = Pass(a, b, f, at)
    BY <1>7 DEF UpTo
  <1>9. f = [at \in P |-> Pass(a, b, f, at)]
    BY <1>1, <1>8
  <1> QED
    BY <1>9 DEF Merges, P

\* t is what two vectors have in common from the places i and j on.
Common(a, b, i, j, t) ==
  /\ Ascending(t)
  /\ \A x \in DOMAIN t : \E p \in i..Len(a), q \in j..Len(b) :
       /\ a[p].word = t[x].word /\ b[q].word = t[x].word
       /\ t[x].weight = a[p].weight * b[q].weight
  /\ \A p \in i..Len(a), q \in j..Len(b) :
       a[p].word = b[q].word => \E x \in DOMAIN t : t[x].word = a[p].word

\* Nothing is in common with an exhausted vector.
LEMMA CommonAtTheEnd ==
  ASSUME NEW a \in Seq(Term), NEW b \in Seq(Term), NEW i \in Nat, NEW j \in Nat,
         i > Len(a) \/ j > Len(b)
  PROVE  Common(a, b, i, j, <<>>)
  <1>1. Ascending(<<>>)
    BY DEF Ascending
  <1>2. ~\E p \in i..Len(a), q \in j..Len(b) : TRUE
    OBVIOUS
  <1> QED
    BY <1>1, <1>2 DEF Common

\* A word that is less than every word left of the other vector is passed over.
LEMMA CommonSkipLeft ==
  ASSUME NEW a, NEW b, Ascending(a), Ascending(b), NEW i \in 1..Len(a), NEW j \in 1..Len(b),
         a[i].word < b[j].word, NEW t, Common(a, b, i + 1, j, t)
  PROVE  Common(a, b, i, j, t)
  <1>0. Len(a) \in Nat /\ Len(b) \in Nat /\ DOMAIN a = 1..Len(a) /\ DOMAIN b = 1..Len(b)
    BY DEF Ascending
  <1>1. \A p \in i..Len(a) : p = i \/ p \in i + 1..Len(a)
    BY <1>0
  <1>2. i + 1..Len(a) \subseteq i..Len(a)
    BY <1>0
  <1>3. ASSUME NEW q \in j..Len(b) PROVE a[i].word # b[q].word
    <2>1. q \in DOMAIN b /\ j \in DOMAIN b /\ (q = j \/ j < q)
      BY <1>0
    <2>2. a[i].word \in Nat /\ b[j].word \in Nat /\ b[q].word \in Nat
      BY <1>0, <2>1, TermsOf
    <2>3. b[j].word <= b[q].word
      BY <2>1, <2>2 DEF Ascending
    <2> QED
      BY <2>2, <2>3
  <1> QED
    BY <1>1, <1>2, <1>3 DEF Common

LEMMA CommonSkipRight ==
  ASSUME NEW a, NEW b, Ascending(a), Ascending(b), NEW i \in 1..Len(a), NEW j \in 1..Len(b),
         b[j].word < a[i].word, NEW t, Common(a, b, i, j + 1, t)
  PROVE  Common(a, b, i, j, t)
  <1>0. Len(a) \in Nat /\ Len(b) \in Nat /\ DOMAIN a = 1..Len(a) /\ DOMAIN b = 1..Len(b)
    BY DEF Ascending
  <1>1. \A q \in j..Len(b) : q = j \/ q \in j + 1..Len(b)
    BY <1>0
  <1>2. j + 1..Len(b) \subseteq j..Len(b)
    BY <1>0
  <1>3. ASSUME NEW p \in i..Len(a) PROVE a[p].word # b[j].word
    <2>1. p \in DOMAIN a /\ i \in DOMAIN a /\ (p = i \/ i < p)
      BY <1>0
    <2>2. b[j].word \in Nat /\ a[i].word \in Nat /\ a[p].word \in Nat
      BY <1>0, <2>1, TermsOf
    <2>3. a[i].word <= a[p].word
      BY <2>1, <2>2 DEF Ascending
    <2> QED
      BY <2>2, <2>3
  <1> QED
    BY <1>1, <1>2, <1>3 DEF Common

\* A common word comes before those in common later on.
LEMMA CommonTake ==
  ASSUME NEW a, NEW b, Ascending(a), Ascending(b), NEW i \in 1..Len(a), NEW j \in 1..Len(b),
         a[i].word = b[j].word, NEW rest, Common(a, b, i + 1, j + 1, rest)
  PROVE  Common(a, b, i, j,
           <<[word |-> a[i].word, weight |-> a[i].weight * b[j].weight]>> \o rest)
  <1> DEFINE e == [word |-> a[i].word, weight |-> a[i].weight * b[j].weight]
             t == <<e>> \o rest
  <1>0. Len(a) \in Nat /\ Len(b) \in Nat /\ DOMAIN a = 1..Len(a) /\ DOMAIN b = 1..Len(b)
    BY DEF Ascending
  <1>1. a[i] \in Term /\ b[j] \in Term
    BY <1>0 DEF Ascending
  <1>2. e \in Term
    <2>1. a[i].word \in Nat /\ a[i].weight \in Nat /\ b[j].weight \in Nat
      BY <1>1 DEF Term
    <2> QED
      BY <2>1, Products DEF Term
  <1>3. rest \in Seq(Term) /\ Len(rest) \in Nat /\ DOMAIN rest = 1..Len(rest)
    BY DEF Common, Ascending
  <1>4. e.word = a[i].word /\ e.weight = a[i].weight * b[j].weight
    OBVIOUS
  <1> HIDE DEF e
  <1>5. /\ t \in Seq(Term) /\ DOMAIN t = 1..Len(rest) + 1 /\ t[1] = e
        /\ \A x \in 1..Len(rest) : t[x + 1] = rest[x]
    <2>1. <<e>> \in Seq(Term) /\ Len(<<e>>) = 1
      BY <1>2
    <2> QED
      BY <1>2, <1>3, <2>1
  <1> HIDE DEF t
  <1>6. \A x \in DOMAIN t : x = 1 \/ (x - 1 \in DOMAIN rest /\ t[x] = rest[x - 1])
    <2> SUFFICES ASSUME NEW x \in DOMAIN t, x # 1
                 PROVE  x - 1 \in DOMAIN rest /\ t[x] = rest[x - 1]
      OBVIOUS
    <2>1. x - 1 \in 1..Len(rest) /\ (x - 1) + 1 = x
      BY <1>3, <1>5
    <2> QED
      BY <1>3, <1>5, <2>1
  <1>7. ASSUME NEW x \in DOMAIN rest PROVE e.word < rest[x].word
    <2>1. PICK p \in i + 1..Len(a) : a[p].word = rest[x].word
      BY DEF Common
    <2>2. p \in DOMAIN a /\ i \in DOMAIN a /\ i < p
      BY <1>0
    <2> QED
      BY <1>4, <2>1, <2>2 DEF Ascending
  <1>8. ASSUME NEW x \in DOMAIN t, NEW y \in DOMAIN t, x < y PROVE t[x].word < t[y].word
    <2>1. x \in Nat /\ y \in Nat /\ x >= 1 /\ y # 1
      BY <1>3, <1>5, <1>8
    <2>2. y - 1 \in DOMAIN rest /\ t[y] = rest[y - 1]
      BY <1>6, <2>1
    <2>3. CASE x = 1
      BY <1>5, <1>7, <2>2, <2>3
    <2>4. CASE x # 1
      <3>1. x - 1 \in DOMAIN rest /\ t[x] = rest[x - 1]
        BY <1>6, <2>4
      <3>2. x - 1 < y - 1
        BY <1>8, <2>1
      <3> QED
        BY <2>2, <3>1, <3>2 DEF Common, Ascending
    <2> QED
      BY <2>3, <2>4
  <1>9. Ascending(t)
    BY <1>5, <1>8 DEF Ascending
  <1>10. i + 1..Len(a) \subseteq i..Len(a) /\ j + 1..Len(b) \subseteq j..Len(b)
         /\ i \in i..Len(a) /\ j \in j..Len(b)
    BY <1>0
  <1>11. ASSUME NEW x \in DOMAIN t
         PROVE  \E p \in i..Len(a), q \in j..Len(b) :
                  /\ a[p].word = t[x].word /\ b[q].word = t[x].word
                  /\ t[x].weight = a[p].weight * b[q].weight
    <2>1. CASE x = 1
      BY <1>4, <1>5, <1>10, <2>1
    <2>2. CASE x # 1
      <3>1. x - 1 \in DOMAIN rest /\ t[x] = rest[x - 1]
        BY <1>6, <2>2
      <3>0. \A y \in DOMAIN rest : \E p \in i + 1..Len(a), q \in j + 1..Len(b) :
              /\ a[p].word = rest[y].word /\ b[q].word = rest[y].word
              /\ rest[y].weight = a[p].weight * b[q].weight
        BY Zenon DEF Common
      <3>2. PICK p \in i + 1..Len(a), q \in j + 1..Len(b) :
              /\ a[p].word = t[x].word /\ b[q].word = t[x].word
              /\ t[x].weight = a[p].weight * b[q].weight
        BY <3>0, <3>1, Zenon
      <3>3. p \in i..Len(a) /\ q \in j..Len(b)
        BY <1>10
      <3> QED
        BY <3>2, <3>3
    <2> QED
      BY <2>1, <2>2
  <1>12. ASSUME NEW p \in i..Len(a), NEW q \in j..Len(b), a[p].word = b[q].word
         PROVE  \E x \in DOMAIN t : t[x].word = a[p].word
    <2>0. 1 \in DOMAIN t /\ t[1].word = a[i].word
      BY <1>3, <1>4, <1>5
    <2>1. CASE p = i \/ q = j
      BY <1>12, <2>0, <2>1
    <2>2. CASE p # i /\ q # j
      <3>1. p \in i + 1..Len(a) /\ q \in j + 1..Len(b)
        BY <1>0, <2>2
      <3>2. PICK x \in DOMAIN rest : rest[x].word = a[p].word
        BY <1>12, <3>1 DEF Common
      <3>3. x + 1 \in DOMAIN t /\ t[x + 1] = rest[x]
        BY <1>3, <1>5
      <3> QED
        BY <3>2, <3>3
    <2> QED
      BY <2>1, <2>2
  <1> QED
    BY <1>9, <1>11, <1>12 DEF Common, t, e

\* The pass over two vectors finds what they have in common.
LEMMA MergeIsCommon ==
  ASSUME NEW a, NEW b, Ascending(a), Ascending(b)
  PROVE  Common(a, b, 1, 1, Merge(a, b))
  <1> DEFINE f == CHOOSE g : Merges(a, b, g)
             P == Positions(a, b)
             Right(at) == Common(a, b, at[1], at[2], f[at])
             Bad == {k \in Nat : \E at \in P : Left(a, b, at) = k /\ ~Right(at)}
  <1>0. a \in Seq(Term) /\ b \in Seq(Term) /\ Len(a) \in Nat /\ Len(b) \in Nat
    BY DEF Ascending
  <1>1. Merges(a, b, f)
    BY <1>0, MergesExists
  <1> HIDE DEF f
  <1>2. \A at \in P : f[at] = Pass(a, b, f, at)
    BY <1>1 DEF Merges
  <1>3. ASSUME NEW at \in P, ~Right(at)
        PROVE  \E to \in P : Left(a, b, to) < Left(a, b, at) /\ ~Right(to)
    <2> DEFINE i == at[1]
               j == at[2]
    <2>1. i \in Nat /\ j \in Nat
      BY <1>0 DEF Positions
    <2>2. ~(i > Len(a) \/ j > Len(b))
      <3> SUFFICES ASSUME i > Len(a) \/ j > Len(b) PROVE Right(at)
        BY <1>3
      <3>1. f[at] = <<>>
        BY <1>2 DEF Pass
      <3> QED
        BY <1>0, <2>1, <3>1, CommonAtTheEnd
    <2>3. i \in 1..Len(a) /\ j \in 1..Len(b)
      BY <1>0, <2>2 DEF Positions
    <2>4. \A to \in {<<i + 1, j + 1>>, <<i + 1, j>>, <<i, j + 1>>} :
            to \in P /\ Left(a, b, to) < Left(a, b, at)
      BY <1>0, <2>2, PassMoves
    <2>5. a[i].word \in Nat /\ b[j].word \in Nat
      <3>1. a[i] \in Term /\ b[j] \in Term
        BY <1>0, <2>3
      <3> QED
        BY <3>1 DEF Term
    <2>6. CASE a[i].word = b[j].word
      <3>1. f[at] = <<[word |-> a[i].word, weight |-> a[i].weight * b[j].weight]>>
                      \o f[<<i + 1, j + 1>>]
        BY <1>2, <2>2, <2>6 DEF Pass
      <3>2. ~Right(<<i + 1, j + 1>>)
        BY <1>3, <2>3, <2>6, <3>1, CommonTake
      <3> QED
        BY <2>4, <3>2
    <2>7. CASE a[i].word < b[j].word
      <3>0. a[i].word # b[j].word
        BY <2>5, <2>7
      <3>1. f[at] = f[<<i + 1, j>>]
        BY <1>2, <2>2, <2>7, <3>0 DEF Pass
      <3>2. ~Right(<<i + 1, j>>)
        BY <1>3, <2>3, <2>7, <3>1, CommonSkipLeft
      <3> QED
        BY <2>4, <3>2
    <2>8. CASE b[j].word < a[i].word
      <3>0. a[i].word # b[j].word /\ ~(a[i].word < b[j].word)
        BY <2>5, <2>8
      <3>1. f[at] = f[<<i, j + 1>>]
        BY <1>2, <2>2, <3>0 DEF Pass
      <3>2. ~Right(<<i, j + 1>>)
        BY <1>3, <2>3, <2>8, <3>1, CommonSkipRight
      <3> QED
        BY <2>4, <3>2
    <2> QED
      BY <2>5, <2>6, <2>7, <2>8
  <1> HIDE DEF Right, P
  <1>4. ASSUME NEW k \in Bad PROVE \E i \in Bad : i < k
    <2>1. PICK at \in P : Left(a, b, at) = k /\ ~Right(at)
      OBVIOUS
    <2>2. PICK to \in P : Left(a, b, to) < Left(a, b, at) /\ ~Right(to)
      BY <1>3, <2>1
    <2>3. Left(a, b, to) \in Nat
      BY <1>0, PassMoves DEF P
    <2> QED
      BY <2>1, <2>2, <2>3
  <1>5. Bad = {}
    <2>1. Bad \in SUBSET Nat
      OBVIOUS
    <2> HIDE DEF Bad
    <2> QED
      BY <1>4, <2>1, LeastNumber
  <1>6. <<1, 1>> \in P
    BY <1>0 DEF P, Positions
  <1>7. Right(<<1, 1>>)
    <2>1. Left(a, b, <<1, 1>>) \in Nat
      BY <1>0, <1>6, PassMoves DEF P
    <2> QED
      BY <1>5, <1>6, <2>1
  <1> QED
    BY <1>7, MergeByChoice DEF Right, f

-----------------------------------------------------------------------------
(* The catalogue and the weights of its words. *)

CatalogueRead == \E texts \in BoundedSeq(Texts, MaxProducts) : products = Rows(texts)

LEMMA CatalogueShape ==
  ASSUME CatalogueRead
  PROVE  /\ n \in Nat /\ n <= MaxProducts /\ DOMAIN products = 1..n
         /\ \A i \in 1..n : /\ products[i].id = FirstId + i /\ products[i].id \in Nat
                            /\ products[i].text \in Seq(Field)
  <1>1. PICK texts \in BoundedSeq(Texts, MaxProducts) : products = Rows(texts)
    BY DEF CatalogueRead
  <1>2. PICK m \in 0..MaxProducts : texts \in [1..m -> Texts]
    BY DEF BoundedSeq, SeqOf
  <1>3. m \in Nat /\ m <= MaxProducts
    BY <1>2, ReindexingAssumption
  <1>4. products = [i \in 1..m |-> [id |-> FirstId + i, text |-> texts[i]]]
    BY <1>1, <1>2 DEF Rows
  <1>5. n = m /\ DOMAIN products = 1..m
    BY <1>3, <1>4 DEF n
  <1>6. \A i \in 1..m : /\ products[i].id = FirstId + i /\ products[i].text = texts[i]
    BY <1>4
  <1>7. \A i \in 1..m : FirstId + i \in Nat /\ texts[i] \in Seq(Field)
    BY <1>2, <1>3, ReindexingAssumption
  <1> QED
    BY <1>3, <1>5, <1>6, <1>7

\* Two products have the same id only if they are one.
LEMMA EdgesTellApart ==
  ASSUME CatalogueRead, NEW i \in 1..n, NEW j \in 1..n, NEW k \in 1..n, NEW l \in 1..n,
         Edge(i, j) = Edge(k, l)
  PROVE  i = k /\ j = l
  <1>1. products[i].id = products[k].id /\ products[j].id = products[l].id
    BY DEF Edge
  <1>2. FirstId + i = FirstId + k /\ FirstId + j = FirstId + l
    BY <1>1, CatalogueShape
  <1>3. FirstId \in Nat /\ n \in Nat
    BY ReindexingAssumption, CatalogueShape
  <1> QED
    BY <1>2, <1>3

LEMMA FiniteImage ==
  ASSUME NEW S, IsFiniteSet(S), NEW f
  PROVE  IsFiniteSet({f[x] : x \in S})
  <1> DEFINE T == {f[x] : x \in S}
             g == [x \in S |-> f[x]]
  <1>1. g \in Surjection(S, T)
    BY DEF Surjection
  <1> QED
    BY <1>1, FS_Surjection

LEMMA WordsOf ==
  ASSUME CatalogueRead, NEW i \in 1..n
  PROVE  IsFiniteSet(Words(products[i])) /\ Words(products[i]) \subseteq Nat
  <1> DEFINE t == products[i].text
             Fields == {t[x] : x \in DOMAIN t}
  <1>1. t \in Seq(Field)
    BY CatalogueShape
  <1> HIDE DEF t
  <1>2. IsFiniteSet(DOMAIN t)
    BY <1>1, FS_Interval
  <1>3. IsFiniteSet(Fields)
    BY <1>2, FiniteImage
  <1>4. Fields \in SUBSET Nat
    <2>1. \A x \in DOMAIN t : t[x] \in Field
      BY <1>1
    <2> QED
      BY <2>1, ReindexingAssumption
  <1>5. Words(products[i]) = Fields \ Dropped
    BY DEF Words, tokenise, ToSet, t
  <1> HIDE DEF Fields
  <1>6. Fields \ Dropped \in SUBSET Fields
    OBVIOUS
  <1> QED
    BY <1>3, <1>4, <1>5, <1>6, FS_Subset

\* A word that is not within every text of the catalogue.
Rare(w) == \E k \in 1..n : \A f \in ToSet(products[k].text) : w \notin Within[f]

\* A word of a text weighs something exactly if it is rare.
LEMMA WeightOfAWord ==
  ASSUME CatalogueRead, NEW i \in 1..n, NEW w \in Words(products[i])
  PROVE  Weight(products[i], w) \in Nat /\ (Weight(products[i], w) > 0 <=> Rare(w))
  <1> DEFINE t == products[i].text
             Occurs == {x \in DOMAIN t : t[x] = w}
             Has == {k \in 1..n : \E f \in ToSet(products[k].text) : w \in Within[f]}
             o == Cardinality(Occurs)
             d == DocFreq(w)
  <1>1. n \in Nat /\ n <= MaxProducts /\ t \in Seq(Field)
    BY CatalogueShape
  <1>2. PICK x \in DOMAIN t : t[x] = w
    BY DEF Words, tokenise, ToSet
  <1>3. IsFiniteSet(DOMAIN t)
    <2> HIDE DEF t
    <2> QED
      BY <1>1, FS_Interval
  <1>4. o \in Nat /\ o > 0
    <2>1. Occurs \in SUBSET DOMAIN t /\ Occurs # {}
      BY <1>2
    <2> HIDE DEF Occurs, t
    <2>2. IsFiniteSet(Occurs)
      BY <1>3, <2>1, FS_Subset
    <2>3. o \in Nat /\ o # 0
      BY <2>1, <2>2, FS_CardinalityType, FS_EmptySet
    <2> QED
      BY <2>3
  <1>5. w \in Field
    BY <1>1, <1>2
  <1>6. i \in Has
    BY <1>2, <1>5, ReindexingAssumption DEF ToSet
  <1>7. d = Cardinality(Has)
    BY DEF DocFreq
  <1>8. Has \in SUBSET (1..n) /\ IsFiniteSet(1..n) /\ Cardinality(1..n) = n
    BY <1>1, FS_Interval
  <1>9. d \in 1..n /\ (d = n <=> Has = 1..n)
    <2> HIDE DEF Has, d
    <2>1. IsFiniteSet(Has) /\ d <= n /\ (n = d => 1..n = Has)
      BY <1>7, <1>8, FS_Subset
    <2>2. d \in Nat /\ d # 0
      BY <1>6, <1>7, <2>1, FS_CardinalityType, FS_EmptySet
    <2> QED
      BY <1>1, <1>7, <1>8, <2>1, <2>2
  <1>10. Has = 1..n <=> ~Rare(w)
    BY DEF Rare
  <1> HIDE DEF Has, d, o
  <1>11. Idf[n][d] \in Nat /\ (Idf[n][d] = 0 <=> d = n)
    <2>1. n \in 1..MaxProducts
      BY <1>1, ReindexingAssumption
    <2> QED
      BY <1>9, <2>1, IdfAssumption
  <1>12. Weight(products[i], w) = o * Idf[n][d]
    BY DEF Weight, o, d
  <1>13. o * Idf[n][d] \in Nat /\ (o * Idf[n][d] > 0 <=> Idf[n][d] > 0)
    BY <1>4, <1>11, Products
  <1>14. Idf[n][d] > 0 <=> d # n
    BY <1>11
  <1> QED
    BY <1>9, <1>10, <1>12, <1>13, <1>14

-----------------------------------------------------------------------------
(* Vectors and their dot products. *)

\* v is the vector of product i: its words in alphabetical order, weighted.
IsVector(v, i) ==
  /\ Ascending(v)
  /\ {v[x].word : x \in DOMAIN v} = Words(products[i])
  /\ \A x \in DOMAIN v : v[x].weight = Weight(products[i], v[x].word)

\* In whatever order the map is iterated.
LEMMA VectorMade ==
  ASSUME CatalogueRead, NEW i \in 1..n, NEW iteration \in SetToSeqs(Words(products[i]))
  PROVE  IsVector(tfidfVector(products[i], iteration), i)
  <1> DEFINE W == Words(products[i])
             term(w) == [word |-> w, weight |-> Weight(products[i], w)]
             S == {term(w) : w \in W}
             R == ByWord(S)
             vec == [x \in DOMAIN iteration |-> term(iteration[x])]
             v == tfidfVector(products[i], iteration)
  <1>1. IsFiniteSet(W) /\ W \subseteq Nat
    BY WordsOf
  <1>2. ToSet(iteration) = W
    BY <1>1, ListsOnce
  <1>3. ToSet(vec) = S
    <2>1. \A w \in W : \E x \in DOMAIN iteration : iteration[x] = w
      BY <1>2 DEF ToSet
    <2>2. \A x \in DOMAIN iteration : iteration[x] \in W
      BY <1>2 DEF ToSet
    <2>3. DOMAIN vec = DOMAIN iteration /\ \A x \in DOMAIN iteration : vec[x] = term(iteration[x])
      OBVIOUS
    <2> HIDE DEF vec, W, term
    <2> QED
      BY <2>1, <2>2, <2>3 DEF ToSet
  <1>4. v = CHOOSE s \in SetToSeqs(S) : \A x, y \in DOMAIN s : x < y => <<s[x], s[y]>> \in R
    BY <1>3 DEF tfidfVector, SortByWord, Sorted
  <1>5. IsFiniteSet(S)
    <2> DEFINE f == [w \in W |-> term(w)]
    <2> HIDE DEF W, term
    <2>1. S = {f[w] : w \in W}
      OBVIOUS
    <2> HIDE DEF f
    <2> QED
      BY <1>1, <2>1, FiniteImage
  <1>6. \A w \in W : term(w) \in Term /\ term(w).word = w
                     /\ term(w).weight = Weight(products[i], w)
    BY <1>1, WeightOfAWord DEF Term
  <1> HIDE DEF term, W
  <1>7. \A s \in S : /\ s \in Term /\ s.word \in W /\ s.word \in Nat
                     /\ s.weight = Weight(products[i], s.word)
    BY <1>1, <1>6
  <1>8. \A s, t \in S : s.word = t.word => s = t
    BY <1>6
  <1>9. \A w \in W : \E s \in S : s.word = w
    BY <1>6
  <1> HIDE DEF S
  <1>10. /\ \A s \in S : <<s, s>> \notin R
         /\ \A s, t, u \in S : <<s, t>> \in R /\ <<t, u>> \in R => <<s, u>> \in R
         /\ \A s, t \in S : s # t => <<s, t>> \in R \/ <<t, s>> \in R
         /\ \A s, t : <<s, t>> \in R => s.word < t.word
    BY <1>7, <1>8 DEF ByWord
  <1> HIDE DEF R
  <1>11. v \in SetToSeqs(S) /\ \A x, y \in DOMAIN v : x < y => v[x].word < v[y].word
    <2> HIDE DEF v
    <2>1. \E s \in SetToSeqs(S) : \A x, y \in DOMAIN s : x < y => <<s[x], s[y]>> \in R
      BY <1>5, <1>10, OrderedList
    <2>2. v \in SetToSeqs(S) /\ \A x, y \in DOMAIN v : x < y => <<v[x], v[y]>> \in R
      BY <1>4, <2>1
    <2> QED
      BY <1>10, <2>2
  <1> HIDE DEF v
  <1>12. v \in Seq(S) /\ ToSet(v) = S
    BY <1>5, <1>11, ListsOnce
  <1>13. v \in Seq(Term)
    BY <1>7, <1>12
  <1>14. \A x \in DOMAIN v : v[x] \in S
    BY <1>12 DEF ToSet
  <1>15. \A s \in S : \E x \in DOMAIN v : v[x] = s
    BY <1>12 DEF ToSet
  <1>16. {v[x].word : x \in DOMAIN v} = W
    BY <1>7, <1>9, <1>14, <1>15
  <1>17. IsVector(v, i)
    BY <1>7, <1>11, <1>13, <1>14, <1>16 DEF IsVector, Ascending, W
  <1> QED
    BY <1>17 DEF v

\* An ascending list lists its elements once.
LEMMA AscendingLists ==
  ASSUME NEW v, Ascending(v)
  PROVE  IsFiniteSet(ToSet(v)) /\ v \in SetToSeqs(ToSet(v))
  <1> DEFINE S == ToSet(v)
             l == Len(v)
  <1>1. l \in Nat /\ DOMAIN v = 1..l /\ v \in [1..l -> S]
    <2>1. v \in Seq(Term)
      BY DEF Ascending
    <2>2. l \in Nat /\ DOMAIN v = 1..l /\ v = [x \in 1..l |-> v[x]]
      BY <2>1
    <2>3. \A x \in DOMAIN v : v[x] \in S
      BY DEF ToSet
    <2> HIDE DEF S, l
    <2> QED
      BY <2>2, <2>3
  <1>2. ASSUME NEW x \in 1..l, NEW y \in 1..l, v[x] = v[y] PROVE x = y
    <2>1. x \in DOMAIN v /\ y \in DOMAIN v /\ v[x].word \in Nat
      BY <1>1, TermsOf
    <2>2. ~(x < y) /\ ~(y < x)
      <3>1. ~(v[x].word < v[y].word) /\ ~(v[y].word < v[x].word)
        BY <1>2, <2>1
      <3> QED
        BY <2>1, <3>1 DEF Ascending
    <2> HIDE DEF l
    <2> QED
      BY <1>1, <2>2
  <1>3. v \in Surjection(1..l, S) /\ v \in Injection(1..l, S)
    <2>1. \A e \in S : \E x \in 1..l : v[x] = e
      BY <1>1 DEF ToSet
    <2> HIDE DEF S, l
    <2> QED
      BY <1>1, <1>2, <2>1 DEF Surjection, Injection, IsInjective
  <1>4. IsFiniteSet(1..l) /\ Cardinality(1..l) = l
    BY <1>1, FS_Interval
  <1> HIDE DEF S, l
  <1>5. IsFiniteSet(S) /\ Cardinality(S) = l
    BY <1>3, <1>4, FS_Surjection
  <1>6. v \in SetToSeqs(S)
    BY <1>1, <1>2, <1>5 DEF SetToSeqs
  <1> QED
    BY <1>5, <1>6 DEF S

\* A product has one vector: two runs over a catalogue compute with the same
\* numbers, added up in the same order (catalogue.go:100-110).
THEOREM VectorsDetermined ==
  ASSUME CatalogueRead, NEW i \in 1..n, NEW v, NEW w, IsVector(v, i), IsVector(w, i)
  PROVE  v = w
  <1> DEFINE W == Words(products[i])
             S == ToSet(v)
             R == ByWord(S)
  <1>1. ASSUME NEW u, IsVector(u, i)
        PROVE  /\ Ascending(u)
               /\ \A x \in DOMAIN u : /\ u[x] \in Term /\ u[x].word \in W
                                       /\ u[x].weight = Weight(products[i], u[x].word)
               /\ \A e \in W : \E x \in DOMAIN u : u[x].word = e
    BY <1>1 DEF IsVector, Ascending
  <1>2. \A s, t \in Term : s.word = t.word /\ s.weight = t.weight => s = t
    BY DEF Term
  <1> HIDE DEF W
  <1>3. ASSUME NEW a, NEW b, IsVector(a, i), IsVector(b, i) PROVE ToSet(a) \subseteq ToSet(b)
    <2> SUFFICES ASSUME NEW x \in DOMAIN a PROVE \E y \in DOMAIN b : b[y] = a[x]
      BY DEF ToSet
    <2>1. a[x] \in Term /\ a[x].word \in W /\ a[x].weight = Weight(products[i], a[x].word)
      BY <1>1, <1>3
    <2>2. PICK y \in DOMAIN b : b[y].word = a[x].word
      BY <1>1, <1>3, <2>1
    <2>3. b[y] \in Term /\ b[y].weight = Weight(products[i], b[y].word)
      BY <1>1, <1>3
    <2> QED
      BY <1>2, <2>1, <2>2, <2>3
  <1>4. ToSet(w) = S
    BY <1>3
  <1>5. IsFiniteSet(S) /\ v \in SetToSeqs(S) /\ w \in SetToSeqs(S)
    BY <1>1, <1>4, AscendingLists
  <1>6. \A s \in S : s.word \in Nat
    BY <1>1 DEF ToSet, Term
  <1>7. ASSUME NEW u, Ascending(u), ToSet(u) = S
        PROVE  \A x, y \in DOMAIN u : x < y => <<u[x], u[y]>> \in R
    <2>1. \A x \in DOMAIN u : u[x] \in S
      BY <1>7 DEF ToSet
    <2>2. \A x, y \in DOMAIN u : x < y => u[x].word < u[y].word
      BY <1>7 DEF Ascending
    <2> HIDE DEF S
    <2> QED
      BY <2>1, <2>2 DEF ByWord
  <1>8. /\ \A x, y \in DOMAIN v : x < y => <<v[x], v[y]>> \in R
        /\ \A x, y \in DOMAIN w : x < y => <<w[x], w[y]>> \in R
    BY <1>1, <1>4, <1>7
  <1> HIDE DEF S
  <1>9. /\ \A s \in S : <<s, s>> \notin R
        /\ \A s, t, u \in S : <<s, t>> \in R /\ <<t, u>> \in R => <<s, u>> \in R
    BY <1>6 DEF ByWord
  <1> HIDE DEF R
  <1> QED
    BY <1>5, <1>8, <1>9, OneOrderedList

\* A dot product adds up the common words.
LEMMA MergedWords ==
  ASSUME NEW i \in 1..n, NEW j \in 1..n, NEW a, NEW b, IsVector(a, i), IsVector(b, j),
         NEW t, t = Merge(a, b)
  PROVE  /\ Ascending(t)
         /\ {t[x].word : x \in DOMAIN t} = Words(products[i]) \cap Words(products[j])
         /\ \A x \in DOMAIN t :
              t[x].weight = Weight(products[i], t[x].word) * Weight(products[j], t[x].word)
  <1>1. Common(a, b, 1, 1, t)
    BY MergeIsCommon DEF IsVector
  <1>2. DOMAIN a = 1..Len(a) /\ DOMAIN b = 1..Len(b)
    BY DEF IsVector, Ascending
  <1>3. ASSUME NEW x \in DOMAIN t
        PROVE  /\ t[x].word \in Words(products[i]) /\ t[x].word \in Words(products[j])
               /\ t[x].weight = Weight(products[i], t[x].word) * Weight(products[j], t[x].word)
    <2>0. \E p \in 1..Len(a), q \in 1..Len(b) :
            /\ a[p].word = t[x].word /\ b[q].word = t[x].word
            /\ t[x].weight = a[p].weight * b[q].weight
      BY <1>1, Zenon DEF Common
    <2>1. PICK p \in DOMAIN a, q \in DOMAIN b :
            /\ a[p].word = t[x].word /\ b[q].word = t[x].word
            /\ t[x].weight = a[p].weight * b[q].weight
      BY <1>2, <2>0, Zenon
    <2>2. a[p].word \in Words(products[i]) /\ a[p].weight = Weight(products[i], a[p].word)
      BY DEF IsVector
    <2>3. b[q].word \in Words(products[j]) /\ b[q].weight = Weight(products[j], b[q].word)
      BY DEF IsVector
    <2> QED
      BY <2>1, <2>2, <2>3
  <1>4. ASSUME NEW w \in Words(products[i]), w \in Words(products[j])
        PROVE  \E x \in DOMAIN t : t[x].word = w
    <2>1. PICK p \in DOMAIN a : a[p].word = w
      BY DEF IsVector
    <2>2. PICK q \in DOMAIN b : b[q].word = w
      BY <1>4 DEF IsVector
    <2> QED
      BY <1>1, <1>2, <2>1, <2>2 DEF Common
  <1>5. {t[x].word : x \in DOMAIN t} = Words(products[i]) \cap Words(products[j])
    BY <1>3, <1>4
  <1>6. Ascending(t)
    BY <1>1 DEF Common
  <1> QED
    BY <1>3, <1>5, <1>6

Vectorised == \A i \in 1..n : IsVector(vectors[i], i)

\* Two products are similar exactly if they share a rare word.
LEMMA DotOfProducts ==
  ASSUME CatalogueRead, Vectorised, NEW i \in 1..n, NEW j \in 1..n
  PROVE  /\ Dot(i, j) \in Nat
         /\ Dot(i, j) > 0 <=> \E w \in Words(products[i]) \cap Words(products[j]) : Rare(w)
  <1> DEFINE t == Merge(vectors[i], vectors[j])
             Both == Words(products[i]) \cap Words(products[j])
  <1>1. /\ Ascending(t)
        /\ {t[x].word : x \in DOMAIN t} = Both
        /\ \A x \in DOMAIN t :
             t[x].weight = Weight(products[i], t[x].word) * Weight(products[j], t[x].word)
    <2>1. IsVector(vectors[i], i) /\ IsVector(vectors[j], j)
      BY DEF Vectorised
    <2> HIDE DEF t
    <2>2. t = Merge(vectors[i], vectors[j])
      BY DEF t
    <2> QED
      BY <2>1, <2>2, MergedWords
  <1>2. Dot(i, j) = Total(t)
    BY DEF Dot
  <1> HIDE DEF t
  <1>3. \A w \in Both : /\ Weight(products[i], w) \in Nat /\ (Weight(products[i], w) > 0 <=> Rare(w))
                        /\ Weight(products[j], w) \in Nat /\ (Weight(products[j], w) > 0 <=> Rare(w))
    BY WeightOfAWord
  <1>4. ASSUME NEW w \in Both
        PROVE  Weight(products[i], w) * Weight(products[j], w) > 0 <=> Rare(w)
    BY <1>3, Products
  <1> HIDE DEF Both
  <1>5. \A x \in DOMAIN t : t[x].word \in Both /\ (t[x].weight > 0 <=> Rare(t[x].word))
    BY <1>1, <1>4
  <1>6. \A w \in Both : \E x \in DOMAIN t : t[x].word = w
    BY <1>1
  <1>7. Total(t) \in Nat /\ (Total(t) > 0 <=> \E x \in DOMAIN t : t[x].weight > 0)
    BY <1>1, TotalPositive DEF Ascending
  <1>8. Total(t) > 0 <=> \E w \in Both : Rare(w)
    BY <1>5, <1>6, <1>7
  <1> QED
    BY <1>2, <1>7, <1>8 DEF Both

-----------------------------------------------------------------------------
(* Ranking. *)

LEMMA Scaled ==
  ASSUME NEW u \in Nat, NEW v \in Nat, NEW w \in Nat
  PROVE  /\ u >= v => u * w >= v * w
         /\ u > v /\ w > 0 => u * w > v * w
  <1>1. ASSUME NEW d \in Nat PROVE (v + d) * w = v * w + d * w
    OBVIOUS
  <1>2. ASSUME u >= v PROVE u * w = v * w + (u - v) * w /\ u - v \in Nat
    <2>1. u - v \in Nat /\ v + (u - v) = u
      BY <1>2
    <2> QED
      BY <1>1, <2>1
  <1>3. ASSUME u >= v PROVE u * w >= v * w
    <2>1. (u - v) * w \in Nat /\ v * w \in Nat /\ u * w \in Nat
      BY <1>2, <1>3, Products
    <2> QED
      BY <1>2, <1>3, <2>1
  <1>4. ASSUME u > v, w > 0 PROVE u * w > v * w
    <2>1. u >= v /\ u - v > 0
      BY <1>4
    <2>2. (u - v) * w \in Nat /\ (u - v) * w > 0 /\ v * w \in Nat /\ u * w \in Nat
      BY <1>2, <1>4, <2>1, Products
    <2> QED
      BY <1>2, <2>1, <2>2
  <1> QED
    BY <1>3, <1>4

\* Comparing fractions by multiplying across is transitive.
LEMMA AcrossTransitive ==
  ASSUME NEW a \in Nat, NEW b \in Nat, NEW c \in Nat, NEW x \in Nat, NEW y \in Nat, NEW z \in Nat,
         x > 0, y > 0, z > 0, a * y >= b * x, b * z >= c * y
  PROVE  /\ a * z >= c * x
         /\ a * y > b * x \/ b * z > c * y => a * z > c * x
  <1> DEFINE u == a * y
             v == b * x
             r == b * z
             q == c * y
             f == a * z
             g == c * x
  <1>1. u \in Nat /\ v \in Nat /\ r \in Nat /\ q \in Nat /\ f \in Nat /\ g \in Nat
    BY Products
  <1>2. u * z = f * y
    OBVIOUS
  <1>3. v * z = r * x
    OBVIOUS
  <1>4. q * x = g * y
    OBVIOUS
  <1>5. u >= v /\ r >= q
    OBVIOUS
  <1>6. (a * y > b * x <=> u > v) /\ (b * z > c * y <=> r > q)
    OBVIOUS
  <1> HIDE DEF u, v, r, q, f, g
  <1>7. /\ u * z \in Nat /\ v * z \in Nat /\ r * x \in Nat /\ q * x \in Nat
        /\ f * y \in Nat /\ g * y \in Nat
    BY <1>1, Products
  <1>8. u * z >= v * z /\ r * x >= q * x
    BY <1>1, <1>5, Scaled
  <1>9. f * y >= g * y
    BY <1>2, <1>3, <1>4, <1>7, <1>8
  <1>10. f >= g
    <2> SUFFICES ASSUME g > f PROVE FALSE
      BY <1>1
    <2>1. g * y > f * y
      BY <1>1, Scaled
    <2> QED
      BY <1>7, <1>9, <2>1
  <1>11. ASSUME u > v \/ r > q PROVE f > g
    <2>1. u * z > v * z \/ r * x > q * x
      BY <1>1, <1>11, Scaled
    <2>2. f * y > g * y
      BY <1>2, <1>3, <1>4, <1>7, <1>8, <2>1
    <2>3. f # g
      BY <1>7, <2>2
    <2> QED
      BY <1>1, <1>10, <2>3
  <1> QED
    BY <1>6, <1>10, <1>11 DEF f, g

\* Before is a strict total order on the products similar to one.
LEMMA BeforeIsAnOrder ==
  ASSUME CatalogueRead, Vectorised, NEW i \in 1..n
  PROVE  /\ \A j \in Scored(i) : ~Before(i, j, j)
         /\ \A j, k, l \in Scored(i) : Before(i, j, k) /\ Before(i, k, l) => Before(i, j, l)
         /\ \A j, k \in Scored(i) : j # k => Before(i, j, k) \/ Before(i, k, j)
  <1> DEFINE a(j) == Dot(i, j) * Dot(i, j)
             x(j) == NormSquared(j)
  <1>1. n \in Nat /\ \A j \in Scored(i) : j \in 1..n /\ j \in Nat
    BY CatalogueShape DEF Scored
  <1>2. ASSUME NEW j \in Scored(i) PROVE a(j) \in Nat /\ x(j) \in Nat /\ x(j) > 0
    <2>1. j \in 1..n /\ Dot(i, j) > 0
      BY DEF Scored
    <2>2. Dot(i, j) \in Nat /\ Dot(j, j) \in Nat /\ Dot(j, j) > 0
      BY <2>1, DotOfProducts
    <2> QED
      BY <2>2, Products DEF NormSquared
  <1>3. \A j, k \in Scored(i) : Nearer(i, j, k) <=> a(j) * x(k) > a(k) * x(j)
    BY DEF Nearer
  <1> HIDE DEF a, x
  <1>4. \A j, k \in Scored(i) : a(j) * x(k) \in Nat
    BY <1>2, Products
  <1>5. ASSUME NEW j \in Scored(i), NEW k \in Scored(i)
        PROVE  Before(i, j, k) <=> \/ a(j) * x(k) > a(k) * x(j)
                                   \/ a(j) * x(k) = a(k) * x(j) /\ j < k
    <2>1. a(j) * x(k) \in Nat /\ a(k) * x(j) \in Nat
      BY <1>4
    <2>2. Before(i, j, k) <=> \/ a(j) * x(k) > a(k) * x(j)
                              \/ ~(a(k) * x(j) > a(j) * x(k)) /\ j < k
      BY <1>3 DEF Before
    <2> QED
      BY <2>1, <2>2
  <1>6. ASSUME NEW j \in Scored(i) PROVE ~Before(i, j, j)
    <2>1. a(j) * x(j) \in Nat /\ j \in Nat
      BY <1>1, <1>4
    <2> QED
      BY <1>5, <2>1
  <1>7. ASSUME NEW j \in Scored(i), NEW k \in Scored(i), NEW l \in Scored(i),
               Before(i, j, k), Before(i, k, l)
        PROVE  Before(i, j, l)
    <2>1. /\ a(j) * x(k) \in Nat /\ a(k) * x(j) \in Nat /\ a(k) * x(l) \in Nat
          /\ a(l) * x(k) \in Nat /\ a(j) * x(l) \in Nat /\ a(l) * x(j) \in Nat
      BY <1>4
    <2>2. /\ a(j) * x(k) > a(k) * x(j) \/ (a(j) * x(k) = a(k) * x(j) /\ j < k)
          /\ a(k) * x(l) > a(l) * x(k) \/ (a(k) * x(l) = a(l) * x(k) /\ k < l)
      BY <1>5, <1>7
    <2>3. a(j) * x(k) >= a(k) * x(j) /\ a(k) * x(l) >= a(l) * x(k)
      BY <2>1, <2>2
    <2>4. /\ a(j) \in Nat /\ a(k) \in Nat /\ a(l) \in Nat
          /\ x(j) \in Nat /\ x(k) \in Nat /\ x(l) \in Nat
          /\ x(j) > 0 /\ x(k) > 0 /\ x(l) > 0
      BY <1>2
    <2>5. /\ a(j) * x(l) >= a(l) * x(j)
          /\ a(j) * x(k) > a(k) * x(j) \/ a(k) * x(l) > a(l) * x(k) => a(j) * x(l) > a(l) * x(j)
      BY <2>3, <2>4, AcrossTransitive
    <2>6. j < k /\ k < l => j < l
      BY <1>1
    <2>7. a(j) * x(l) > a(l) * x(j) \/ (a(j) * x(l) = a(l) * x(j) /\ j < l)
      BY <2>1, <2>2, <2>5, <2>6
    <2> QED
      BY <1>5, <2>7
  <1>8. ASSUME NEW j \in Scored(i), NEW k \in Scored(i), j # k
        PROVE  Before(i, j, k) \/ Before(i, k, j)
    <2>1. a(j) * x(k) \in Nat /\ a(k) * x(j) \in Nat
      BY <1>4
    <2>2. j < k \/ k < j
      BY <1>1, <1>8
    <2>3. a(j) * x(k) > a(k) * x(j) \/ a(j) * x(k) = a(k) * x(j) \/ a(k) * x(j) > a(j) * x(k)
      BY <2>1
    <2> QED
      BY <1>5, <2>2, <2>3
  <1> QED
    BY <1>6, <1>7, <1>8

\* J are the k nearest of the products similar to i.
NearestOf(i, k, J) ==
  /\ J \subseteq Scored(i) /\ IsFiniteSet(J) /\ Cardinality(J) <= k
  /\ Scored(i) \ J # {} => Cardinality(J) = k
  /\ \A j \in J, l \in Scored(i) \ J : Before(i, j, l)

LEMMA RankedInOrder ==
  ASSUME CatalogueRead, Vectorised, NEW i \in 1..n
  PROVE  /\ IsFiniteSet(Scored(i))
         /\ Ranked(i) \in SetToSeqs(Scored(i))
         /\ \A x, y \in DOMAIN Ranked(i) : x < y => Before(i, Ranked(i)[x], Ranked(i)[y])
  <1> DEFINE S == Scored(i)
             R == {p \in S \X S : Before(i, p[1], p[2])}
             r == Ranked(i)
  <1>1. IsFiniteSet(S)
    <2>1. S \in SUBSET (1..n) /\ IsFiniteSet(1..n)
      BY CatalogueShape, FS_Interval DEF Scored
    <2> HIDE DEF S
    <2> QED
      BY <2>1, FS_Subset
  <1>2. /\ \A j \in S : ~Before(i, j, j)
        /\ \A j, k, l \in S : Before(i, j, k) /\ Before(i, k, l) => Before(i, j, l)
        /\ \A j, k \in S : j # k => Before(i, j, k) \/ Before(i, k, j)
    BY BeforeIsAnOrder
  <1>3. r = CHOOSE s \in SetToSeqs(S) : \A x, y \in DOMAIN s : x < y => <<s[x], s[y]>> \in R
    BY DEF Ranked, Sorted
  <1> HIDE DEF S, r
  <1>4. /\ \A j \in S : <<j, j>> \notin R
        /\ \A j, k, l \in S : <<j, k>> \in R /\ <<k, l>> \in R => <<j, l>> \in R
        /\ \A j, k \in S : j # k => <<j, k>> \in R \/ <<k, j>> \in R
        /\ \A j, k : <<j, k>> \in R => Before(i, j, k)
    BY <1>2
  <1> HIDE DEF R
  <1>5. r \in SetToSeqs(S) /\ \A x, y \in DOMAIN r : x < y => Before(i, r[x], r[y])
    <2>1. \E s \in SetToSeqs(S) : \A x, y \in DOMAIN s : x < y => <<s[x], s[y]>> \in R
      BY <1>1, <1>4, OrderedList
    <2>2. r \in SetToSeqs(S) /\ \A x, y \in DOMAIN r : x < y => <<r[x], r[y]>> \in R
      BY <1>3, <2>1
    <2> QED
      BY <1>4, <2>2
  <1> QED
    BY <1>1, <1>5 DEF S, r

LEMMA ListsAreSequences ==
  ASSUME NEW m \in Nat, NEW S, NEW s \in [1..m -> S]
  PROVE  s \in Seq(S)
  OBVIOUS

LEMMA ElementsOf ==
  ASSUME NEW S, NEW s \in Seq(S)
  PROVE  \A x \in DOMAIN s : s[x] \in S
  OBVIOUS

LEMMA FirstOnes ==
  ASSUME NEW S, NEW s \in Seq(S), NEW m \in Nat, m <= Len(s)
  PROVE  /\ SubSeq(s, 1, m) \in Seq(S) /\ Len(SubSeq(s, 1, m)) = m
         /\ DOMAIN SubSeq(s, 1, m) = 1..m
         /\ \A x \in 1..m : SubSeq(s, 1, m)[x] = s[x]
  OBVIOUS

\* What Compare keeps for a product.
LEMMA KeptAreNearest ==
  ASSUME CatalogueRead, Vectorised, topK \in Nat \ {0}, NEW i \in 1..n
  PROVE  /\ Kept(i) \in Seq(1..n)
         /\ \A x, y \in DOMAIN Kept(i) : Kept(i)[x] = Kept(i)[y] => x = y
         /\ NearestOf(i, topK, ToSet(Kept(i)))
  <1> DEFINE S == Scored(i)
             r == Ranked(i)
             k == Kept(i)
             J == ToSet(k)
             c == Len(r)
             m == Min({c, AtLeastOne(topK)})
  <1>1. /\ IsFiniteSet(S) /\ r \in SetToSeqs(S)
        /\ \A x, y \in DOMAIN r : x < y => Before(i, r[x], r[y])
    BY RankedInOrder
  <1>2. S \subseteq 1..n
    BY DEF Scored
  <1>3. k = SubSeq(r, 1, m)
    BY DEF Kept
  <1>4. AtLeastOne(topK) = topK
    BY DEF AtLeastOne
  <1>5. ASSUME NEW A, A \subseteq S, IsFiniteSet(A), Cardinality(A) <= topK,
               S \ A # {} => Cardinality(A) = topK,
               \A j \in A, l \in S \ A : Before(i, j, l)
        PROVE  NearestOf(i, topK, A)
    BY <1>5 DEF NearestOf
  <1> HIDE DEF S, r, k
  <1>6. /\ r \in Seq(S) /\ ToSet(r) = S
        /\ \A x, y \in DOMAIN r : r[x] = r[y] => x = y
    BY <1>1, ListsOnce
  <1>7. c \in Nat /\ DOMAIN r = 1..c
    BY <1>6
  <1> HIDE DEF c
  <1>8. m \in Nat /\ m <= c /\ m <= topK /\ (m = c \/ m = topK)
    <2> DEFINE Both == {c, topK}
    <2>1. m = CHOOSE x \in Both : \A y \in Both : x <= y
      BY <1>4 DEF Min
    <2>2. \E x \in Both : \A y \in Both : x <= y
      <3>1. c <= topK \/ topK <= c
        BY <1>7
      <3>2. c <= c /\ topK <= topK
        BY <1>7
      <3> QED
        BY <3>1, <3>2
    <2> HIDE DEF m
    <2>3. m \in Both /\ \A y \in Both : m <= y
      <3> HIDE DEF Both
      <3> QED
        BY <2>1, <2>2, Zenon
    <2> QED
      BY <1>7, <2>3
  <1> HIDE DEF m
  <1>9. /\ k \in Seq(S) /\ Len(k) = m /\ DOMAIN k = 1..m
        /\ \A x \in 1..m : k[x] = r[x]
    BY <1>3, <1>6, <1>8, FirstOnes DEF c
  <1>10. \A x \in 1..m : x \in DOMAIN r
    <2>1. \A x \in 1..m : x \in 1..c
      BY <1>7, <1>8
    <2> QED
      BY <1>7, <2>1
  <1>11. \A x, y \in DOMAIN k : k[x] = k[y] => x = y
    BY <1>6, <1>9, <1>10
  <1>12. J \subseteq S
    BY <1>9 DEF ToSet
  <1>13. IsFiniteSet(J) /\ Cardinality(J) = m
    <2>1. k \in Surjection(1..m, J) /\ k \in Injection(1..m, J)
      BY <1>9, <1>11 DEF Surjection, Injection, IsInjective, ToSet
    <2>2. IsFiniteSet(1..m) /\ Cardinality(1..m) = m
      BY <1>8, FS_Interval
    <2> HIDE DEF J
    <2> QED
      BY <2>1, <2>2, FS_Surjection
  <1>14. ASSUME NEW l \in S \ J PROVE \E y \in DOMAIN r : r[y] = l /\ y \notin 1..m
    <2>1. PICK y \in DOMAIN r : r[y] = l
      BY <1>6 DEF ToSet
    <2>2. \A x \in 1..m : r[x] \in J
      BY <1>9 DEF ToSet
    <2> HIDE DEF J
    <2>3. y \notin 1..m
      BY <2>1, <2>2
    <2> QED
      BY <2>1, <2>3
  <1>15. S \ J # {} => m = topK
    <2> SUFFICES ASSUME NEW l \in S \ J PROVE m = topK
      OBVIOUS
    <2> HIDE DEF J
    <2>1. PICK y \in DOMAIN r : y \notin 1..m
      BY <1>14
    <2>2. m # c
      BY <1>7, <2>1
    <2> QED
      BY <1>8, <2>2
  <1>16. ASSUME NEW j \in J, NEW l \in S \ J PROVE Before(i, j, l)
    <2>1. PICK x \in 1..m : j = r[x]
      BY <1>9 DEF ToSet
    <2> HIDE DEF J
    <2>2. PICK y \in DOMAIN r : r[y] = l /\ y \notin 1..m
      BY <1>14
    <2>3. x \in DOMAIN r
      BY <1>10
    <2>4. y \in 1..c
      BY <1>7
    <2>5. x < y
      BY <1>7, <1>8, <2>2, <2>4
    <2> QED
      BY <1>1, <2>1, <2>2, <2>3, <2>5
  <1>17. k \in Seq(1..n)
    <2>1. k = [x \in 1..m |-> k[x]]
      BY <1>9
    <2>2. \A x \in 1..m : k[x] \in ToSet(k)
      BY <1>9 DEF ToSet
    <2>3. \A x \in 1..m : k[x] \in 1..n
      BY <1>2, <1>12, <2>2
    <2>4. k \in [1..m -> 1..n] /\ m \in Nat
      BY <1>8, <2>1, <2>3
    <2> QED
      BY <2>4, ListsAreSequences
  <1> HIDE DEF J
  <1>18. NearestOf(i, topK, J)
    <2>1. Cardinality(J) <= topK
      BY <1>8, <1>13
    <2>2. S \ J # {} => Cardinality(J) = topK
      BY <1>13, <1>15
    <2>3. \A j \in J, l \in S \ J : Before(i, j, l)
      BY <1>16
    <2> QED
      BY <1>5, <1>12, <1>13, <2>1, <2>2, <2>3
  <1> QED
    BY <1>11, <1>17, <1>18 DEF J, k

\* The graph of a smaller topK is a part of the graph of a larger one, and there
\* is but one graph for each (catalogue.go:80-94).  Catalogue assumes the first of
\* its constant Graph.
THEOREM SmallerTopKIsPart ==
  ASSUME CatalogueRead, Vectorised, NEW i \in 1..n,
         NEW k \in Nat, NEW l \in Nat, k <= l,
         NEW J, NEW L, NearestOf(i, k, J), NearestOf(i, l, L)
  PROVE  J \subseteq L /\ (k = l => J = L)
  <1>1. ASSUME NEW p \in Nat, NEW q \in Nat, p <= q, NEW A, NEW B,
               NearestOf(i, p, A), NearestOf(i, q, B)
        PROVE  A \subseteq B
    <2> SUFFICES ASSUME NEW j \in A, j \notin B PROVE FALSE
      OBVIOUS
    <2>1. /\ A \subseteq Scored(i) /\ IsFiniteSet(A) /\ Cardinality(A) <= p
          /\ B \subseteq Scored(i) /\ IsFiniteSet(B)
      BY <1>1 DEF NearestOf
    <2>2. Cardinality(B) = q
      BY <1>1, <2>1 DEF NearestOf
    <2>3. ASSUME NEW x \in B PROVE x \in A
      <3> SUFFICES ASSUME x \notin A PROVE FALSE
        OBVIOUS
      <3>1. x \in Scored(i) /\ j \in Scored(i)
        BY <2>1
      <3>2. Before(i, x, j) /\ Before(i, j, x)
        BY <1>1, <3>1 DEF NearestOf
      <3> QED
        BY <3>1, <3>2, BeforeIsAnOrder
    <2>4. B \in SUBSET A /\ A # B
      BY <2>3
    <2>5. Cardinality(B) <= Cardinality(A) /\ Cardinality(B) # Cardinality(A)
      BY <2>1, <2>4, FS_Subset
    <2>6. Cardinality(A) \in Nat
      BY <2>1, FS_CardinalityType
    <2> QED
      BY <1>1, <2>1, <2>2, <2>5, <2>6
  <1>2. J \subseteq L
    BY <1>1
  <1>3. k = l => L \subseteq J
    BY <1>1
  <1> QED
    BY <1>2, <1>3

-----------------------------------------------------------------------------
(* The inductive invariant. *)

\* The products that edges relates to i.
RelatedTo(i) == {j \in 1..n : Edge(i, j) \in ToSet(edges)}

VectorsMade ==
  /\ vectors \in Seq(Seq(Term)) /\ Len(vectors) <= n
  /\ \A i \in 1..Len(vectors) : IsVector(vectors[i], i)

EdgesMade ==
  /\ edges \in Seq([ProductID : Nat, RelatedID : Nat])
  /\ \A x \in DOMAIN edges : \E i, j \in 1..n : edges[x] = Edge(i, j)
  /\ \A x, y \in DOMAIN edges : edges[x] = edges[y] => x = y

\* The rows compared have their nearest, the others nothing yet.
RowsCompared ==
  /\ row \in 1..n + 1 /\ (row > 1 => Len(vectors) = n)
  /\ \A i \in 1..n : /\ i < row => NearestOf(i, topK, RelatedTo(i))
                     /\ ~(i < row) => RelatedTo(i) = {}

ReindexingInv ==
  /\ CatalogueRead /\ topK \in Nat \ {0}
  /\ VectorsMade /\ EdgesMade /\ RowsCompared

LEMMA ReindexingInit == Init => ReindexingInv
  <1> SUFFICES ASSUME Init PROVE ReindexingInv
    OBVIOUS
  <1> USE DEF Init
  <1>1. CatalogueRead
    BY DEF CatalogueRead
  <1>2. topK \in Nat \ {0}
    BY ReindexingAssumption
  <1>3. n \in Nat
    BY <1>1, CatalogueShape
  <1>4. VectorsMade
    BY <1>3 DEF VectorsMade
  <1>5. EdgesMade
    BY DEF EdgesMade
  <1>6. RowsCompared
    <2>1. ToSet(edges) = {}
      BY DEF ToSet
    <2>2. \A i \in 1..n : RelatedTo(i) = {} /\ ~(i < row)
      BY <1>3, <2>1 DEF RelatedTo
    <2>3. row \in 1..n + 1 /\ ~(row > 1)
      BY <1>3
    <2> QED
      BY <2>2, <2>3 DEF RowsCompared
  <1> QED
    BY <1>1, <1>2, <1>4, <1>5, <1>6 DEF ReindexingInv

\* What depends on the catalogue alone stays as it is.
LEMMA CatalogueStays ==
  ASSUME products' = products, CatalogueRead
  PROVE  /\ n' = n /\ CatalogueRead'
         /\ \A i, j : Edge(i, j)' = Edge(i, j)
         /\ \A p, w : Weight(p, w)' = Weight(p, w)
  BY DEF n, CatalogueRead, Edge, Weight, DocFreq

LEMMA RelatedStays ==
  ASSUME products' = products, edges' = edges, CatalogueRead, NEW i
  PROVE  RelatedTo(i)' = RelatedTo(i)
  BY DEF RelatedTo, n, Edge

LEMMA VectorsStay ==
  ASSUME products' = products, vectors' = vectors, CatalogueRead, VectorsMade
  PROVE  VectorsMade'
  <1>1. n' = n /\ \A p, w : Weight(p, w)' = Weight(p, w)
    BY CatalogueStays
  <1>2. ASSUME NEW i \in 1..Len(vectors) PROVE IsVector(vectors[i], i)'
    <2>1. IsVector(vectors[i], i)
      BY DEF VectorsMade
    <2> QED
      BY <1>1, <2>1 DEF IsVector
  <1> QED
    BY <1>1, <1>2 DEF VectorsMade

LEMMA VectoriseKeeps ==
  ASSUME ReindexingInv, Vectorise
  PROVE  ReindexingInv'
  <1> DEFINE next == Len(vectors) + 1
  <1>0. CatalogueRead /\ topK \in Nat \ {0} /\ VectorsMade /\ EdgesMade /\ RowsCompared
    BY DEF ReindexingInv
  <1>1. /\ Len(vectors) < n
        /\ products' = products /\ topK' = topK /\ row' = row /\ edges' = edges
    BY DEF Vectorise
  <1>2. PICK iteration \in SetToSeqs(Words(products[next])) :
          vectors' = Append(vectors, tfidfVector(products[next], iteration))
    BY DEF Vectorise
  <1> DEFINE v == tfidfVector(products[next], iteration)
  <1>3. n \in Nat /\ Len(vectors) \in Nat /\ next \in 1..n
    BY <1>0, <1>1, CatalogueShape DEF VectorsMade
  <1>4. IsVector(v, next)
    BY <1>0, <1>2, <1>3, VectorMade
  <1>5. n' = n /\ CatalogueRead'
    BY <1>0, <1>1, CatalogueStays
  <1> HIDE DEF v
  <1>6. VectorsMade'
    <2>1. v \in Seq(Term) /\ vectors \in Seq(Seq(Term))
      BY <1>0, <1>4 DEF IsVector, Ascending, VectorsMade
    <2>2. /\ vectors' \in Seq(Seq(Term)) /\ Len(vectors') = next
          /\ vectors'[next] = v
          /\ \A i \in 1..Len(vectors) : vectors'[i] = vectors[i]
      BY <1>2, <2>1 DEF v
    <2>3. \A i \in 1..next : i = next \/ i \in 1..Len(vectors)
      BY <1>3
    <2> HIDE DEF next
    <2>4. ASSUME NEW i \in 1..next PROVE IsVector(vectors'[i], i)
      BY <1>0, <1>4, <2>2, <2>3, <2>4 DEF VectorsMade
    <2>5. ASSUME NEW i \in 1..next PROVE IsVector(vectors[i], i)'
      <3>1. IsVector(vectors'[i], i)
        BY <2>4
      <3>2. \A p, w : Weight(p, w)' = Weight(p, w)
        BY <1>0, <1>1, CatalogueStays
      <3> QED
        BY <1>1, <3>1, <3>2 DEF IsVector
    <2>6. Len(vectors)' <= n'
      BY <1>3, <1>5, <2>2
    <2> QED
      BY <2>2, <2>5, <2>6 DEF VectorsMade
  <1>7. EdgesMade'
    BY <1>0, <1>1, <1>5 DEF EdgesMade, Edge
  <1>8. row = 1
    BY <1>0, <1>1, <1>3 DEF RowsCompared
  <1>9. RowsCompared'
    <2>1. row' \in 1..n' + 1 /\ ~(row' > 1) /\ \A i \in 1..n' : ~(i < row')
      BY <1>1, <1>3, <1>5, <1>8
    <2>2. \A i \in 1..n : RelatedTo(i) = {}
      BY <1>0, <1>3, <1>8 DEF RowsCompared
    <2>3. \A i \in 1..n' : RelatedTo(i)' = {}
      BY <1>0, <1>1, <1>5, <2>2, RelatedStays
    <2> QED
      BY <2>1, <2>3 DEF RowsCompared
  <1> QED
    BY <1>0, <1>1, <1>5, <1>6, <1>7, <1>9 DEF ReindexingInv

\* One list after the other.
LEMMA Joined ==
  ASSUME NEW T, NEW s \in Seq(T), NEW t \in Seq(T)
  PROVE  /\ s \o t \in Seq(T)
         /\ ToSet(s \o t) = ToSet(s) \cup ToSet(t)
         /\ \A x \in DOMAIN (s \o t) :
              \/ x \in DOMAIN s /\ (s \o t)[x] = s[x]
              \/ x - Len(s) \in DOMAIN t /\ (s \o t)[x] = t[x - Len(s)] /\ x \notin DOMAIN s
  <1> DEFINE u == s \o t
             l == Len(s)
             m == Len(t)
  <1>1. l \in Nat /\ m \in Nat /\ DOMAIN s = 1..l /\ DOMAIN t = 1..m
    OBVIOUS
  <1>2. /\ u \in Seq(T) /\ DOMAIN u = 1..l + m
        /\ \A x \in 1..l + m : u[x] = IF x <= l THEN s[x] ELSE t[x - l]
    OBVIOUS
  <1> HIDE DEF u, l, m
  <1>3. ASSUME NEW x \in DOMAIN u
        PROVE  \/ x \in DOMAIN s /\ u[x] = s[x]
               \/ x - l \in DOMAIN t /\ u[x] = t[x - l] /\ x \notin DOMAIN s
    BY <1>1, <1>2
  <1>4. ASSUME NEW x \in DOMAIN s PROVE \E y \in DOMAIN u : u[y] = s[x]
    <2>1. x \in 1..l + m /\ x <= l
      BY <1>1
    <2> QED
      BY <1>2, <2>1
  <1>5. ASSUME NEW x \in DOMAIN t PROVE \E y \in DOMAIN u : u[y] = t[x]
    <2>1. l + x \in 1..l + m /\ ~(l + x <= l) /\ (l + x) - l = x
      BY <1>1
    <2> QED
      BY <1>2, <2>1
  <1>6. ToSet(u) = ToSet(s) \cup ToSet(t)
    BY <1>3, <1>4, <1>5 DEF ToSet
  <1> QED
    BY <1>2, <1>3, <1>6 DEF u, l

LEMMA CompareKeeps ==
  ASSUME ReindexingInv, Compare
  PROVE  ReindexingInv'
  <1> DEFINE K == Kept(row)
             found == [x \in DOMAIN K |-> Edge(row, K[x])]
             EdgeSet == [ProductID : Nat, RelatedID : Nat]
  <1>0. CatalogueRead /\ topK \in Nat \ {0} /\ VectorsMade /\ EdgesMade /\ RowsCompared
    BY DEF ReindexingInv
  <1>1. /\ Len(vectors) = n /\ row <= n /\ row' = row + 1
        /\ edges' = edges \o found
        /\ products' = products /\ topK' = topK /\ vectors' = vectors
    BY DEF Compare
  <1>2. n \in Nat /\ row \in 1..n
    BY <1>0, <1>1, CatalogueShape DEF RowsCompared
  <1>3. Vectorised
    BY <1>0, <1>1 DEF Vectorised, VectorsMade
  <1>4. /\ K \in Seq(1..n)
        /\ \A x, y \in DOMAIN K : K[x] = K[y] => x = y
        /\ NearestOf(row, topK, ToSet(K))
    BY <1>0, <1>2, <1>3, KeptAreNearest
  <1>5. /\ n' = n /\ CatalogueRead'
        /\ \A i, j : Edge(i, j)' = Edge(i, j)
        /\ \A p, w : Weight(p, w)' = Weight(p, w)
    BY <1>0, <1>1, CatalogueStays
  <1> HIDE DEF K
  <1>6. \A i, j \in 1..n : Edge(i, j) \in EdgeSet
    <2>1. \A i \in 1..n : products[i].id \in Nat
      BY <1>0, CatalogueShape
    <2> QED
      BY <2>1 DEF Edge
  <1>7. \A x \in DOMAIN K : K[x] \in 1..n
    BY <1>4, ElementsOf
  <1>8. /\ DOMAIN found = DOMAIN K
        /\ \A x \in DOMAIN K : found[x] = Edge(row, K[x])
    OBVIOUS
  <1>9. found \in Seq(EdgeSet)
    <2>1. DOMAIN K = 1..Len(K) /\ Len(K) \in Nat
      BY <1>4
    <2>2. found \in [1..Len(K) -> EdgeSet]
      BY <1>2, <1>6, <1>7, <2>1
    <2> HIDE DEF found
    <2> QED
      BY <2>1, <2>2, ListsAreSequences
  <1> HIDE DEF found, EdgeSet
  <1>10. RelatedTo(row) = {}
    BY <1>0, <1>2 DEF RowsCompared
  <1>11. edges \in Seq(EdgeSet)
    BY <1>0 DEF EdgesMade, EdgeSet
  <1>12. /\ edges' \in Seq(EdgeSet)
         /\ ToSet(edges') = ToSet(edges) \cup ToSet(found)
         /\ \A x \in DOMAIN edges' :
              \/ x \in DOMAIN edges /\ edges'[x] = edges[x]
              \/ /\ x - Len(edges) \in DOMAIN found /\ edges'[x] = found[x - Len(edges)]
                 /\ x \notin DOMAIN edges
    BY <1>1, <1>9, <1>11, Joined
  <1>13. ASSUME NEW x \in DOMAIN edges, NEW y \in DOMAIN found PROVE edges[x] # found[y]
    <2>1. found[y] = Edge(row, K[y]) /\ K[y] \in 1..n
      BY <1>7, <1>8
    <2>2. edges[x] \in ToSet(edges)
      BY DEF ToSet
    <2> QED
      BY <1>10, <2>1, <2>2 DEF RelatedTo
  <1>14. ASSUME NEW x \in DOMAIN found, NEW y \in DOMAIN found, found[x] = found[y]
         PROVE  x = y
    <2>1. Edge(row, K[x]) = Edge(row, K[y]) /\ K[x] \in 1..n /\ K[y] \in 1..n
      BY <1>7, <1>8, <1>14
    <2>2. K[x] = K[y]
      BY <1>0, <1>2, <2>1, EdgesTellApart
    <2> QED
      BY <1>4, <1>8, <2>2
  <1>15. EdgesMade'
    <2>1. ASSUME NEW x \in DOMAIN edges' PROVE \E i, j \in 1..n : edges'[x] = Edge(i, j)
      <3>1. CASE x \in DOMAIN edges /\ edges'[x] = edges[x]
        BY <1>0, <3>1 DEF EdgesMade
      <3>2. CASE x - Len(edges) \in DOMAIN found /\ edges'[x] = found[x - Len(edges)]
        BY <1>2, <1>7, <1>8, <3>2
      <3> QED
        BY <1>12, <3>1, <3>2
    <2>2. ASSUME NEW x \in DOMAIN edges', NEW y \in DOMAIN edges', edges'[x] = edges'[y]
          PROVE  x = y
      <3> DEFINE l == Len(edges)
      <3>0. l \in Nat /\ x \in Int /\ y \in Int
        <4>1. edges' \in Seq(EdgeSet) /\ edges \in Seq(EdgeSet)
          BY <1>11, <1>12
        <4>2. DOMAIN edges' = 1..Len(edges') /\ Len(edges') \in Nat
          BY <4>1
        <4> QED
          BY <4>1, <4>2
      <3>1. /\ \/ x \in DOMAIN edges /\ edges'[x] = edges[x]
               \/ x - l \in DOMAIN found /\ edges'[x] = found[x - l]
            /\ \/ y \in DOMAIN edges /\ edges'[y] = edges[y]
               \/ y - l \in DOMAIN found /\ edges'[y] = found[y - l]
        BY <1>12
      <3>2. CASE x \in DOMAIN edges /\ edges'[x] = edges[x]
                 /\ y \in DOMAIN edges /\ edges'[y] = edges[y]
        BY <1>0, <2>2, <3>2 DEF EdgesMade
      <3>3. CASE x - l \in DOMAIN found /\ edges'[x] = found[x - l]
                 /\ y - l \in DOMAIN found /\ edges'[y] = found[y - l]
        <4>1. x - l = y - l
          BY <1>14, <2>2, <3>3
        <4> HIDE DEF l
        <4> QED
          BY <3>0, <4>1
      <3> QED
        BY <1>13, <2>2, <3>1, <3>2, <3>3
    <2> QED
      BY <1>5, <1>12, <2>1, <2>2 DEF EdgesMade, EdgeSet
  <1>16. VectorsMade'
    BY <1>0, <1>1, VectorsStay
  <1>17. ASSUME NEW i \in 1..n
         PROVE  RelatedTo(i)' = IF i = row THEN ToSet(K) ELSE RelatedTo(i)
    <2>1. RelatedTo(i)' = {j \in 1..n : Edge(i, j) \in ToSet(edges')}
      BY <1>1 DEF RelatedTo, Edge, n
    <2>2. ASSUME NEW j \in 1..n PROVE Edge(i, j) \in ToSet(found) <=> i = row /\ j \in ToSet(K)
      <3>1. ASSUME Edge(i, j) \in ToSet(found) PROVE i = row /\ j \in ToSet(K)
        <4>1. PICK x \in DOMAIN K : Edge(i, j) = Edge(row, K[x])
          BY <1>8, <3>1 DEF ToSet
        <4> QED
          BY <1>0, <1>2, <1>7, <4>1, EdgesTellApart DEF ToSet
      <3>2. ASSUME i = row, j \in ToSet(K) PROVE Edge(i, j) \in ToSet(found)
        BY <1>8, <3>2 DEF ToSet
      <3> QED
        BY <3>1, <3>2
    <2>3. ToSet(K) \subseteq 1..n
      BY <1>7 DEF ToSet
    <2>4. RelatedTo(i) = {j \in 1..n : Edge(i, j) \in ToSet(edges)}
      BY DEF RelatedTo
    <2>5. CASE i = row
      <3>1. \A j \in 1..n : Edge(i, j) \notin ToSet(edges)
        BY <1>10, <2>4, <2>5
      <3> QED
        BY <1>12, <2>1, <2>2, <2>3, <2>5, <3>1
    <2>6. CASE i # row
      BY <1>12, <2>1, <2>2, <2>4, <2>6
    <2> QED
      BY <2>5, <2>6
  <1>18. /\ \A i : Scored(i)' = Scored(i)
         /\ \A i, j, k : Before(i, j, k)' <=> Before(i, j, k)
    BY <1>1 DEF Scored, Before, Nearer, NormSquared, Dot, n
  <1>19. RowsCompared'
    <2>1. row' \in 1..n' + 1 /\ (row' > 1 => Len(vectors') = n')
      BY <1>1, <1>2, <1>5
    <2>2. \A i \in 1..n : i < row' <=> i < row \/ i = row
      BY <1>1, <1>2
    <2>3. ASSUME NEW i \in 1..n, i < row' PROVE NearestOf(i, topK, RelatedTo(i))'
      <3> DEFINE J == IF i = row THEN ToSet(K) ELSE RelatedTo(i)
      <3>1. NearestOf(i, topK, J)
        <4>1. CASE i = row
          BY <1>4, <4>1
        <4>2. CASE i # row
          BY <1>0, <2>2, <2>3, <4>2 DEF RowsCompared
        <4> QED
          BY <4>1, <4>2
      <3>2. RelatedTo(i)' = J
        BY <1>17
      <3> HIDE DEF J
      <3> QED
        BY <1>1, <1>18, <3>1, <3>2 DEF NearestOf
    <2>4. ASSUME NEW i \in 1..n, ~(i < row') PROVE RelatedTo(i)' = {}
      <3>1. i # row /\ ~(i < row)
        BY <2>2, <2>4
      <3> QED
        BY <1>0, <1>17, <3>1 DEF RowsCompared
    <2> QED
      BY <1>5, <2>1, <2>3, <2>4 DEF RowsCompared
  <1> QED
    BY <1>0, <1>1, <1>5, <1>15, <1>16, <1>19 DEF ReindexingInv

LEMMA ReindexingNext == ReindexingInv /\ [Next]_vars => ReindexingInv'
  <1> SUFFICES ASSUME ReindexingInv, [Next]_vars PROVE ReindexingInv'
    OBVIOUS
  <1>1. CASE Vectorise
    BY <1>1, VectoriseKeeps
  <1>2. CASE Compare
    BY <1>2, CompareKeeps
  <1>3. CASE UNCHANGED vars
    <2> USE <1>3 DEF vars
    <2>1. CatalogueRead /\ topK \in Nat \ {0} /\ VectorsMade /\ EdgesMade /\ RowsCompared
      BY DEF ReindexingInv
    <2>2. /\ n' = n /\ CatalogueRead'
          /\ \A i, j : Edge(i, j)' = Edge(i, j)
          /\ \A p, w : Weight(p, w)' = Weight(p, w)
      BY <2>1, CatalogueStays
    <2>3. VectorsMade'
      BY <2>1, VectorsStay
    <2>6. EdgesMade'
      BY <2>1, <2>2 DEF EdgesMade, Edge
    <2>4. /\ \A i : Scored(i)' = Scored(i) /\ RelatedTo(i)' = RelatedTo(i)
          /\ \A i, j, k : Before(i, j, k)' <=> Before(i, j, k)
      BY DEF Scored, RelatedTo, Before, Nearer, NormSquared, Dot, Edge, n
    <2>5. RowsCompared'
      BY <2>1, <2>2, <2>4 DEF RowsCompared, NearestOf
    <2> QED
      BY <2>1, <2>2, <2>3, <2>5, <2>6 DEF ReindexingInv
  <1> QED
    BY <1>1, <1>2, <1>3 DEF Next, Return

\* In every reachable state.
THEOREM ReindexingCorrect == Spec => []ReindexingInv
  BY ReindexingInit, ReindexingNext, PTL DEF Spec

-----------------------------------------------------------------------------
(* What the invariant says of the graph. *)

\* Every edge joins two products of the catalogue by their ids and occurs once,
\* so the COPY of ReplaceRelated meets no key twice (catalogue.go:71-77).
THEOREM ReindexingTypeCorrect == Spec => []TypeOK
  <1>1. ASSUME ReindexingInv PROVE TypeOK
    <2>0. CatalogueRead /\ VectorsMade /\ EdgesMade /\ RowsCompared
      BY <1>1 DEF ReindexingInv
    <2>1. ASSUME NEW i \in DOMAIN vectors
          PROVE  ToSet([x \in DOMAIN vectors[i] |-> vectors[i][x].word]) = Words(products[i])
      <3>1. DOMAIN vectors = 1..Len(vectors)
        BY <2>0 DEF VectorsMade
      <3>2. {vectors[i][x].word : x \in DOMAIN vectors[i]} = Words(products[i])
        BY <2>0, <3>1 DEF VectorsMade, IsVector
      <3> QED
        BY <3>2 DEF ToSet
    <2>2. row \in 1..n + 1
      BY <2>0 DEF RowsCompared
    <2>3. ASSUME NEW x \in DOMAIN edges
          PROVE  edges[x].ProductID \in Ids /\ edges[x].RelatedID \in Ids
      <3>1. PICK i \in 1..n, j \in 1..n : edges[x] = Edge(i, j)
        BY <2>0 DEF EdgesMade
      <3> QED
        BY <3>1 DEF Edge, Ids
    <2>4. \A x, y \in DOMAIN edges : edges[x] = edges[y] => x = y
      BY <2>0 DEF EdgesMade
    <2> QED
      BY <2>1, <2>2, <2>3, <2>4 DEF TypeOK
  <1> QED
    BY <1>1, ReindexingCorrect, PTL

\* A dot product adds the terms of all common words, each once, in alphabetical
\* order, in whatever order the maps were iterated (catalogue.go:100-110, 155).
THEOREM SumsReproducible == Spec => []SumsAreReproducible
  <1>1. ASSUME ReindexingInv PROVE SumsAreReproducible
    <2>0. CatalogueRead /\ VectorsMade
      BY <1>1 DEF ReindexingInv
    <2>1. n \in Nat /\ Len(vectors) \in Nat /\ Len(vectors) <= n /\ DOMAIN vectors = 1..Len(vectors)
      BY <2>0, CatalogueShape DEF VectorsMade
    <2>2. \A i \in DOMAIN vectors : i \in 1..n /\ IsVector(vectors[i], i)
      BY <2>0, <2>1 DEF VectorsMade
    <2>3. ASSUME NEW i \in DOMAIN vectors, NEW j \in DOMAIN vectors, NEW t,
                 t = Merge(vectors[i], vectors[j])
          PROVE  /\ {t[x].word : x \in DOMAIN t} = Words(products[i]) \cap Words(products[j])
                 /\ \A x, y \in DOMAIN t : x < y => t[x].word < t[y].word
      <3>1. i \in 1..n /\ j \in 1..n /\ IsVector(vectors[i], i) /\ IsVector(vectors[j], j)
        BY <2>2
      <3>2. /\ Ascending(t)
            /\ {t[x].word : x \in DOMAIN t} = Words(products[i]) \cap Words(products[j])
        BY <2>3, <3>1, MergedWords
      <3> QED
        BY <3>2 DEF Ascending
    <2> QED
      BY <2>3 DEF SumsAreReproducible
  <1> QED
    BY <1>1, ReindexingCorrect, PTL

LEMMA AllCompared ==
  ASSUME ReindexingInv, Finished, n >= 2
  PROVE  /\ CatalogueRead /\ Vectorised /\ topK \in Nat /\ n \in Nat
         /\ \A i \in 1..n : NearestOf(i, topK, RelatedTo(i))
  <1>0. CatalogueRead /\ topK \in Nat \ {0} /\ VectorsMade /\ RowsCompared
    BY DEF ReindexingInv
  <1>1. n \in Nat
    BY <1>0, CatalogueShape
  <1>2. row > n /\ row > 1 /\ \A i \in 1..n : i < row
    BY <1>0, <1>1 DEF Finished, RowsCompared
  <1>3. Len(vectors) = n
    BY <1>0, <1>2 DEF RowsCompared
  <1>4. Vectorised
    BY <1>0, <1>3 DEF VectorsMade, Vectorised
  <1>5. \A i \in 1..n : NearestOf(i, topK, RelatedTo(i))
    BY <1>0, <1>2 DEF RowsCompared
  <1> QED
    BY <1>0, <1>1, <1>4, <1>5

\* A product is related to the topK nearest of those similar to it, ties going
\* to the smaller id (catalogue.go:86-94).
THEOREM NearestKept == Spec => []KeepsTheNearest
  <1>1. ASSUME ReindexingInv PROVE KeepsTheNearest
    <2> DEFINE Related(i) == {j \in 1..n : Edge(i, j) \in ToSet(edges)}
               LeftOut(i) == {j \in 1..n \ {i} : Dot(i, j) > 0} \ Related(i)
    <2> SUFFICES ASSUME Finished, n >= 2, NEW i \in 1..n
                 PROVE  /\ Cardinality(Related(i)) <= topK
                        /\ LeftOut(i) # {} => Cardinality(Related(i)) = topK
                        /\ \A j \in Related(i), k \in LeftOut(i) :
                             ~Nearer(i, k, j) /\ (Nearer(i, j, k) \/ j < k)
      BY DEF KeepsTheNearest
    <2> DEFINE To == Related(i)
               Other == LeftOut(i)
    <2>1. To = RelatedTo(i) /\ Other = Scored(i) \ To
      BY DEF RelatedTo, Scored
    <2>2. NearestOf(i, topK, To) /\ CatalogueRead /\ Vectorised
      BY <1>1, <2>1, AllCompared
    <2>3. /\ Cardinality(To) <= topK
          /\ Other # {} => Cardinality(To) = topK
      BY <2>1, <2>2 DEF NearestOf
    <2>4. ASSUME NEW j \in To, NEW k \in Other
          PROVE  ~Nearer(i, k, j) /\ (Nearer(i, j, k) \/ j < k)
      <3>1. Before(i, j, k)
        BY <2>1, <2>2 DEF NearestOf
      <3>2. j \in 1..n /\ k \in 1..n
        OBVIOUS
      <3> HIDE DEF To, Other, Related, LeftOut
      <3> DEFINE u == Dot(i, j) * Dot(i, j) * NormSquared(k)
                 v == Dot(i, k) * Dot(i, k) * NormSquared(j)
      <3>3. u \in Nat /\ v \in Nat
        <4>1. /\ Dot(i, j) \in Nat /\ Dot(i, k) \in Nat
              /\ NormSquared(j) \in Nat /\ NormSquared(k) \in Nat
          BY <2>2, <3>2, DotOfProducts DEF NormSquared
        <4>2. Dot(i, j) * Dot(i, j) \in Nat /\ Dot(i, k) * Dot(i, k) \in Nat
          BY <4>1, Products
        <4> QED
          BY <4>1, <4>2, Products
      <3>4. (Nearer(i, j, k) <=> u > v) /\ (Nearer(i, k, j) <=> v > u)
        BY DEF Nearer
      <3> HIDE DEF u, v
      <3>5. Nearer(i, j, k) => ~Nearer(i, k, j)
        BY <3>3, <3>4
      <3> QED
        BY <3>1, <3>5 DEF Before
    <2> QED
      BY <2>3, <2>4
  <1> QED
    BY <1>1, ReindexingCorrect, PTL

\* Two products are related only if they share a rare word, and, topK
\* permitting, always then (catalogue.go:139-151).
THEOREM RareWordsRelate == Spec => []RelatedByARareWord
  <1>1. ASSUME ReindexingInv PROVE RelatedByARareWord
    <2> SUFFICES ASSUME Finished, n >= 2, NEW i \in 1..n, NEW j \in 1..n \ {i}, NEW Shared,
                        Shared = {w \in Words(products[i]) \cap Words(products[j]) :
                                   \E k \in 1..n : \A f \in ToSet(products[k].text) : w \notin Within[f]}
                 PROVE  /\ Edge(i, j) \in ToSet(edges) => Shared # {}
                        /\ Shared # {} /\ topK >= n - 1 => Edge(i, j) \in ToSet(edges)
      BY DEF RelatedByARareWord
    <2>1. /\ CatalogueRead /\ Vectorised /\ topK \in Nat /\ n \in Nat
          /\ NearestOf(i, topK, RelatedTo(i))
      BY <1>1, AllCompared
    <2>2. Dot(i, j) > 0 <=> Shared # {}
      <3>1. Dot(i, j) > 0 <=> \E w \in Words(products[i]) \cap Words(products[j]) : Rare(w)
        BY <2>1, DotOfProducts
      <3> QED
        BY <3>1 DEF Rare
    <2>3. j \in Scored(i) <=> Shared # {}
      BY <2>2 DEF Scored
    <2>4. Edge(i, j) \in ToSet(edges) <=> j \in RelatedTo(i)
      BY DEF RelatedTo
    <2>5. j \in RelatedTo(i) => j \in Scored(i)
      BY <2>1 DEF NearestOf
    <2>6. ASSUME j \in Scored(i), topK >= n - 1, j \notin RelatedTo(i) PROVE FALSE
      <3> DEFINE J == RelatedTo(i)
                 Others == (1..n \ {i}) \ {j}
      <3>1. Cardinality(J) = topK /\ J \subseteq Scored(i)
        BY <2>1, <2>6 DEF NearestOf
      <3>2. J \in SUBSET Others
        BY <2>6, <3>1 DEF Scored
      <3>3. IsFiniteSet(1..n) /\ Cardinality(1..n) = n
        BY <2>1, FS_Interval
      <3>4. IsFiniteSet(1..n \ {i}) /\ Cardinality(1..n \ {i}) = n - 1
        BY <3>3, FS_RemoveElement
      <3>5. IsFiniteSet(Others) /\ Cardinality(Others) = n - 2
        <4> DEFINE D == 1..n \ {i}
        <4>1. j \in D /\ IsFiniteSet(D) /\ Cardinality(D) = n - 1
          BY <3>4
        <4> HIDE DEF D
        <4>2. IsFiniteSet(D \ {j}) /\ Cardinality(D \ {j}) = (n - 1) - 1
          BY <4>1, FS_RemoveElement
        <4>3. (n - 1) - 1 = n - 2
          BY <2>1
        <4> QED
          BY <4>2, <4>3 DEF D
      <3> HIDE DEF J, Others
      <3>6. Cardinality(J) <= n - 2
        BY <3>2, <3>5, FS_Subset
      <3> QED
        BY <2>1, <2>6, <3>1, <3>6
    <2> QED
      BY <2>3, <2>4, <2>5, <2>6
  <1> QED
    BY <1>1, ReindexingCorrect, PTL
=============================================================================
