------------------------- MODULE GatewayMoneyProofs -------------------------
(***************************************************************************)
(* Proofs about what the gateway counts and charges: the monthly counters, *)
(* who is turned away for them, and how far past a limit they can get.     *)
(*                                                                         *)
(* The counters are sums over finite sets.  What a sum is, is proved first *)
(* by induction over the size of the set, in the form of a least           *)
(* counterexample.                                                         *)
(***************************************************************************)
EXTENDS GatewayProofs, FiniteSetTheorems, WellFoundedInduction

\* A set of natural numbers that is not empty has a least one.
LEMMA LeastNumber ==
  ASSUME NEW S \in SUBSET Nat, S # {}
  PROVE  \E k \in S : \A i \in S : k <= i
  <1>1. PICK k \in S : \A i \in S : <<i, k>> \notin OpToRel(<, Nat)
    <2> HIDE DEF OpToRel
    <2> QED BY NatLessThanWellFounded, WFMin
  <1>2. \A i \in S : ~(i < k)
    BY <1>1 DEF OpToRel
  <1> QED
    BY <1>2

\* g gives the sum of f over every part of S, taking out the chosen element.
Adds(f, S, g) ==
  g = [s \in SUBSET S |->
         IF s = {} THEN 0
         ELSE f[CHOOSE x \in s : TRUE] + g[s \ {CHOOSE x \in s : TRUE}]]

LEMMA SumByChoice ==
  ASSUME NEW f, NEW S
  PROVE  SumFunctionOnSet(f, S) = (CHOOSE g : Adds(f, S, g))[S]
  BY DEF SumFunctionOnSet, FoldFunctionOnSet, MapThenFoldSet, Adds

LEMMA AddsExists ==
  ASSUME NEW D, NEW f \in [D -> Nat], NEW S \in SUBSET D, IsFiniteSet(S)
  PROVE  \E g \in [SUBSET S -> Nat] : Adds(f, S, g)
  <1> DEFINE Pick(s) == CHOOSE x \in s : TRUE
             Sum(g, s) == IF s = {} THEN 0 ELSE f[Pick(s)] + g[s \ {Pick(s)}]
             UpTo(k) == \E g \in [SUBSET S -> Nat] :
                          \A s \in SUBSET S : Cardinality(s) <= k => g[s] = Sum(g, s)
             Bad == {k \in Nat : ~UpTo(k)}
  <1>1. \A s \in SUBSET S : s # {} => Pick(s) \in s /\ s \ {Pick(s)} \in SUBSET S /\ f[Pick(s)] \in Nat
    OBVIOUS
  <1>2. \A s \in SUBSET S : Cardinality(s) \in Nat /\ (Cardinality(s) = 0 <=> s = {})
    BY FS_Subset, FS_CardinalityType, FS_EmptySet
  <1>3. \A s \in SUBSET S : s # {} => Cardinality(s \ {Pick(s)}) = Cardinality(s) - 1
    <2> SUFFICES ASSUME NEW s \in SUBSET S, s # {}
                 PROVE  Cardinality(s \ {Pick(s)}) = Cardinality(s) - 1
      OBVIOUS
    <2>1. IsFiniteSet(s)
      BY FS_Subset
    <2> QED
      BY <1>1, <2>1, FS_RemoveElement
  <1> HIDE DEF Pick
  <1>4. UpTo(0)
    <2> DEFINE g == [s \in SUBSET S |-> 0]
    <2>1. g \in [SUBSET S -> Nat]
      OBVIOUS
    <2>2. \A s \in SUBSET S : Cardinality(s) <= 0 => g[s] = Sum(g, s)
      BY <1>2
    <2> HIDE DEF g, Sum
    <2> QED
      BY <2>1, <2>2
  <1>5. ASSUME NEW k \in Nat, UpTo(k) PROVE UpTo(k + 1)
    <2>1. PICK g \in [SUBSET S -> Nat] :
             \A s \in SUBSET S : Cardinality(s) <= k => g[s] = Sum(g, s)
      BY <1>5
    <2> DEFINE h == [s \in SUBSET S |-> Sum(g, s)]
    <2>2. h \in [SUBSET S -> Nat]
      BY <1>1
    <2>3. ASSUME NEW s \in SUBSET S, Cardinality(s) <= k + 1 PROVE h[s] = Sum(h, s)
      <3>1. CASE s = {}
        BY <3>1
      <3>2. CASE s # {}
        <4>1. Cardinality(s \ {Pick(s)}) <= k /\ s \ {Pick(s)} \in SUBSET S
          BY <1>1, <1>2, <1>3, <2>3, <3>2
        <4>2. h[s \ {Pick(s)}] = g[s \ {Pick(s)}]
          BY <2>1, <4>1
        <4> QED
          BY <3>2, <4>2
      <3> QED
        BY <3>1, <3>2
    <2> HIDE DEF h
    <2> QED
      BY <2>2, <2>3
  <1> HIDE DEF UpTo
  <1>6. Bad = {}
    <2> SUFFICES ASSUME Bad # {} PROVE FALSE
      OBVIOUS
    <2>1. PICK k \in Bad : \A i \in Bad : k <= i
      <3> HIDE DEF Bad
      <3>1. Bad \in SUBSET Nat
        BY DEF Bad
      <3> QED
        BY <3>1, LeastNumber
    <2>2. k # 0 /\ k \in Nat
      BY <1>4
    <2>3. k - 1 \in Nat /\ k - 1 \notin Bad
      BY <2>1, <2>2
    <2> QED
      BY <1>5, <2>2, <2>3
  <1>7. PICK g \in [SUBSET S -> Nat] :
           \A s \in SUBSET S : Cardinality(s) <= Cardinality(S) => g[s] = Sum(g, s)
    <2>1. Cardinality(S) \in Nat
      BY <1>2
    <2> QED
      BY <1>6, <2>1 DEF UpTo
  <1>8. \A s \in SUBSET S : g[s] = Sum(g, s)
    BY <1>7, FS_Subset
  <1> QED
    BY <1>8 DEF Adds, Pick

LEMMA AddsUnique ==
  ASSUME NEW f, NEW S, NEW R, NEW g, NEW h, Adds(f, S, g), Adds(f, R, h),
         NEW s, s \subseteq S, s \subseteq R, IsFiniteSet(s)
  PROVE  g[s] = h[s]
  <1> DEFINE Pick(u) == CHOOSE x \in u : TRUE
             Bad == {k \in Nat : \E u \in SUBSET s : Cardinality(u) = k /\ g[u] # h[u]}
  <1>1. \A u \in SUBSET s : u # {} => Pick(u) \in u
    OBVIOUS
  <1>2. \A u \in SUBSET s :
          /\ u = {} => g[u] = 0 /\ h[u] = 0
          /\ u # {} => /\ g[u] = f[Pick(u)] + g[u \ {Pick(u)}]
                       /\ h[u] = f[Pick(u)] + h[u \ {Pick(u)}]
    BY DEF Adds
  <1> HIDE DEF Pick
  <1>3. ASSUME NEW k \in Bad PROVE \E i \in Bad : i < k
    <2>1. PICK u \in SUBSET s : Cardinality(u) = k /\ g[u] # h[u]
      BY <1>3
    <2>2. u # {} /\ g[u \ {Pick(u)}] # h[u \ {Pick(u)}]
      <3>1. u # {}
        BY <1>2, <2>1
      <3>2. /\ g[u] = f[Pick(u)] + g[u \ {Pick(u)}]
            /\ h[u] = f[Pick(u)] + h[u \ {Pick(u)}]
        BY <1>2, <3>1
      <3> HIDE DEF Bad
      <3> QED
        BY <2>1, <3>1, <3>2
    <2>3. IsFiniteSet(u)
      BY FS_Subset
    <2>4. IsFiniteSet(u \ {Pick(u)}) /\ Cardinality(u \ {Pick(u)}) = k - 1
      BY <1>1, <2>1, <2>2, <2>3, FS_RemoveElement
    <2>5. k - 1 \in Nat
      BY <2>4, FS_CardinalityType
    <2>6. k - 1 \in Bad
      BY <2>2, <2>4, <2>5
    <2> QED
      BY <2>5, <2>6
  <1>4. Bad = {}
    <2>1. Bad \in SUBSET Nat
      OBVIOUS
    <2> HIDE DEF Bad
    <2> QED
      BY <1>3, <2>1, LeastNumber
  <1>5. Cardinality(s) \in Nat
    BY FS_CardinalityType
  <1> QED
    BY <1>4, <1>5

\* What a sum over a finite set is: of the empty set 0, and of another one the
\* chosen element's value and the sum of the rest.
LEMMA SumChosen ==
  ASSUME NEW D, NEW f \in [D -> Nat], NEW S \in SUBSET D, IsFiniteSet(S)
  PROVE  /\ SumFunctionOnSet(f, S) \in Nat
         /\ S = {} => SumFunctionOnSet(f, S) = 0
         /\ S # {} => \E x \in S : SumFunctionOnSet(f, S) = f[x] + SumFunctionOnSet(f, S \ {x})
  <1> DEFINE Fn(R) == CHOOSE g : Adds(f, R, g)
  <1>1. ASSUME NEW R \in SUBSET S
        PROVE  Adds(f, R, Fn(R)) /\ SumFunctionOnSet(f, R) = Fn(R)[R] /\ Fn(R)[R] \in Nat
    <2>0. IsFiniteSet(R)
      BY FS_Subset
    <2>1. PICK g \in [SUBSET R -> Nat] : Adds(f, R, g)
      BY <2>0, AddsExists
    <2>2. Adds(f, R, Fn(R))
      BY <2>1
    <2> HIDE DEF Fn
    <2>3. Fn(R)[R] = g[R]
      BY <2>0, <2>1, <2>2, AddsUnique
    <2>4. SumFunctionOnSet(f, R) = Fn(R)[R]
      BY SumByChoice DEF Fn
    <2> QED
      BY <2>1, <2>2, <2>3, <2>4
  <1> HIDE DEF Fn
  <1>2. CASE S = {}
    <2>1. Fn(S)[S] = 0
      BY <1>1, <1>2 DEF Adds
    <2> QED
      BY <1>1, <1>2, <2>1
  <1>3. CASE S # {}
    <2> DEFINE x == CHOOSE y \in S : TRUE
    <2>1. x \in S
      BY <1>3
    <2>2. Fn(S)[S] = f[x] + Fn(S)[S \ {x}]
      BY <1>1, <1>3 DEF Adds
    <2> HIDE DEF x
    <2>3. IsFiniteSet(S \ {x})
      BY FS_Subset
    <2>4. Fn(S)[S \ {x}] = Fn(S \ {x})[S \ {x}]
      <3>1. Adds(f, S, Fn(S)) /\ Adds(f, S \ {x}, Fn(S \ {x}))
        BY <1>1
      <3> QED
        BY <2>3, <3>1, AddsUnique
    <2> QED
      BY <1>1, <1>3, <2>1, <2>2, <2>4
  <1> QED
    BY <1>2, <1>3

\* Any element may be taken out first.
LEMMA SumTakeOut ==
  ASSUME NEW D, NEW f \in [D -> Nat], NEW S \in SUBSET D, IsFiniteSet(S), NEW x \in S
  PROVE  SumFunctionOnSet(f, S) = f[x] + SumFunctionOnSet(f, S \ {x})
  <1> DEFINE Sum(u) == SumFunctionOnSet(f, u)
             Bad == {k \in Nat : \E u \in SUBSET S : \E y \in u :
                       Cardinality(u) = k /\ Sum(u) # f[y] + Sum(u \ {y})}
  <1>1. \A u \in SUBSET S : IsFiniteSet(u) /\ Cardinality(u) \in Nat
    BY FS_Subset, FS_CardinalityType
  <1>2. ASSUME NEW u \in SUBSET S, NEW y \in u
        PROVE  Cardinality(u \ {y}) = Cardinality(u) - 1
    BY <1>1, FS_RemoveElement
  <1>3. \A u \in SUBSET S : Sum(u) \in Nat /\ (u # {} => \E z \in u : Sum(u) = f[z] + Sum(u \ {z}))
    BY <1>1, SumChosen
  <1> HIDE DEF Sum
  <1>4. ASSUME NEW k \in Bad PROVE \E i \in Bad : i < k
    <2>1. PICK u \in SUBSET S : \E y \in u : Cardinality(u) = k /\ Sum(u) # f[y] + Sum(u \ {y})
      BY <1>4
    <2>a. PICK y \in u : Cardinality(u) = k /\ Sum(u) # f[y] + Sum(u \ {y})
      BY <2>1
    <2>2. PICK z \in u : Sum(u) = f[z] + Sum(u \ {z})
      BY <1>3
    <2>3. z # y
      BY <2>a, <2>2
    <2>4. /\ Cardinality(u \ {z}) = k - 1 /\ Cardinality(u \ {y}) = k - 1
          /\ k \in Nat /\ k - 1 \in Nat
      BY <1>1, <1>2, <2>a
    <2>5. k - 1 \in Bad
      <3>1. CASE Sum(u \ {z}) # f[y] + Sum((u \ {z}) \ {y})
        BY <2>3, <2>4, <3>1
      <3>2. CASE Sum(u \ {y}) # f[z] + Sum((u \ {y}) \ {z})
        BY <2>3, <2>4, <3>2
      <3>3. CASE /\ Sum(u \ {z}) = f[y] + Sum((u \ {z}) \ {y})
                 /\ Sum(u \ {y}) = f[z] + Sum((u \ {y}) \ {z})
        <4>1. (u \ {z}) \ {y} = (u \ {y}) \ {z}
          OBVIOUS
        <4>2. f[y] \in Nat /\ f[z] \in Nat /\ Sum((u \ {y}) \ {z}) \in Nat
          BY <1>3
        <4> HIDE DEF Bad
        <4> QED
          BY <2>a, <2>2, <3>3, <4>1, <4>2
      <3> QED
        BY <3>1, <3>2, <3>3
    <2> HIDE DEF Bad
    <2> QED
      BY <2>4, <2>5
  <1>5. Bad \in SUBSET Nat
    OBVIOUS
  <1>6. Bad = {}
    <2> HIDE DEF Bad
    <2> QED
      BY <1>4, <1>5, LeastNumber
  <1> QED
    BY <1>1, <1>6 DEF Sum

\* The sum over a part is no larger.
LEMMA SumOfPart ==
  ASSUME NEW D, NEW f \in [D -> Nat], NEW S \in SUBSET D, IsFiniteSet(S), NEW R \in SUBSET S
  PROVE  SumFunctionOnSet(f, R) <= SumFunctionOnSet(f, S)
  <1> DEFINE Sum(u) == SumFunctionOnSet(f, u)
             Bad == {k \in Nat : \E u \in SUBSET S : \E v \in SUBSET u :
                       Cardinality(u) = k /\ ~(Sum(v) <= Sum(u))}
  <1>1. \A u \in SUBSET S : IsFiniteSet(u) /\ Cardinality(u) \in Nat /\ Sum(u) \in Nat
    BY FS_Subset, FS_CardinalityType, SumChosen
  <1>2. ASSUME NEW u \in SUBSET S, NEW y \in u
        PROVE  Cardinality(u \ {y}) = Cardinality(u) - 1 /\ Sum(u) = f[y] + Sum(u \ {y})
    <2>1. u \in SUBSET D
      OBVIOUS
    <2> QED
      BY <1>1, <2>1, FS_RemoveElement, SumTakeOut
  <1> HIDE DEF Sum
  <1>3. ASSUME NEW k \in Bad PROVE \E i \in Bad : i < k
    <2>0. PICK u \in SUBSET S : \E v \in SUBSET u : Cardinality(u) = k /\ ~(Sum(v) <= Sum(u))
      BY <1>3
    <2>1. PICK v \in SUBSET u : Cardinality(u) = k /\ ~(Sum(v) <= Sum(u))
      BY <2>0
    <2>2. PICK y \in u : y \notin v
      BY <1>1, <2>1
    <2>3. Sum(u) = f[y] + Sum(u \ {y}) /\ Cardinality(u \ {y}) = k - 1 /\ f[y] \in Nat
      BY <1>2, <2>1
    <2>4. u \ {y} \in SUBSET S /\ v \in SUBSET (u \ {y})
      BY <2>2
    <2>5. Sum(v) \in Nat /\ Sum(u \ {y}) \in Nat /\ k - 1 \in Nat
      BY <1>1, <2>3, <2>4
    <2>6. ~(Sum(v) <= Sum(u \ {y}))
      BY <2>1, <2>3, <2>5
    <2> QED
      BY <2>3, <2>4, <2>5, <2>6
  <1>4. Bad \in SUBSET Nat
    OBVIOUS
  <1>5. Bad = {}
    <2> HIDE DEF Bad
    <2> QED
      BY <1>3, <1>4, LeastNumber
  <1> QED
    BY <1>1, <1>5 DEF Sum

\* Only the values on the set count.
LEMMA SumOfEquals ==
  ASSUME NEW D, NEW f \in [D -> Nat], NEW g \in [D -> Nat], NEW S \in SUBSET D, IsFiniteSet(S),
         \A x \in S : f[x] = g[x]
  PROVE  SumFunctionOnSet(f, S) = SumFunctionOnSet(g, S)
  <1> DEFINE F(u) == SumFunctionOnSet(f, u)
             G(u) == SumFunctionOnSet(g, u)
             Bad == {k \in Nat : \E u \in SUBSET S : Cardinality(u) = k /\ F(u) # G(u)}
  <1>1. \A u \in SUBSET S : IsFiniteSet(u) /\ Cardinality(u) \in Nat
    BY FS_Subset, FS_CardinalityType
  <1>2. ASSUME NEW u \in SUBSET S, NEW y \in u
        PROVE  /\ Cardinality(u \ {y}) = Cardinality(u) - 1
               /\ F(u) = f[y] + F(u \ {y}) /\ G(u) = g[y] + G(u \ {y})
    BY <1>1, FS_RemoveElement, SumTakeOut
  <1>3. F({}) = 0 /\ G({}) = 0
    <2>1. {} \in SUBSET D /\ IsFiniteSet({})
      BY FS_EmptySet
    <2> QED
      BY <2>1, SumChosen
  <1> HIDE DEF F, G
  <1>4. ASSUME NEW k \in Bad PROVE \E i \in Bad : i < k
    <2>1. PICK u \in SUBSET S : Cardinality(u) = k /\ F(u) # G(u)
      BY <1>4
    <2>2. PICK y \in u : TRUE
      BY <1>3, <2>1
    <2>3. F(u \ {y}) # G(u \ {y}) /\ Cardinality(u \ {y}) = k - 1
      BY <1>2, <2>1
    <2>4. u \ {y} \in SUBSET S /\ k - 1 \in Nat
      BY <1>1, <2>3
    <2> QED
      BY <2>3, <2>4
  <1>5. Bad \in SUBSET Nat
    OBVIOUS
  <1>6. Bad = {}
    <2> HIDE DEF Bad
    <2> QED
      BY <1>4, <1>5, LeastNumber
  <1> QED
    BY <1>1, <1>6 DEF F, G

\* A sum of ones counts.
LEMMA SumOfOnes ==
  ASSUME NEW D, NEW f \in [D -> Nat], NEW S \in SUBSET D, IsFiniteSet(S), \A x \in S : f[x] = 1
  PROVE  SumFunctionOnSet(f, S) = Cardinality(S)
  <1> DEFINE Sum(u) == SumFunctionOnSet(f, u)
             Bad == {k \in Nat : \E u \in SUBSET S : Cardinality(u) = k /\ Sum(u) # k}
  <1>1. \A u \in SUBSET S : IsFiniteSet(u) /\ Cardinality(u) \in Nat
    BY FS_Subset, FS_CardinalityType
  <1>2. ASSUME NEW u \in SUBSET S, NEW y \in u
        PROVE  Cardinality(u \ {y}) = Cardinality(u) - 1 /\ Sum(u) = 1 + Sum(u \ {y})
    BY <1>1, FS_RemoveElement, SumTakeOut
  <1>3. Sum({}) = 0 /\ Cardinality({}) = 0
    <2>1. {} \in SUBSET D /\ IsFiniteSet({})
      BY FS_EmptySet
    <2> QED
      BY <2>1, SumChosen, FS_EmptySet
  <1> HIDE DEF Sum
  <1>4. ASSUME NEW k \in Bad PROVE \E i \in Bad : i < k
    <2>1. PICK u \in SUBSET S : Cardinality(u) = k /\ Sum(u) # k
      BY <1>4
    <2>2. PICK y \in u : TRUE
      BY <1>3, <2>1
    <2>3. Sum(u) = 1 + Sum(u \ {y}) /\ Cardinality(u \ {y}) = k - 1
      BY <1>2, <2>1
    <2>4. u \ {y} \in SUBSET S /\ k \in Nat /\ k - 1 \in Nat
      BY <1>1, <2>3
    <2>5. Sum(u \ {y}) # k - 1
      BY <2>1, <2>3, <2>4
    <2> QED
      BY <2>3, <2>4, <2>5
  <1>5. Bad \in SUBSET Nat
    OBVIOUS
  <1>6. Bad = {}
    <2> HIDE DEF Bad
    <2> QED
      BY <1>4, <1>5, LeastNumber
  <1> QED
    BY <1>1, <1>6 DEF Sum

-----------------------------------------------------------------------------
\* A request is counted once, after its tokens were sold to it as the leader of
\* a flight; before its call has come back it was neither sold nor counted.
MoneyInv ==
  /\ IsFiniteSet(sold)
  /\ \A r \in Request :
       /\ pc[r] = "check" => checked[r] = 0
       /\ pc[r] \in {"check"} \cup Unbilled => billed[r] = 0
       /\ pc[r] \in {"check", "lookup", "do", "call"} => r \notin sold
       /\ billed[r] # 0 => r \in sold /\ source[r] = r /\ r \notin hits

LEMMA MoneyStep == TypeOK /\ CallInv /\ MoneyInv /\ [Next]_vars => MoneyInv'
  <1> SUFFICES ASSUME TypeOK, CallInv, MoneyInv, [Next]_vars PROVE MoneyInv'
    OBVIOUS
  <1>1. IsFiniteSet(sold')
    <2>1. sold' = sold \/ \E r \in Request : sold' = sold \cup {r}
      BY DEF Next, vars, Ask, Done, Admit, Reject, FailOpen, LookupHit, LookupMiss, Join, Lead,
             Generate, Receive, CallFails, Record, RecordFails, StoreAnswer, Land, Return,
             Disconnect, PodCrash, CacheExpires, NextMonth, providerVars
    <2> QED
      BY <2>1, FS_AddElement DEF MoneyInv
  <1> DEFINE Fine(r) ==
        /\ pc[r] = "check" => checked[r] = 0
        /\ pc[r] \in {"check"} \cup Unbilled => billed[r] = 0
        /\ pc[r] \in {"check", "lookup", "do", "call"} => r \notin sold
        /\ billed[r] # 0 => r \in sold /\ source[r] = r /\ r \notin hits
  <1>2. ASSUME NEW x \in Request PROVE Fine(x)'
    <2>0. Fine(x)
      BY DEF MoneyInv
    <2> USE DEF CallInv, TypeOK, InFlight, InCall, Unbilled, Steps, Goto, Finish
    <2>1. ASSUME NEW r \in Request,
                 Admit(r) \/ Reject(r) \/ FailOpen(r) \/ LookupMiss(r)
                   \/ Receive(r) \/ CallFails(r) \/ RecordFails(r)
          PROVE  Fine(x)'
      <3>1. UNCHANGED <<source, hits, sold, billed>> /\ (x # r => checked'[x] = checked[x])
        BY <2>1 DEF Admit, Reject, FailOpen, LookupMiss, Receive, CallFails, RecordFails,
                    providerVars, historyVars
      <3>2. CASE Admit(r) \/ Reject(r) \/ FailOpen(r)
        <4>1. pc[r] = "check" /\ \E s \in {"lookup", "done"} : pc' = [pc EXCEPT ![r] = s]
          BY <3>2 DEF Admit, Reject, FailOpen
        <4> QED
          BY <2>0, <3>1, <4>1
      <3>3. CASE LookupMiss(r)
        <4>1. pc[r] = "lookup" /\ pc' = [pc EXCEPT ![r] = "do"] /\ checked' = checked
          BY <3>3 DEF LookupMiss, historyVars
        <4> QED
          BY <2>0, <3>1, <4>1
      <3>4. CASE Receive(r) \/ CallFails(r) \/ RecordFails(r)
        <4>1. /\ pc[r] \in InCall \cup {"record"} /\ checked' = checked
              /\ \/ pc[r] = "sent" /\ pc' = [pc EXCEPT ![r] = "record"]
                 \/ \E s \in {"land", "store"} : pc' = [pc EXCEPT ![r] = s]
          BY <3>4 DEF Receive, CallFails, RecordFails, historyVars
        <4> QED
          BY <2>0, <3>1, <4>1
      <3> QED
        BY <2>1, <3>2, <3>3, <3>4
    <2>2. ASSUME NEW r \in Request, LookupHit(r) PROVE Fine(x)'
      <3>1. /\ pc[r] = "lookup" /\ pc' = [pc EXCEPT ![r] = "done"] /\ hits' = hits \cup {r}
            /\ x # r => source'[x] = source[x]
            /\ UNCHANGED <<sold, billed, checked>>
        BY <2>2 DEF LookupHit, providerVars, historyVars
      <3> QED
        BY <2>0, <3>1
    <2>3. ASSUME NEW r \in Request, Join(r) \/ Lead(r) PROVE Fine(x)'
      <3>1. /\ pc[r] = "do" /\ \E s \in {"wait", "call"} : pc' = [pc EXCEPT ![r] = s]
            /\ x # r => source'[x] = source[x]
            /\ UNCHANGED <<hits, sold, billed, checked>>
        BY <2>3 DEF Join, Lead, providerVars, historyVars
      <3> QED
        BY <2>0, <3>1
    <2>4. ASSUME NEW r \in Request, Generate(r) PROVE Fine(x)'
      BY <2>0, <2>4 DEF Generate, historyVars
    <2>5. ASSUME NEW r \in Request, Record(r) PROVE Fine(x)'
      <3>1. /\ pc[r] = "record" /\ pc' = [pc EXCEPT ![r] = "store"]
            /\ x # r => billed'[x] = billed[x]
            /\ UNCHANGED <<source, hits, sold, checked>>
        BY <2>5 DEF Record, providerVars
      <3> QED
        BY <2>0, <3>1
    <2>6. ASSUME NEW r \in Request, StoreAnswer(r) \/ Land(r) \/ Return(r) PROVE Fine(x)'
      <3>1. /\ pc'[x] = pc[x] \/ pc'[x] \in {"land", "return", "done"}
            /\ UNCHANGED <<source, hits, sold, billed, checked>>
        BY <2>6 DEF StoreAnswer, Land, Return, providerVars, historyVars
      <3> QED
        BY <2>0, <3>1
    <2>7. ASSUME NEW p \in Pod, PodCrash(p) PROVE Fine(x)'
      <3>1. /\ pc'[x] \in {pc[x], "done"}
            /\ UNCHANGED <<source, hits, sold, billed, checked>>
        BY <2>7 DEF PodCrash, providerVars, historyVars
      <3> QED
        BY <2>0, <3>1
    <2>8. (\E r \in Request : Disconnect(r)) \/ (\E t \in Tenant : CacheExpires(t))
            \/ NextMonth \/ UNCHANGED vars
            => UNCHANGED <<pc, source, hits, sold, billed, checked>>
      BY DEF Disconnect, CacheExpires, NextMonth, vars, goVars, providerVars, historyVars
    <2>9. CASE UNCHANGED <<pc, source, hits, sold, billed, checked>>
      BY <2>0, <2>9
    <2> QED
      BY <2>1, <2>2, <2>3, <2>4, <2>5, <2>6, <2>7, <2>8, <2>9 DEF Next, Ask, Done
  <1> QED
    BY <1>1, <1>2 DEF MoneyInv

THEOREM MoneyCorrect == Spec => []MoneyInv
  <1>1. Init => MoneyInv
    BY FS_EmptySet DEF Init, MoneyInv, Unbilled, InCall
  <1> QED
    BY <1>1, TypeCorrect, CallCorrect, MoneyStep, PTL DEF Spec

-----------------------------------------------------------------------------
\* The tokens of an answer are fixed once it is sold, and sums over answers sold
\* do not change.
LEMMA PriceFixed ==
  ASSUME TypeOK, MoneyInv, [Next]_vars, NEW x \in sold
  PROVE  cost'[x] = cost[x]
  <1>1. cost' = cost \/ \E r \in Request : Generate(r)
    BY DEF Next, vars, Ask, Done, Admit, Reject, FailOpen, LookupHit, LookupMiss, Join, Lead,
           Receive, CallFails, Record, RecordFails, StoreAnswer, Land, Return,
           Disconnect, PodCrash, CacheExpires, NextMonth, providerVars
  <1>2. ASSUME NEW r \in Request, Generate(r) PROVE cost'[x] = cost[x]
    <2>1. r # x
      BY <1>2 DEF Generate, MoneyInv
    <2> QED
      BY <1>2, <2>1 DEF Generate, TypeOK
  <1> QED
    BY <1>1, <1>2

LEMMA SumFixed ==
  ASSUME TypeOK, TypeOK', MoneyInv, [Next]_vars, NEW S \in SUBSET sold
  PROVE  SumFunctionOnSet(cost', S) = SumFunctionOnSet(cost, S)
  <1>1. cost \in [Request -> Nat] /\ cost' \in [Request -> Nat] /\ S \in SUBSET Request
    BY DEF TypeOK
  <1>2. IsFiniteSet(S)
    BY FS_Subset DEF MoneyInv
  <1>3. \A x \in S : cost'[x] = cost[x]
    BY PriceFixed
  <1> QED
    BY <1>1, <1>2, <1>3, SumOfEquals

\* Sums over finite sets of requests, in the terms of this specification.
LEMMA CostFacts ==
  ASSUME TypeOK, MoneyInv, NEW S \in SUBSET sold
  PROVE  /\ CostOf(S) \in Nat
         /\ S = {} => CostOf(S) = 0
         /\ \A x \in S : CostOf(S) = cost[x] + CostOf(S \ {x})
         /\ \A R \in SUBSET S : CostOf(R) <= CostOf(S)
  <1>1. cost \in [Request -> Nat] /\ S \in SUBSET Request
    BY DEF TypeOK
  <1>2. IsFiniteSet(S)
    BY FS_Subset DEF MoneyInv
  <1> QED
    BY <1>1, <1>2, SumChosen, SumTakeOut, SumOfPart DEF CostOf

LEMMA BilledIsSold ==
  ASSUME MoneyInv, NEW t, NEW m \in Nat \ {0}
  PROVE  BilledIn(t, m) \in SUBSET sold
  BY DEF MoneyInv, BilledIn

\* Only Record counts a request, and only the one it records.
LEMMA BilledChanges ==
  ASSUME TypeOK, [Next]_vars
  PROVE  \/ UNCHANGED <<used, billed>>
         \/ \E r \in Request : Record(r)
  BY DEF Next, vars, Ask, Done, Admit, Reject, FailOpen, LookupHit, LookupMiss, Join, Lead,
         Generate, Receive, CallFails, RecordFails, StoreAnswer, Land, Return,
         Disconnect, PodCrash, CacheExpires, NextMonth, redisVars, historyVars

\* The first half of LedgerExact.
Balanced == \A t \in Tenant, m \in 1..MaxMonth : used[t][m] = CostOf(BilledIn(t, m))

LEMMA BalancedStep ==
  TypeOK /\ TypeOK' /\ CallInv /\ MoneyInv /\ MoneyInv' /\ Balanced /\ [Next]_vars => Balanced'
  <1> SUFFICES ASSUME TypeOK, TypeOK', CallInv, MoneyInv, MoneyInv', Balanced, [Next]_vars,
                      NEW t \in Tenant, NEW m \in 1..MaxMonth
               PROVE  used'[t][m] = CostOf(BilledIn(t, m))'
    BY DEF Balanced
  <1> DEFINE B == BilledIn(t, m)
  <1>0. req' = req
    BY ReqFixed
  <1>1. m \in Nat \ {0} /\ B \in SUBSET sold /\ B' \in SUBSET sold'
    BY BilledIsSold, NumbersAssumption DEF MoneyInv, BilledIn
  <1>2. SumFunctionOnSet(cost', B) = CostOf(B)
    BY <1>1, SumFixed DEF CostOf
  <1>3. used[t][m] = CostOf(B)
    BY DEF Balanced
  <1>4. CostOf(B)' = SumFunctionOnSet(cost', B')
    BY DEF CostOf
  <1>5. CASE UNCHANGED <<used, billed>>
    <2>1. B' = B
      BY <1>0, <1>5 DEF BilledIn, T
    <2> QED
      BY <1>2, <1>3, <1>4, <1>5, <2>1
  <1>6. ASSUME NEW r \in Request, Record(r) PROVE used'[t][m] = CostOf(B)'
    <2>1. /\ used' = [used EXCEPT ![T(r)][month] = @ + cost[r]]
          /\ billed' = [billed EXCEPT ![r] = month] /\ billed[r] = 0 /\ r \in sold
          /\ cost' = cost /\ sold' = sold
      BY <1>6 DEF Record, Spend, MoneyInv, CallInv, Unbilled, providerVars
    <2>2. T(r) \in Tenant /\ month \in 1..MaxMonth
      BY SetsAssumption DEF TypeOK, T
    <2>3. CASE T(r) = t /\ month = m
      <3>1. B' = B \cup {r} /\ r \notin B
        BY <1>0, <1>1, <2>1, <2>3 DEF BilledIn, T, TypeOK
      <3>2. B' \ {r} = B
        BY <3>1
      <3>3. SumFunctionOnSet(cost, B') = cost[r] + SumFunctionOnSet(cost, B)
        <4>1. r \in B' /\ B' \in SUBSET sold
          BY <1>1, <2>1, <3>1
        <4> QED
          BY <3>2, <4>1, CostFacts DEF CostOf
      <3>4. used'[t][m] = used[t][m] + cost[r]
        BY <2>1, <2>2, <2>3 DEF TypeOK
      <3>5. used[t] \in [1..MaxMonth -> Nat] /\ cost[r] \in Nat
        BY DEF TypeOK
      <3>6. used[t][m] \in Nat
        BY <3>5
      <3> QED
        BY <1>3, <1>4, <2>1, <3>3, <3>4, <3>5, <3>6 DEF CostOf
    <2>4. CASE ~(T(r) = t /\ month = m)
      <3>1. B' = B
        BY <1>0, <1>1, <2>1, <2>4 DEF BilledIn, T, TypeOK
      <3>2. used'[t][m] = used[t][m]
        BY <2>1, <2>2, <2>4 DEF TypeOK
      <3> QED
        BY <1>2, <1>3, <1>4, <3>1, <3>2
    <2> QED
      BY <2>3, <2>4
  <1> QED
    BY <1>5, <1>6, BilledChanges

LEMMA BalancedInit == Init => Balanced
  <1> SUFFICES ASSUME Init, NEW t \in Tenant, NEW m \in 1..MaxMonth
               PROVE  used[t][m] = CostOf(BilledIn(t, m))
    BY DEF Balanced
  <1>1. BilledIn(t, m) = {}
    BY NumbersAssumption DEF Init, BilledIn
  <1>2. TypeOK /\ MoneyInv
    BY TypeInit, FS_EmptySet DEF Init, MoneyInv, Unbilled, InCall
  <1>3. CostOf({}) = 0
    <2>1. {} \in SUBSET sold
      OBVIOUS
    <2> QED
      BY <1>2, <2>1, CostFacts
  <1> QED
    BY <1>1, <1>3 DEF Init

\* The counter of every tenant and month is the cost of exactly the calls
\* recorded in it, each counted once and only to the leader who bought it,
\* for any number of requests and whatever fails (budget.go, Record).
THEOREM LedgerCorrect == Spec => []LedgerExact
  <1>1. MoneyInv /\ Balanced => LedgerExact
    BY DEF MoneyInv, Balanced, LedgerExact
  <1>2. Spec => []Balanced
    BY BalancedInit, BalancedStep, TypeCorrect, CallCorrect, MoneyCorrect, PTL DEF Spec
  <1> QED
    BY <1>1, <1>2, MoneyCorrect, PTL

-----------------------------------------------------------------------------
LEMMA RejectionStep ==
  TypeOK /\ TypeOK' /\ MoneyInv /\ MoneyInv' /\ Balanced /\ CallInv /\ RejectionIsEarned /\ [Next]_vars
    => RejectionIsEarned'
  <1> SUFFICES ASSUME TypeOK, TypeOK', MoneyInv, MoneyInv', Balanced, CallInv, RejectionIsEarned,
                      [Next]_vars, NEW r \in Request, reply'[r] = "429"
               PROVE  (CostOf({x \in sold : T(x) = T(r)}) >= Limit[T(r)])'
    BY DEF RejectionIsEarned
  <1> DEFINE Own == {x \in sold : T(x) = T(r)}
  <1>0. req' = req /\ T(r) \in Tenant
    BY ReqFixed, SetsAssumption DEF TypeOK, T
  <1>1. Own \in SUBSET sold /\ Own \in SUBSET Own' /\ Own' \in SUBSET sold'
    BY <1>0, SoldGrows DEF T
  <1> HIDE DEF Own
  <1>2. CostOf(Own) \in Nat /\ CostOf(Own)' \in Nat /\ CostOf(Own)' >= CostOf(Own)
    <2>1. SumFunctionOnSet(cost', Own) = SumFunctionOnSet(cost, Own)
      BY <1>1, SumFixed
    <2>2. cost' \in [Request -> Nat] /\ Own' \in SUBSET Request
      BY <1>1 DEF TypeOK
    <2>3. IsFiniteSet(Own')
      BY <1>1, FS_Subset DEF MoneyInv
    <2>4. SumFunctionOnSet(cost', Own) <= SumFunctionOnSet(cost', Own')
      BY <1>1, <2>2, <2>3, SumOfPart
    <2>5. CostOf(Own) \in Nat /\ SumFunctionOnSet(cost', Own') \in Nat
      BY <1>1, <2>2, <2>3, CostFacts, SumChosen
    <2> QED
      BY <2>1, <2>4, <2>5 DEF CostOf
  <1>3. Limit[T(r)] \in Nat
    BY <1>0, NumbersAssumption
  <1>4. CASE reply[r] = "429"
    <2>1. CostOf(Own) >= Limit[T(r)]
      BY <1>4 DEF RejectionIsEarned, Own
    <2>2. CostOf(Own)' >= Limit[T(r)]
      BY <1>2, <1>3, <2>1
    <2> QED
      BY <1>0, <2>2 DEF Own, T
  <1>5. CASE reply[r] # "429"
    <2>1. Reject(r)
      <3>1. \/ reply' = reply
            \/ \E x \in Request : Reject(x) \/ LookupHit(x) \/ Return(x)
            \/ \E p \in Pod : PodCrash(p)
        BY DEF Next, vars, Ask, Done, Admit, FailOpen, LookupMiss, Join, Lead, Generate, Receive,
             CallFails, Record, RecordFails, StoreAnswer, Land, Disconnect, CacheExpires,
             NextMonth, goVars
      <3> QED
        BY <1>5, <3>1 DEF TypeOK, Reject, LookupHit, Return, ReplyTo, PodCrash, Finish
    <2>2. used[T(r)][month] >= Limit[T(r)]
      <3>1. used[T(r)] \in [1..MaxMonth -> Nat] /\ month \in 1..MaxMonth
        BY <1>0 DEF TypeOK
      <3>2. used[T(r)][month] \in Nat
        BY <3>1
      <3> QED
        BY <1>3, <2>1, <3>2 DEF Reject, WithinBudget
    <2>3. BilledIn(T(r), month) \in SUBSET Own /\ month \in 1..MaxMonth
      <3>1. month \in 1..MaxMonth
        BY DEF TypeOK
      <3> QED
        BY <3>1, NumbersAssumption DEF BilledIn, MoneyInv, TypeOK, Own
    <2>4. CostOf(BilledIn(T(r), month)) <= CostOf(Own) /\ CostOf(BilledIn(T(r), month)) \in Nat
      BY <1>1, <2>3, CostFacts
    <2>5. used[T(r)][month] = CostOf(BilledIn(T(r), month))
      BY <1>0, <2>3 DEF Balanced
    <2>6. CostOf(Own)' >= Limit[T(r)]
      BY <1>2, <1>3, <2>2, <2>4, <2>5
    <2> QED
      BY <1>0, <2>6 DEF Own, T
  <1> QED
    BY <1>4, <1>5

\* Nobody is turned away for what others spent, nor for what was recorded but
\* not sold: whoever gets a 429 has been sold at least its limit.
THEOREM RejectionsEarned == Spec => []RejectionIsEarned
  <1>1. Init => RejectionIsEarned
    BY DEF Init, RejectionIsEarned
  <1>2. Spec => []Balanced
    BY BalancedInit, BalancedStep, TypeCorrect, CallCorrect, MoneyCorrect, PTL DEF Spec
  <1> QED
    BY <1>1, <1>2, TypeCorrect, CallCorrect, MoneyCorrect, RejectionStep, PTL DEF Spec

-----------------------------------------------------------------------------
\* rank is the order in which requests passed their check, last the highest rank
\* given.  Whoever has passed its check counts those ahead of it that are still
\* unbilled among its peers, so what was billed ahead of it and is not of its
\* peers was in the counter it read.
InOrder(rank, last) ==
  \A r \in Request : checked[r] # 0 =>
    /\ rank[r] <= last
    /\ \A x \in Request :
         T(x) = T(r) /\ checked[x] # 0 /\ pc[x] \in Unbilled /\ rank[x] <= rank[r] => x \in peers[r]
    /\ CostOf({x \in BilledIn(T(r), checked[r]) : checked[x] # 0 /\ rank[x] <= rank[r]} \ peers[r])
         < Limit[T(r)]

AdmittedInOrder == \E rank \in [Request -> Nat], last \in Nat : InOrder(rank, last)

\* Every step but Admit leaves the order as it is: no request becomes unbilled
\* that has passed its check, and none is counted that was not unbilled.
LEMMA OrderKept ==
  ASSUME TypeOK, TypeOK', MoneyInv, MoneyInv', [Next]_vars, ~ \E r \in Request : Admit(r),
         NEW rank \in [Request -> Nat], NEW last \in Nat, InOrder(rank, last)
  PROVE  InOrder(rank, last)'
  <1>0. req' = req /\ checked' = checked /\ peers' = peers
    <2>1. checked' = checked /\ peers' = peers
      BY DEF Next, vars, Ask, Done, Reject, FailOpen, LookupHit, LookupMiss, Join, Lead,
             Generate, Receive, CallFails, Record, RecordFails, StoreAnswer, Land, Return,
             Disconnect, PodCrash, CacheExpires, NextMonth, historyVars
    <2> QED
      BY <2>1, ReqFixed
  <1>1. \A x \in Request : checked[x] # 0 /\ pc'[x] \in Unbilled => pc[x] \in Unbilled
    <2> SUFFICES ASSUME NEW x \in Request, checked[x] # 0, pc'[x] \in Unbilled
                 PROVE  pc[x] \in Unbilled
      OBVIOUS
    <2>1. pc[x] # "check"
      BY DEF MoneyInv
    <2> USE DEF TypeOK, Unbilled, InCall, Goto, Finish
    <2>2. ASSUME NEW r \in Request, Ask(r) PROVE pc[x] \in Unbilled
      BY <2>1, <2>2 DEF Ask, Admit, Reject, FailOpen, LookupHit, LookupMiss, Join, Lead,
             Generate, Receive, CallFails, Record, RecordFails, StoreAnswer, Land, Return
    <2>3. ASSUME NEW p \in Pod, PodCrash(p) PROVE pc[x] \in Unbilled
      BY <2>3 DEF PodCrash
    <2>4. (\E r \in Request : Disconnect(r)) \/ (\E t \in Tenant : CacheExpires(t))
            \/ NextMonth \/ UNCHANGED vars => pc' = pc
      BY DEF Disconnect, CacheExpires, NextMonth, vars, goVars
    <2> QED
      BY <2>2, <2>3, <2>4 DEF Next, Done
  <1>2. ASSUME NEW x \in Request, billed'[x] # billed[x]
        PROVE  pc[x] \in Unbilled
    BY <1>2, BilledChanges DEF TypeOK, Record, Unbilled
  <1> SUFFICES ASSUME NEW r \in Request, checked[r] # 0
               PROVE  /\ rank[r] <= last
                      /\ \A x \in Request :
                           T(x)' = T(r)' /\ checked[x] # 0 /\ pc'[x] \in Unbilled /\ rank[x] <= rank[r]
                             => x \in peers[r]
                      /\ CostOf({x \in BilledIn(T(r), checked[r]) :
                                   checked[x] # 0 /\ rank[x] <= rank[r]} \ peers[r])' < Limit[T(r)']
    BY <1>0 DEF InOrder
  <1>3. T(r)' = T(r) /\ \A x \in Request : T(x)' = T(x)
    BY <1>0 DEF T
  <1> DEFINE Ahead == {x \in BilledIn(T(r), checked[r]) : checked[x] # 0 /\ rank[x] <= rank[r]} \ peers[r]
  <1>4. /\ rank[r] <= last
        /\ \A x \in Request :
             T(x) = T(r) /\ checked[x] # 0 /\ pc[x] \in Unbilled /\ rank[x] <= rank[r] => x \in peers[r]
        /\ CostOf(Ahead) < Limit[T(r)]
    BY DEF InOrder
  <1>5. Ahead' = Ahead
    <2>1. \A x \in Request : billed'[x] # billed[x] =>
             x \in peers[r] \/ checked[x] = 0 \/ T(x) # T(r) \/ ~(rank[x] <= rank[r])
      BY <1>2, <1>4
    <2> QED
      BY <1>0, <1>3, <2>1 DEF BilledIn
  <1>6. Ahead \in SUBSET sold
    <2>1. BilledIn(T(r), checked[r]) \in SUBSET sold
      BY NumbersAssumption, BilledIsSold DEF TypeOK
    <2> QED
      BY <2>1
  <1>7. CostOf(Ahead)' = CostOf(Ahead)
    <2> HIDE DEF Ahead
    <2>1. SumFunctionOnSet(cost', Ahead) = SumFunctionOnSet(cost, Ahead)
      BY <1>6, SumFixed
    <2> QED
      BY <1>5, <2>1 DEF CostOf
  <1> QED
    BY <1>1, <1>3, <1>4, <1>7

\* Admit gives the next rank; what is billed then and not of its peers is part of
\* the counter, which is below the limit.
LEMMA OrderGrows ==
  ASSUME TypeOK, TypeOK', MoneyInv, MoneyInv', Balanced, [Next]_vars, NEW r \in Request, Admit(r),
         NEW rank \in [Request -> Nat], NEW last \in Nat, InOrder(rank, last)
  PROVE  InOrder([rank EXCEPT ![r] = last + 1], last + 1)'
  <1> DEFINE next == [rank EXCEPT ![r] = last + 1]
             Ahead(y) == {x \in BilledIn(T(y), checked[y]) : checked[x] # 0 /\ next[x] <= next[y]} \ peers[y]
  <1>0. /\ req' = req /\ cost' = cost /\ sold' = sold /\ billed' = billed /\ month \in 1..MaxMonth
        /\ checked' = [checked EXCEPT ![r] = month] /\ checked[r] = 0
        /\ pc' = [pc EXCEPT ![r] = "lookup"] /\ billed[r] = 0
        /\ peers' = [peers EXCEPT ![r] =
                       {r} \cup {x \in Request : T(x) = T(r) /\ pc[x] \in Unbilled}]
        /\ T(r) \in Tenant /\ used[T(r)][month] < Limit[T(r)]
    BY SetsAssumption DEF Admit, WithinBudget, Goto, MoneyInv, TypeOK, T, providerVars, envVars
  <1>1. \A x \in Request : T(x)' = T(x)
    BY <1>0 DEF T
  <1>2. next \in [Request -> Nat] /\ next[r] = last + 1 /\ \A x \in Request : x # r => next[x] = rank[x]
    OBVIOUS
  <1> HIDE DEF next
  <1> SUFFICES ASSUME NEW y \in Request, checked'[y] # 0
               PROVE  /\ next[y] <= last + 1
                      /\ \A x \in Request :
                           T(x) = T(y) /\ checked'[x] # 0 /\ pc'[x] \in Unbilled /\ next[x] <= next[y]
                             => x \in peers'[y]
                      /\ CostOf(Ahead(y))' < Limit[T(y)]
    BY <1>1 DEF InOrder, next
  <1>3. CASE y = r
    <2>1. \A x \in Request :
            T(x) = T(y) /\ checked'[x] # 0 /\ pc'[x] \in Unbilled => x \in peers'[y]
      BY <1>0, <1>3 DEF TypeOK
    <2>2. Ahead(y)' \in SUBSET BilledIn(T(r), month)
      BY <1>0, <1>1, <1>3 DEF BilledIn, TypeOK
    <2>3. BilledIn(T(r), month) \in SUBSET sold
      BY <1>0, NumbersAssumption, BilledIsSold
    <2> HIDE DEF Ahead
    <2>4. /\ CostOf(Ahead(y)') <= CostOf(BilledIn(T(r), month))
          /\ CostOf(Ahead(y)') \in Nat /\ CostOf(BilledIn(T(r), month)) \in Nat
      BY <2>2, <2>3, CostFacts
    <2>5. CostOf(Ahead(y))' = CostOf(Ahead(y)')
      BY <1>0 DEF CostOf
    <2>6. CostOf(BilledIn(T(r), month)) < Limit[T(r)]
      BY <1>0 DEF Balanced
    <2>7. Limit[T(r)] \in Nat
      BY <1>0, NumbersAssumption
    <2> QED
      BY <1>2, <1>3, <2>1, <2>4, <2>5, <2>6, <2>7
  <1>4. CASE y # r
    <2>1. checked[y] # 0 /\ checked'[y] = checked[y] /\ peers'[y] = peers[y]
      BY <1>0, <1>4 DEF TypeOK
    <2> DEFINE Old == {x \in BilledIn(T(y), checked[y]) : checked[x] # 0 /\ rank[x] <= rank[y]} \ peers[y]
    <2>2. /\ rank[y] <= last
          /\ \A x \in Request :
               T(x) = T(y) /\ checked[x] # 0 /\ pc[x] \in Unbilled /\ rank[x] <= rank[y] => x \in peers[y]
          /\ CostOf(Old) < Limit[T(y)]
      BY <2>1 DEF InOrder
    <2>3. next[y] = rank[y] /\ ~(next[r] <= next[y])
      BY <1>2, <1>4, <2>2
    <2>4. \A x \in Request :
            T(x) = T(y) /\ checked'[x] # 0 /\ pc'[x] \in Unbilled /\ next[x] <= next[y]
              => x \in peers'[y]
      BY <1>0, <1>2, <2>1, <2>2, <2>3 DEF TypeOK
    <2>5. Ahead(y)' = Old
      <3>1. /\ \A x \in Request : T(x)' = T(x) /\ billed'[x] = billed[x]
            /\ T(y)' = T(y) /\ checked'[y] = checked[y] /\ peers'[y] = peers[y]
        BY <1>0, <1>1, <2>1
      <3>2. \A x \in Request :
              checked'[x] # 0 /\ next[x] <= next[y] <=> checked[x] # 0 /\ rank[x] <= rank[y]
        BY <1>0, <1>2, <2>3 DEF TypeOK
      <3> QED
        BY <3>1, <3>2 DEF BilledIn
    <2>6. CostOf(Ahead(y))' = CostOf(Old)
      <3> HIDE DEF Ahead, Old
      <3> QED
        BY <1>0, <2>5 DEF CostOf
    <2> QED
      BY <2>2, <2>3, <2>4, <2>6
  <1> QED
    BY <1>3, <1>4

LEMMA OrderStep ==
  TypeOK /\ TypeOK' /\ MoneyInv /\ MoneyInv' /\ Balanced /\ AdmittedInOrder /\ [Next]_vars
    => AdmittedInOrder'
  <1> SUFFICES ASSUME TypeOK, TypeOK', MoneyInv, MoneyInv', Balanced, AdmittedInOrder, [Next]_vars
               PROVE  AdmittedInOrder'
    OBVIOUS
  <1>1. PICK rank \in [Request -> Nat], last \in Nat : InOrder(rank, last)
    BY DEF AdmittedInOrder
  <1>2. CASE ~ \E r \in Request : Admit(r)
    <2>1. InOrder(rank, last)'
      BY <1>1, <1>2, OrderKept
    <2> QED
      BY <2>1 DEF AdmittedInOrder
  <1>3. ASSUME NEW r \in Request, Admit(r) PROVE AdmittedInOrder'
    <2>1. InOrder([rank EXCEPT ![r] = last + 1], last + 1)'
      BY <1>1, <1>3, OrderGrows
    <2>2. [rank EXCEPT ![r] = last + 1] \in [Request -> Nat] /\ last + 1 \in Nat
      OBVIOUS
    <2> QED
      BY <2>1, <2>2 DEF AdmittedInOrder
  <1> QED
    BY <1>2, <1>3

\* The one admitted last of the month's calls: what was billed and is not of its
\* peers was in the counter it was admitted against.
LEMMA LastAdmittedWitnesses ==
  TypeOK /\ MoneyInv /\ Balanced /\ AdmittedInOrder => OvershootIsConcurrent
  <1> SUFFICES ASSUME TypeOK, MoneyInv, Balanced, AdmittedInOrder,
                      NEW t \in Tenant, NEW m \in 1..MaxMonth,
                      used[t][m] >= Limit[t], Limit[t] > 0,
                      \A a \in BilledIn(t, m) : checked[a] = m
               PROVE  \E a \in BilledIn(t, m) : CostOf(BilledIn(t, m) \ peers[a]) < Limit[t]
    BY DEF OvershootIsConcurrent
  <1> DEFINE B == BilledIn(t, m)
  <1>0. m \in Nat \ {0} /\ B \in SUBSET sold
    BY NumbersAssumption, BilledIsSold
  <1>1. B # {}
    <2>1. CostOf(B) >= Limit[t] /\ Limit[t] \in Nat
      BY NumbersAssumption DEF Balanced
    <2> QED
      BY <1>0, <2>1, CostFacts
  <1>2. PICK rank \in [Request -> Nat], last \in Nat : InOrder(rank, last)
    BY DEF AdmittedInOrder
  <1>3. \A x \in B : x \in Request /\ T(x) = t /\ checked[x] = m /\ rank[x] \in Nat /\ rank[x] <= last
    BY <1>0, <1>2 DEF InOrder, BilledIn
  <1>4. PICK a \in B : \A x \in B : rank[x] <= rank[a]
    <2> DEFINE Gaps == {last - rank[x] : x \in B}
    <2>1. Gaps \in SUBSET Nat /\ Gaps # {}
      BY <1>1, <1>3
    <2>2. PICK k \in Gaps : \A i \in Gaps : k <= i
      <3> HIDE DEF Gaps
      <3> QED
        BY <2>1, LeastNumber
    <2>3. PICK a \in B : k = last - rank[a]
      BY <2>2
    <2>4. \A x \in B : last - rank[a] <= last - rank[x]
      BY <2>2, <2>3
    <2> QED
      BY <1>3, <2>4
  <1>5. B \ peers[a] = {x \in BilledIn(T(a), checked[a]) : checked[x] # 0 /\ rank[x] <= rank[a]} \ peers[a]
    BY <1>0, <1>3, <1>4
  <1>6. CostOf(B \ peers[a]) < Limit[t]
    BY <1>0, <1>2, <1>3, <1>5 DEF InOrder
  <1> QED
    BY <1>6

\* However many calls run at once, the month's counter passes the limit only by
\* those that were under way together: past the check of one of them, and not yet
\* recorded when it read the counter (budget.go, Check).
THEOREM OvershootOnlyConcurrent == Spec => []OvershootIsConcurrent
  <1>1. Init => AdmittedInOrder
    <2> SUFFICES ASSUME Init PROVE AdmittedInOrder
      OBVIOUS
    <2>1. [r \in Request |-> 0] \in [Request -> Nat] /\ InOrder([r \in Request |-> 0], 0)
      BY DEF Init, InOrder
    <2> QED
      BY <2>1 DEF AdmittedInOrder
  <1>2. Spec => []Balanced
    BY BalancedInit, BalancedStep, TypeCorrect, CallCorrect, MoneyCorrect, PTL DEF Spec
  <1> QED
    BY <1>1, <1>2, TypeCorrect, MoneyCorrect, OrderStep, LastAdmittedWitnesses, PTL DEF Spec
=============================================================================
