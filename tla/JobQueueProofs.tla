--------------------------- MODULE JobQueueProofs ---------------------------
(***************************************************************************)
(* Proofs about the deferred path, for any jobs, workers and failures.     *)
(***************************************************************************)
EXTENDS JobQueueProps, SequenceTheorems, FiniteSetTheorems, TLAPS

-----------------------------------------------------------------------------
(* The list, seen from either end. *)

LEMMA PushIsSeq ==
  ASSUME NEW S, NEW s \in Seq(S), NEW e \in S
  PROVE  /\ <<e>> \o s \in Seq(S)
         /\ Len(<<e>> \o s) = Len(s) + 1
         /\ (<<e>> \o s)[1] = e
         /\ \A i \in 1..Len(s) : (<<e>> \o s)[i + 1] = s[i]
  <1>1. <<e>> \in Seq(S) /\ Len(<<e>>) = 1 /\ <<e>>[1] = e
    OBVIOUS
  <1>2. Len(s) \in Nat
    OBVIOUS
  <1>3. \A i \in 1..(1 + Len(s)) : (<<e>> \o s)[i] = IF i <= 1 THEN <<e>>[i] ELSE s[i - 1]
    BY <1>1, ConcatProperties
  <1>4. <<e>> \o s \in Seq(S) /\ Len(<<e>> \o s) = 1 + Len(s)
    BY <1>1, ConcatProperties
  <1>5. (<<e>> \o s)[1] = e
    BY <1>1, <1>2, <1>3
  <1>6. ASSUME NEW i \in 1..Len(s) PROVE (<<e>> \o s)[i + 1] = s[i]
    <2>1. i + 1 \in 1..(1 + Len(s)) /\ ~(i + 1 <= 1) /\ (i + 1) - 1 = i
      BY <1>2
    <2> QED
      BY <1>3, <2>1
  <1> QED
    BY <1>2, <1>4, <1>5, <1>6

LEMMA FrontIsSeq ==
  ASSUME NEW S, NEW s \in Seq(S), s # << >>
  PROVE  /\ Front(s) \in Seq(S) /\ Last(s) \in S
         /\ Len(s) \in Nat \ {0} /\ Len(Front(s)) = Len(s) - 1
         /\ \A i \in 1..(Len(s) - 1) : Front(s)[i] = s[i]
  <1>1. Len(s) \in Nat \ {0}
    BY EmptySeq
  <1>2. \A i \in 1..Len(s) : s[i] \in S
    BY ElementOfSeq
  <1>3. \A i \in 1..(Len(s) - 1) : s[i] \in S
    BY <1>1, <1>2
  <1>4. Len(s) - 1 \in Int
    BY <1>1
  <1>5. /\ SubSeq(s, 1, Len(s) - 1) \in Seq(S)
        /\ Len(SubSeq(s, 1, Len(s) - 1)) = IF 1 <= Len(s) - 1 THEN (Len(s) - 1) - 1 + 1 ELSE 0
        /\ \A i \in 1..((Len(s) - 1) - 1 + 1) : SubSeq(s, 1, Len(s) - 1)[i] = s[1 + i - 1]
    BY <1>3, <1>4, SubSeqProperties
  <1>6. \A i \in 1..(Len(s) - 1) : SubSeq(s, 1, Len(s) - 1)[i] = s[i]
    BY <1>1, <1>5
  <1>7. Len(SubSeq(s, 1, Len(s) - 1)) = Len(s) - 1
    <2> DEFINE n == Len(s)
               l == Len(SubSeq(s, 1, n - 1))
    <2>1. n \in Nat \ {0} /\ l = IF 1 <= n - 1 THEN (n - 1) - 1 + 1 ELSE 0
      BY <1>1, <1>5
    <2> HIDE DEF n, l
    <2>2. l = n - 1
      BY <2>1
    <2> QED
      BY <2>2 DEF n, l
  <1>8. s[Len(s)] \in S
    BY <1>1, <1>2
  <1> QED
    BY <1>1, <1>5, <1>6, <1>7, <1>8 DEF Front, Last

LEMMA ReverseIsSeq ==
  ASSUME NEW S, NEW s \in Seq(S)
  PROVE  /\ Reverse(s) \in Seq(S) /\ Len(Reverse(s)) = Len(s)
         /\ \A i \in 1..Len(s) : Reverse(s)[i] = s[(Len(s) - i) + 1]
  <1>1. Len(s) \in Nat
    OBVIOUS
  <1>2. \A i \in 1..Len(s) : s[(Len(s) - i) + 1] \in S
    BY <1>1, ElementOfSeq
  <1>3. Reverse(s) \in [1..Len(s) -> S]
    BY <1>2 DEF Reverse
  <1>4. Reverse(s) \in Seq(S)
    BY <1>1, <1>3
  <1> QED
    BY <1>1, <1>3, <1>4 DEF Reverse

\* LPUSH, seen from the tail, appends.
LEMMA ReverseOfPush ==
  ASSUME NEW S, NEW s \in Seq(S), NEW e \in S
  PROVE  Reverse(<<e>> \o s) = Append(Reverse(s), e)
  <1> DEFINE p == <<e>> \o s
  <1>1. p \in Seq(S) /\ Len(p) = Len(s) + 1 /\ p[1] = e /\ \A i \in 1..Len(s) : p[i + 1] = s[i]
    BY PushIsSeq
  <1>2. Reverse(p) \in Seq(S) /\ Len(Reverse(p)) = Len(p)
        /\ \A i \in 1..Len(p) : Reverse(p)[i] = p[(Len(p) - i) + 1]
    BY <1>1, ReverseIsSeq
  <1>3. Reverse(s) \in Seq(S) /\ Len(Reverse(s)) = Len(s)
        /\ \A i \in 1..Len(s) : Reverse(s)[i] = s[(Len(s) - i) + 1]
    BY ReverseIsSeq
  <1> DEFINE a == Append(Reverse(s), e)
  <1>4. a \in Seq(S) /\ Len(a) = Len(s) + 1
    BY <1>3
  <1>5. ASSUME NEW i \in 1..Len(Reverse(p)) PROVE Reverse(p)[i] = a[i]
    <2>0. Len(s) \in Nat /\ i \in 1..(Len(s) + 1)
      BY <1>1, <1>2
    <2>1. CASE i = Len(s) + 1
      <3>1. Reverse(p)[i] = p[1]
        BY <1>1, <1>2, <2>0, <2>1
      <3>2. a[i] = e
        BY <1>3, <2>1
      <3> QED
        BY <1>1, <3>1, <3>2
    <2>2. CASE i \in 1..Len(s)
      <3>1. Reverse(p)[i] = p[((Len(s) - i) + 1) + 1]
        BY <1>1, <1>2, <2>0, <2>2
      <3>2. (Len(s) - i) + 1 \in 1..Len(s)
        BY <2>0, <2>2
      <3>3. p[((Len(s) - i) + 1) + 1] = s[(Len(s) - i) + 1]
        BY <1>1, <3>2
      <3>4. a[i] = Reverse(s)[i]
        BY <1>3, <2>2
      <3> QED
        BY <1>3, <2>2, <3>1, <3>3, <3>4
    <2>3. i = Len(s) + 1 \/ i \in 1..Len(s)
      BY <2>0
    <2> HIDE DEF p, a
    <2> QED
      BY <2>1, <2>2, <2>3
  <1> HIDE DEF p, a
  <1> QED
    BY <1>1, <1>2, <1>4, <1>5, SeqEqual DEF p, a

\* BRPOP takes the head of the list seen from the tail.
LEMMA ReverseOfPop ==
  ASSUME NEW S, NEW s \in Seq(S), s # << >>
  PROVE  /\ Reverse(s) # << >> /\ Head(Reverse(s)) = Last(s)
         /\ Tail(Reverse(s)) = Reverse(Front(s))
  <1> DEFINE f == Front(s)
             t == Reverse(s)
  <1>1. /\ f \in Seq(S) /\ Len(s) \in Nat \ {0} /\ Len(f) = Len(s) - 1
        /\ \A i \in 1..(Len(s) - 1) : f[i] = s[i]
    BY FrontIsSeq
  <1>2. t \in Seq(S) /\ Len(t) = Len(s) /\ \A i \in 1..Len(s) : t[i] = s[(Len(s) - i) + 1]
    BY ReverseIsSeq
  <1>3. Reverse(f) \in Seq(S) /\ Len(Reverse(f)) = Len(f)
        /\ \A i \in 1..Len(f) : Reverse(f)[i] = f[(Len(f) - i) + 1]
    BY <1>1, ReverseIsSeq
  <1>4. t # << >>
    BY <1>1, <1>2
  <1>5. Head(t) = Last(s)
    <2>1. t[1] = s[Len(s)]
      BY <1>1, <1>2
    <2> QED
      BY <1>2, <1>4, <2>1 DEF Last
  <1>6. Tail(t) \in Seq(S) /\ Len(Tail(t)) = Len(t) - 1
        /\ \A i \in 1..Len(Tail(t)) : Tail(t)[i] = t[i + 1]
    BY <1>2, <1>4, HeadTailProperties
  <1>7. ASSUME NEW i \in 1..Len(Tail(t)) PROVE Tail(t)[i] = Reverse(f)[i]
    <2>1. i \in 1..(Len(s) - 1) /\ i + 1 \in 1..Len(s) /\ (Len(s) - (i + 1)) + 1 = Len(s) - i
      BY <1>1, <1>2, <1>6
    <2>2. Tail(t)[i] = s[Len(s) - i]
      BY <1>2, <1>6, <2>1
    <2>3. Reverse(f)[i] = f[Len(s) - i]
      BY <1>1, <1>3, <2>1
    <2>4. Len(s) - i \in 1..(Len(s) - 1)
      BY <1>1, <2>1
    <2> QED
      BY <1>1, <2>2, <2>3, <2>4
  <1>8. Len(Tail(t)) = Len(Reverse(f))
    BY <1>1, <1>2, <1>3, <1>6
  <1> HIDE DEF f, t
  <1>9. Tail(t) = Reverse(f)
    BY <1>3, <1>6, <1>7, <1>8, SeqEqual
  <1> QED
    BY <1>4, <1>5, <1>9 DEF f, t

-----------------------------------------------------------------------------
(* How often a job is in the list. *)

Copies(q, j) == {i \in DOMAIN q : q[i] = j}

LEMMA CountPush ==
  ASSUME NEW S, NEW s \in Seq(S), NEW e \in S, NEW j
  PROVE  /\ IsFiniteSet(Copies(s, j)) /\ Cardinality(Copies(s, j)) \in Nat
         /\ Cardinality(Copies(<<e>> \o s, j)) =
              Cardinality(Copies(s, j)) + (IF e = j THEN 1 ELSE 0)
  <1> DEFINE p == <<e>> \o s
             A == Copies(s, j)
             B == {i \in 2..(Len(s) + 1) : p[i] = j}
             f == [i \in A |-> i + 1]
  <1>1. p \in Seq(S) /\ Len(p) = Len(s) + 1 /\ p[1] = e /\ \A i \in 1..Len(s) : p[i + 1] = s[i]
    BY PushIsSeq
  <1>2. Len(s) \in Nat /\ DOMAIN s = 1..Len(s) /\ DOMAIN p = 1..(Len(s) + 1)
    BY <1>1
  <1> HIDE DEF p
  <1>3. IsFiniteSet(A) /\ Cardinality(A) \in Nat
    <2>1. IsFiniteSet(1..Len(s))
      BY <1>2, FS_Interval
    <2>2. A \in SUBSET (1..Len(s))
      BY <1>2 DEF Copies
    <2> QED
      BY <2>1, <2>2, FS_Subset, FS_CardinalityType
  <1>4. f \in Bijection(A, B)
    <2>1. A \subseteq 1..Len(s) /\ \A i \in A : s[i] = j
      BY <1>2 DEF Copies
    <2>2. \A i \in A : i + 1 \in B
      BY <1>1, <1>2, <2>1
    <2>3. f \in [A -> B]
      BY <2>2
    <2>4. \A x, y \in A : f[x] = f[y] => x = y
      BY <1>2, <2>1
    <2>5. ASSUME NEW b \in B PROVE \E x \in A : f[x] = b
      <3>1. b - 1 \in 1..Len(s) /\ (b - 1) + 1 = b
        BY <1>2
      <3>2. s[b - 1] = j
        BY <1>1, <3>1
      <3>3. b - 1 \in A
        BY <1>2, <3>1, <3>2 DEF Copies
      <3> QED
        BY <3>1, <3>3
    <2> QED
      BY <2>3, <2>4, <2>5 DEF Bijection, Injection, Surjection, IsInjective
  <1>5. IsFiniteSet(B) /\ Cardinality(B) = Cardinality(A)
    BY <1>3, <1>4, FS_Bijection DEF ExistsBijection
  <1>6. CASE e = j
    <2>1. Copies(p, j) = B \cup {1}
      BY <1>1, <1>2, <1>6 DEF Copies
    <2>2. 1 \notin B
      BY <1>2
    <2> HIDE DEF A, B, f
    <2> QED
      BY <1>3, <1>5, <1>6, <2>1, <2>2, FS_AddElement DEF A, p
  <1>7. CASE e # j
    <2>1. Copies(p, j) = B
      BY <1>1, <1>2, <1>7 DEF Copies
    <2> HIDE DEF A, B, f
    <2> QED
      BY <1>3, <1>5, <1>7, <2>1 DEF A, p
  <1> QED
    BY <1>6, <1>7

LEMMA CountPop ==
  ASSUME NEW S, NEW s \in Seq(S), s # << >>, NEW j
  PROVE  Cardinality(Copies(s, j)) =
           Cardinality(Copies(Front(s), j)) + (IF Last(s) = j THEN 1 ELSE 0)
  <1> DEFINE f == Front(s)
             A == Copies(s, j)
             B == Copies(f, j)
  <1>1. /\ f \in Seq(S) /\ Len(s) \in Nat \ {0} /\ Len(f) = Len(s) - 1
        /\ \A i \in 1..(Len(s) - 1) : f[i] = s[i]
    BY FrontIsSeq
  <1>2. DOMAIN s = 1..Len(s) /\ DOMAIN f = 1..(Len(s) - 1)
    BY <1>1
  <1>3. Last(s) = s[Len(s)]
    BY DEF Last
  <1> HIDE DEF f
  <1>4. IsFiniteSet(B) /\ Cardinality(B) \in Nat
    <2>1. IsFiniteSet(1..(Len(s) - 1))
      BY <1>1, FS_Interval
    <2>2. B \in SUBSET (1..(Len(s) - 1))
      BY <1>2 DEF Copies
    <2> QED
      BY <2>1, <2>2, FS_Subset, FS_CardinalityType
  <1>5. CASE Last(s) = j
    <2>1. Len(s) \notin B
      BY <1>1, <1>2 DEF Copies
    <2>2. A \subseteq 1..Len(s) /\ B \subseteq 1..Len(s) /\ Len(s) \in A
      <3>1. A \subseteq 1..Len(s)
        BY <1>2 DEF Copies
      <3>2. B \subseteq 1..(Len(s) - 1)
        BY <1>2 DEF Copies
      <3>3. Len(s) \in A
        <4>1. Len(s) \in DOMAIN s
          BY <1>1, <1>2
        <4>2. s[Len(s)] = j
          BY <1>3, <1>5
        <4> QED
          BY <4>1, <4>2 DEF Copies
      <3> HIDE DEF A, B
      <3> QED
        BY <1>1, <3>1, <3>2, <3>3
    <2>4. ASSUME NEW i \in 1..Len(s), i # Len(s) PROVE i \in A <=> i \in B
      <3>1. i \in 1..(Len(s) - 1)
        BY <1>1, <2>4
      <3> QED
        BY <1>1, <1>2, <3>1 DEF Copies
    <2> HIDE DEF A, B
    <2>3. A = B \cup {Len(s)}
      BY <2>2, <2>4
    <2> HIDE DEF A, B
    <2> QED
      BY <1>4, <1>5, <2>1, <2>3, FS_AddElement DEF A, B, f
  <1>6. CASE Last(s) # j
    <2>1. A = B
      BY <1>1, <1>2, <1>3, <1>6 DEF Copies
    <2> HIDE DEF A, B
    <2> QED
      BY <1>4, <1>6, <2>1 DEF A, B, f
  <1> QED
    BY <1>5, <1>6

-----------------------------------------------------------------------------
(* How often a job is in hand. *)

Hands(c, j) == {w \in Worker : c[w] = j}

LEMMA HandsFinite ==
  ASSUME NEW c, NEW j
  PROVE  IsFiniteSet(Hands(c, j)) /\ Cardinality(Hands(c, j)) \in Nat
  <1>1. Hands(c, j) \in SUBSET Worker
    BY DEF Hands
  <1> QED
    BY <1>1, JobAssumption, FS_Subset, FS_CardinalityType

LEMMA CountTake ==
  ASSUME NEW c \in [Worker -> Job \cup {None}], NEW w \in Worker, c[w] = None,
         NEW e \in Job, NEW j \in Job
  PROVE  Cardinality(Hands([c EXCEPT ![w] = e], j)) =
           Cardinality(Hands(c, j)) + (IF e = j THEN 1 ELSE 0)
  <1>1. w \notin Hands(c, j)
    BY JobAssumption DEF Hands
  <1>2. CASE e = j
    <2>1. Hands([c EXCEPT ![w] = e], j) = Hands(c, j) \cup {w}
      BY <1>2 DEF Hands
    <2> QED
      BY <1>1, <1>2, <2>1, HandsFinite, FS_AddElement
  <1>3. CASE e # j
    <2>1. Hands([c EXCEPT ![w] = e], j) = Hands(c, j)
      BY <1>1, <1>3 DEF Hands
    <2> QED
      BY <1>3, <2>1, HandsFinite
  <1> QED
    BY <1>2, <1>3

LEMMA CountSettle ==
  ASSUME NEW c \in [Worker -> Job \cup {None}], NEW w \in Worker, c[w] # None, NEW j \in Job
  PROVE  Cardinality(Hands(c, j)) =
           Cardinality(Hands([c EXCEPT ![w] = None], j)) + (IF c[w] = j THEN 1 ELSE 0)
  <1> DEFINE d == [c EXCEPT ![w] = None]
  <1>1. d \in [Worker -> Job \cup {None}] /\ d[w] = None /\ c[w] \in Job
    OBVIOUS
  <1>2. c = [d EXCEPT ![w] = c[w]]
    BY <1>1
  <1> HIDE DEF d
  <1>3. Cardinality(Hands([d EXCEPT ![w] = c[w]], j)) =
          Cardinality(Hands(d, j)) + (IF c[w] = j THEN 1 ELSE 0)
    BY <1>1, CountTake
  <1> QED
    BY <1>2, <1>3 DEF d

-----------------------------------------------------------------------------
(* Type correctness. *)

LEMMA TypeInit == Init => TypeOK
  <1> SUFFICES ASSUME Init PROVE TypeOK
    OBVIOUS
  <1>1. at \in [Worker -> Places]
    BY DEF Init, Places
  <1>2. queue \in Seq(Job) /\ taken \in Seq(Job)
    BY DEF Init
  <1>3. upsets \in 0..MaxUpsets /\ seen \in Nat
    BY ScaleAssumption DEF Init
  <1> QED
    BY <1>1, <1>2, <1>3 DEF Init, TypeOK

BusyHasJob == \A w \in Worker : cur[w] # None <=> at[w] \in Busy

LEMMA BusyInit == Init => BusyHasJob
  BY DEF Init, BusyHasJob, Busy

LEMMA TypeStep == TypeOK /\ BusyHasJob /\ [Next]_vars => TypeOK' /\ BusyHasJob'
  <1> SUFFICES ASSUME TypeOK, BusyHasJob, [Next]_vars PROVE TypeOK' /\ BusyHasJob'
    OBVIOUS
  <1> USE JobAssumption, ScaleAssumption DEF TypeOK, BusyHasJob, Places, Busy, Move
  <1>1. ASSUME Upset PROVE upsets' \in 0..MaxUpsets
    BY <1>1 DEF Upset
  <1>2. ASSUME NEW j \in Job, LPush(j) PROVE queue' \in Seq(Job)
    BY <1>2, PushIsSeq DEF LPush
  <1>3. ASSUME NEW w \in Worker, cur[w] # None, Settle(w)
        PROVE  settled' \in [Job -> Nat] /\ cur' = [cur EXCEPT ![w] = None]
    BY <1>3 DEF Settle
  <1>4. ASSUME NEW j \in Job, Handler(j) PROVE TypeOK' /\ BusyHasJob'
    <2>1. CASE Enqueue(j)
      BY <2>1, <1>2 DEF Enqueue, workerVars, dbVars
    <2>2. CASE EnqueueUnsure(j)
      BY <2>2, <1>1, <1>2 DEF EnqueueUnsure, workerVars, dbVars
    <2>3. CASE EnqueueFails(j)
      BY <2>3, <1>1 DEF EnqueueFails, workerVars, dbVars
    <2>4. CASE Accept(j)
      BY <2>4 DEF Accept, workerVars, dbVars
    <2> QED
      BY <1>4, <2>1, <2>2, <2>3, <2>4 DEF Handler
  <1>5. ASSUME NEW w \in Worker, Drain(w) PROVE TypeOK' /\ BusyHasJob'
    <2>1. CASE CheckContext(w)
      BY <2>1 DEF CheckContext, AfterCheck, apiVars, dbVars
    <2>2. CASE Pop(w)
      <3>1. queue' \in Seq(Job) /\ Last(queue) \in Job /\ taken' \in Seq(Job)
        BY <2>2, FrontIsSeq DEF Pop
      <3> QED
        BY <2>2, <3>1 DEF Pop, apiVars, dbVars
    <2>3. CASE PopNothing(w)
      BY <2>3, <1>1 DEF PopNothing, apiVars, dbVars
    <2>4. CASE Receive(w)
      BY <2>4 DEF Receive, apiVars, dbVars
    <2>5. CASE ReplyLost(w)
      BY <2>5, <1>1, <1>3 DEF ReplyLost, apiVars, dbVars
    <2>6. CASE Load(w)
      BY <2>6 DEF Load, apiVars, dbVars
    <2>7. CASE Replace(w)
      BY <2>7 DEF Replace, CommitGraph, apiVars
    <2>8. CASE StoreFails(w)
      <3>1. applied' \subseteq Job
        BY <2>8 DEF StoreFails, CommitGraph
      <3>2. upsets' \in 0..MaxUpsets
        BY <2>8, <1>1 DEF StoreFails
      <3> QED
        BY <2>8, <3>1, <3>2, <1>3 DEF StoreFails, apiVars
    <2>9. CASE RecordRun(w)
      <3>1. runs' \subseteq Job
        BY <2>9 DEF RecordRun
      <3>2. upsets' \in 0..MaxUpsets
        BY <2>9, <1>1 DEF RecordRun
      <3> QED
        BY <2>9, <3>1, <3>2, <1>3 DEF RecordRun, apiVars
    <2>10. CASE ReadCanceled(w)
      BY <2>10 DEF ReadCanceled, apiVars, dbVars
    <2> QED
      BY <1>5, <2>1, <2>2, <2>3, <2>4, <2>5, <2>6, <2>7, <2>8, <2>9, <2>10 DEF Drain
  <1>6. ASSUME NEW w \in Worker, Scale(w) \/ Kill(w) PROVE TypeOK' /\ BusyHasJob'
    <2>1. CASE ScaleUp(w)
      BY <2>1 DEF ScaleUp, apiVars, dbVars
    <2>2. CASE ScaleDown(w)
      BY <2>2 DEF ScaleDown, apiVars, workerVars, dbVars
    <2>3. CASE Kill(w)
      BY <2>3, <1>1, <1>3 DEF Kill, apiVars, dbVars
    <2> QED
      BY <1>6, <2>1, <2>2, <2>3 DEF Scale
  <1>7. CASE Poll
    BY <1>7 DEF Poll, apiVars, workerVars, dbVars
  <1>8. CASE UNCHANGED vars
    BY <1>8 DEF vars, apiVars, workerVars, dbVars
  <1> QED
    BY <1>4, <1>5, <1>6, <1>7, <1>8 DEF Next, Idle

\* Every variable of the deferred path keeps its type, and a worker is at work
\* exactly while it has a job.
THEOREM QueueTypeCorrect == Spec => [](TypeOK /\ BusyHasJob)
  <1>1. Init => TypeOK /\ BusyHasJob
    BY TypeInit, BusyInit
  <1> QED
    BY <1>1, TypeStep, PTL DEF Spec

-----------------------------------------------------------------------------
\* A worker told to stop issues no further read of the queue.
THEOREM TerminatingStopReading == Spec => StopsReading
  <1>1. TypeOK /\ [Next]_vars
          => [\A w \in Worker : w \in term /\ at[w] # "pop" => at'[w] # "pop"]_vars
    <2> SUFFICES ASSUME TypeOK, Next, NEW w \in Worker, w \in term, at[w] # "pop"
                 PROVE  at'[w] # "pop"
      OBVIOUS
    <2> USE DEF TypeOK, Move
    <2>1. CASE UNCHANGED at
      BY <2>1
    <2>2. ASSUME NEW v \in Worker, Drain(v) PROVE at'[w] # "pop"
      BY <2>2 DEF Drain, CheckContext, AfterCheck, Pop, PopNothing, ReadCanceled, Receive, ReplyLost,
                  Load, Replace, StoreFails, RecordRun
    <2>3. ASSUME NEW v \in Worker, Scale(v) \/ Kill(v) PROVE at'[w] # "pop"
      BY <2>3 DEF Scale, ScaleUp, ScaleDown, Kill, workerVars
    <2>4. ASSUME NEW j \in Job, Handler(j) PROVE UNCHANGED at
      BY <2>4 DEF Handler, Enqueue, EnqueueUnsure, EnqueueFails, Accept, workerVars
    <2>5. Poll \/ Idle => UNCHANGED at
      BY DEF Poll, Idle, vars, workerVars
    <2> QED
      BY <2>1, <2>2, <2>3, <2>4, <2>5 DEF Next
  <1> QED
    BY <1>1, QueueTypeCorrect, PTL DEF Spec, StopsReading

-----------------------------------------------------------------------------
(* No copy of a job is lost from the account. *)

Account(j) == pushed[j] = Cardinality(Copies(queue, j)) + Cardinality(Hands(cur, j)) + settled[j]

Accounts == \A j \in Job : Account(j)

LEMMA AccountsInit == Init => Accounts
  <1> SUFFICES ASSUME Init, NEW j \in Job PROVE Account(j)
    BY DEF Accounts
  <1>1. Copies(queue, j) = {} /\ Hands(cur, j) = {}
    BY JobAssumption DEF Init, Copies, Hands
  <1>2. Cardinality(Copies(queue, j)) = 0 /\ Cardinality(Hands(cur, j)) = 0
    BY <1>1, FS_EmptySet
  <1>3. pushed[j] = 0 /\ settled[j] = 0
    BY DEF Init
  <1> QED
    BY <1>2, <1>3 DEF Account

LEMMA AccountsStep ==
  TypeOK /\ BusyHasJob /\ Accounts /\ [Next]_vars => Accounts'
  <1> SUFFICES ASSUME TypeOK, BusyHasJob, Accounts, [Next]_vars, NEW j \in Job
               PROVE  Account(j)'
    BY DEF Accounts
  <1>0. /\ Account(j) /\ pushed[j] \in Nat /\ settled[j] \in Nat /\ queue \in Seq(Job)
        /\ cur \in [Worker -> Job \cup {None}]
        /\ pushed \in [Job -> Nat] /\ settled \in [Job -> Nat]
    BY DEF Accounts, TypeOK
  <1>1. Cardinality(Hands(cur, j)) \in Nat /\ Cardinality(Copies(queue, j)) \in Nat
    <2>1. Cardinality(Hands(cur, j)) \in Nat
      BY HandsFinite
    <2>2. Cardinality(Copies(queue, j)) \in Nat
      BY <1>0, CountPush
    <2> QED
      BY <2>1, <2>2
  <1>2. ASSUME UNCHANGED <<pushed, queue, cur, settled>> PROVE Account(j)'
    BY <1>0, <1>2 DEF Account
  <1>3. ASSUME NEW i \in Job, LPush(i), pushed' = [pushed EXCEPT ![i] = @ + 1],
               UNCHANGED <<cur, settled>>
        PROVE  Account(j)'
    <2>1. Cardinality(Copies(queue', j)) = Cardinality(Copies(queue, j)) + (IF i = j THEN 1 ELSE 0)
      BY <1>0, <1>3, CountPush DEF LPush
    <2>2. pushed'[j] = pushed[j] + (IF i = j THEN 1 ELSE 0)
      BY <1>0, <1>3
    <2> QED
      BY <1>0, <1>1, <1>3, <2>1, <2>2 DEF Account
  <1>4. ASSUME NEW w \in Worker, Settle(w), cur[w] # None, UNCHANGED <<pushed, queue>>
        PROVE  Account(j)'
    <2>1. Cardinality(Hands(cur, j)) = Cardinality(Hands(cur', j)) + (IF cur[w] = j THEN 1 ELSE 0)
      BY <1>0, <1>4, CountSettle DEF Settle
    <2>2. settled'[j] = settled[j] + (IF cur[w] = j THEN 1 ELSE 0)
      BY <1>0, <1>4 DEF Settle
    <2>3. Cardinality(Hands(cur', j)) \in Nat
      BY HandsFinite
    <2> QED
      BY <1>0, <1>1, <1>4, <2>1, <2>2, <2>3 DEF Account
  <1>5. ASSUME NEW i \in Job, Handler(i) PROVE Account(j)'
    BY <1>2, <1>3, <1>5 DEF Handler, Enqueue, EnqueueUnsure, EnqueueFails, Accept, workerVars
  <1>6. ASSUME NEW w \in Worker, Pop(w) PROVE Account(j)'
    <2>1. cur[w] = None /\ queue # << >>
      BY <1>6 DEF Pop, BusyHasJob, Busy
    <2>2. Cardinality(Copies(queue, j)) =
            Cardinality(Copies(queue', j)) + (IF Last(queue) = j THEN 1 ELSE 0)
      BY <1>0, <1>6, <2>1, CountPop DEF Pop
    <2>3. Cardinality(Hands(cur', j)) = Cardinality(Hands(cur, j)) + (IF Last(queue) = j THEN 1 ELSE 0)
      <3>1. Last(queue) \in Job
        BY <1>0, <2>1, FrontIsSeq
      <3> QED
        BY <1>0, <1>6, <2>1, <3>1, CountTake DEF Pop
    <2>4. Cardinality(Copies(queue', j)) \in Nat
      <3>1. queue' \in Seq(Job)
        BY <1>0, <1>6, <2>1, FrontIsSeq DEF Pop
      <3> QED
        BY <3>1, CountPush
    <2> QED
      BY <1>0, <1>1, <1>6, <2>2, <2>3, <2>4 DEF Pop, apiVars, Account
  <1>7. ASSUME NEW w \in Worker, Drain(w), ~Pop(w) PROVE Account(j)'
    <2>1. CASE CheckContext(w) \/ PopNothing(w) \/ ReadCanceled(w) \/ Receive(w) \/ Load(w) \/ Replace(w)
      BY <2>1, <1>2 DEF CheckContext, PopNothing, ReadCanceled, Receive, Load, Replace, apiVars
    <2>2. CASE ReplyLost(w) \/ StoreFails(w) \/ RecordRun(w)
      BY <2>2, <1>4 DEF ReplyLost, StoreFails, RecordRun, apiVars, BusyHasJob, Busy
    <2> QED
      BY <1>7, <2>1, <2>2 DEF Drain
  <1>8. ASSUME NEW w \in Worker, Scale(w) \/ Kill(w) PROVE Account(j)'
    BY <1>2, <1>4, <1>8 DEF Scale, ScaleUp, ScaleDown, Kill, apiVars, workerVars
  <1>9. CASE Poll \/ UNCHANGED vars
    BY <1>2, <1>9 DEF Poll, vars, apiVars, workerVars
  <1> QED
    BY <1>5, <1>6, <1>7, <1>8, <1>9 DEF Next, Idle

\* Every copy of a job that was put on the list is in the list, with exactly one
\* worker, or has left the system, through any number of kills and lost replies.
THEOREM ConservesJobs == Spec => []JobsConserved
  <1>1. TypeOK /\ BusyHasJob /\ Accounts => JobsConserved
    BY DEF Accounts, Account, Copies, Hands, InQueue, InHand, BusyHasJob, JobsConserved
  <1>2. Init => TypeOK /\ BusyHasJob /\ Accounts
    BY TypeInit, BusyInit, AccountsInit
  <1>3. TypeOK /\ BusyHasJob /\ Accounts /\ [Next]_vars => TypeOK' /\ BusyHasJob' /\ Accounts'
    BY TypeStep, AccountsStep
  <1> QED
    BY <1>1, <1>2, <1>3, PTL DEF Spec

-----------------------------------------------------------------------------
(* The refinement. *)

LEMMA FifoStep == TypeOK /\ [Next]_vars => [FifoSpec!Next]_(FifoSpec!fifoVars)
  <1> SUFFICES ASSUME TypeOK, [Next]_vars PROVE [FifoSpec!Next]_(FifoSpec!fifoVars)
    OBVIOUS
  <1>0. queue \in Seq(Job)
    BY DEF TypeOK
  <1>1. ASSUME UNCHANGED <<queue, taken>> PROVE UNCHANGED FifoSpec!fifoVars
    BY <1>1 DEF FifoSpec!fifoVars
  <1>2. ASSUME NEW j \in Job, LPush(j), UNCHANGED taken PROVE FifoSpec!Put(j)
    BY <1>0, <1>2, ReverseOfPush DEF LPush, FifoSpec!Put
  <1>3. ASSUME NEW w \in Worker, Pop(w) PROVE FifoSpec!Take
    BY <1>0, <1>3, ReverseOfPop DEF Pop, FifoSpec!Take
  <1>4. ASSUME NEW j \in Job, Handler(j) PROVE [FifoSpec!Next]_(FifoSpec!fifoVars)
    BY <1>1, <1>2, <1>4 DEF Handler, Enqueue, EnqueueUnsure, EnqueueFails, Accept, FifoSpec!Next
  <1>5. ASSUME NEW w \in Worker, Drain(w), ~Pop(w) PROVE UNCHANGED <<queue, taken>>
    BY <1>5 DEF Drain, CheckContext, PopNothing, ReadCanceled, Receive, ReplyLost, Load, Replace,
                StoreFails, RecordRun
  <1>6. ASSUME NEW w \in Worker, Scale(w) \/ Kill(w) PROVE UNCHANGED <<queue, taken>>
    BY <1>6 DEF Scale, ScaleUp, ScaleDown, Kill
  <1>7. CASE Poll \/ UNCHANGED vars
    BY <1>7, <1>1 DEF Poll, vars
  <1> QED
    BY <1>1, <1>3, <1>4, <1>5, <1>6, <1>7 DEF Next, Idle, FifoSpec!Next

\* The Redis list, pushed at its head and popped at its tail, is a FIFO queue,
\* whatever fails and whichever pods come and go.
THEOREM ListIsFifo == Spec => ImplementsFifo
  <1>1. Init => FifoSpec!Init
    BY DEF Init, FifoSpec!Init, Reverse
  <1> QED
    BY <1>1, FifoStep, QueueTypeCorrect, PTL DEF Spec, ImplementsFifo, FifoSpec!Spec
=============================================================================
