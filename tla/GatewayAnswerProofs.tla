------------------------ MODULE GatewayAnswerProofs ------------------------
(***************************************************************************)
(* Proofs about the answers of the gateway: that they were bought, that    *)
(* they are answers to the question, and what the cache holds of them;     *)
(* that questions the coalescer takes for the same are the same for the    *)
(* cache: what Gateway assumes of the embedding, proved of it; and which   *)
(* questions the cache never takes for one another.                        *)
(***************************************************************************)
EXTENDS GatewayMoneyProofs, GatewayQuestions

LEMMA CacheChanges ==
  ASSUME [Next]_vars
  PROVE  \/ cache' = cache
         \/ \E r \in Request : StoreAnswer(r)
         \/ \E t \in Tenant : CacheExpires(t)
  BY DEF Next, vars, Ask, Done, Admit, Reject, FailOpen, LookupHit, LookupMiss, Join, Lead,
         Generate, Receive, CallFails, Record, RecordFails, Land, Return,
         Disconnect, PodCrash, NextMonth, redisVars

\* An entry of the cache after a step was there before, or is the answer that a
\* leader has just stored.
LEMMA EntryOrigin ==
  ASSUME TypeOK, [Next]_vars, NEW t \in Tenant, NEW i \in DOMAIN cache'[t]
  PROVE  \/ \E j \in DOMAIN cache[t] : cache'[t][i] = cache[t][j]
         \/ \E r \in Request : StoreAnswer(r) /\ T(r) = t /\ cache'[t][i] = r
  <1>1. CASE cache' = cache
    BY <1>1
  <1>2. ASSUME NEW r \in Request, StoreAnswer(r)
        PROVE  \/ \E j \in DOMAIN cache[t] : cache'[t][i] = cache[t][j]
               \/ T(r) = t /\ cache'[t][i] = r
    <2>1. CASE cache' = cache
      BY <2>1
    <2>2. CASE cache' = [cache EXCEPT ![T(r)] = Trim(<<r>> \o @)]
      <3>1. CASE T(r) # t
        BY <2>2, <3>1 DEF TypeOK
      <3>2. CASE T(r) = t
        <4>1. cache[t] \in Seq(Request) /\ cache'[t] = Trim(<<r>> \o cache[t])
          BY <2>2, <3>2 DEF TypeOK
        <4>2. \/ i = 1 /\ cache'[t][i] = r
              \/ i - 1 \in DOMAIN cache[t] /\ cache'[t][i] = cache[t][i - 1]
          BY <4>1, PushTrim
        <4> QED
          BY <4>2, <3>2
      <3> QED
        BY <3>1, <3>2
    <2> QED
      BY <1>2, <2>1, <2>2 DEF StoreAnswer
  <1>3. ASSUME NEW u \in Tenant, CacheExpires(u)
        PROVE  \E j \in DOMAIN cache[t] : cache'[t][i] = cache[t][j]
    <2>1. cache'[t] = IF t = u THEN << >> ELSE cache[t]
      BY <1>3 DEF CacheExpires, TypeOK
    <2>2. i \notin DOMAIN << >>
      OBVIOUS
    <2> QED
      BY <2>1, <2>2
  <1> QED
    BY <1>1, <1>2, <1>3, CacheChanges

-----------------------------------------------------------------------------
\* The entries of a cache are the leaders of calls that have come back.
Stored == \A t \in Tenant : \A i \in DOMAIN cache[t] : result[cache[t][i]] = "ok"

\* A call that has come back stays so.
LEMMA OkStays ==
  ASSUME TypeOK, CallInv, [Next]_vars, NEW x \in Request, result[x] = "ok"
  PROVE  result'[x] = "ok"
  <1>1. \/ result' = result
        \/ \E r \in Request : (CallFails(r) \/ StoreAnswer(r)) /\ (r # x => result'[x] = result[x])
    BY DEF TypeOK, Next, vars, Ask, Done, Admit, Reject, FailOpen, LookupHit, LookupMiss, Join,
           Lead, Generate, Receive, CallFails, Record, RecordFails, StoreAnswer, Land, Return,
           Disconnect, PodCrash, CacheExpires, NextMonth, goVars
  <1>2. pc[x] \notin InCall \cup {"store"}
    BY DEF CallInv, Unbilled
  <1> QED
    BY <1>1, <1>2 DEF CallFails, StoreAnswer

LEMMA StoredStep == TypeOK /\ CallInv /\ Stored /\ [Next]_vars => Stored'
  <1> SUFFICES ASSUME TypeOK, CallInv, Stored, [Next]_vars,
                      NEW t \in Tenant, NEW i \in DOMAIN cache'[t]
               PROVE  result'[cache'[t][i]] = "ok"
    BY DEF Stored
  <1>1. \A x \in Request : result[x] = "ok" => result'[x] = "ok"
    BY OkStays
  <1>2. CASE \E j \in DOMAIN cache[t] : cache'[t][i] = cache[t][j]
    BY <1>1, <1>2 DEF Stored, TypeOK
  <1>3. ASSUME NEW r \in Request, StoreAnswer(r), cache'[t][i] = r PROVE result'[r] = "ok"
    BY <1>3 DEF StoreAnswer, TypeOK
  <1> QED
    BY <1>2, <1>3, EntryOrigin

LEMMA BoughtStep == TypeOK /\ CallInv /\ Stored /\ AnswersWereBought /\ [Next]_vars => AnswersWereBought'
  <1> SUFFICES ASSUME TypeOK, CallInv, Stored, AnswersWereBought, [Next]_vars PROVE AnswersWereBought'
    OBVIOUS
  <1> DEFINE Bought == {x \in sold : result[x] = "ok"}
  <1>0. sold \subseteq Request /\ Bought \subseteq Bought'
    BY SoldGrows, OkStays DEF TypeOK
  <1>1. ASSUME NEW r \in Request, reply'[r] = "200" PROVE source'[r] \in Bought'
    <2>1. CASE reply[r] = "200"
      <3>1. pc[r] = "done" /\ r \in Request
        BY <2>1 DEF CallInv
      <3>2. source'[r] = source[r]
        BY <3>1 DEF TypeOK, Next, vars, Ask, Done, Admit, Reject, FailOpen, LookupHit, LookupMiss,
             Join, Lead, Generate, Receive, CallFails, Record, RecordFails, StoreAnswer, Land,
             Return, Disconnect, PodCrash, CacheExpires, NextMonth, goVars
      <3> QED
        BY <1>0, <2>1, <3>2 DEF AnswersWereBought
    <2>2. CASE reply[r] # "200"
      <3>0. \/ reply' = reply
            \/ \E x \in Request : Reject(x) \/ LookupHit(x) \/ Return(x)
            \/ \E p \in Pod : PodCrash(p)
        BY DEF Next, vars, Ask, Done, Admit, FailOpen, LookupMiss, Join, Lead, Generate, Receive,
             CallFails, Record, RecordFails, StoreAnswer, Land, Disconnect, CacheExpires,
             NextMonth, goVars
      <3>1. LookupHit(r) \/ Return(r)
        BY <1>1, <2>2, <3>0 DEF TypeOK, Reject, LookupHit, Return, PodCrash, Finish
      <3>2. CASE LookupHit(r)
        <4>1. PICK i \in DOMAIN cache[T(r)] : source' = [source EXCEPT ![r] = cache[T(r)][i]]
          BY <3>2 DEF LookupHit
        <4>2. T(r) \in Tenant
          BY SetsAssumption DEF TypeOK, T
        <4> QED
          BY <1>0, <4>1, <4>2 DEF AnswersWereBought, TypeOK
      <3>3. CASE Return(r)
        <4>1. source' = source /\ reply'[r] = ReplyTo(result[source[r]])
          BY <3>3 DEF Return, Finish, TypeOK
        <4>2. source[r] \in Request
          BY <3>3 DEF Return, CallInv
        <4> QED
          BY <1>0, <1>1, <4>1, <4>2 DEF CallInv, ReplyTo
      <3> QED
        BY <3>1, <3>2, <3>3
    <2> QED
      BY <2>1, <2>2
  <1>2. ASSUME NEW t \in Tenant, NEW i \in DOMAIN cache'[t] PROVE cache'[t][i] \in Bought'
    <2>1. CASE \E j \in DOMAIN cache[t] : cache'[t][i] = cache[t][j]
      BY <1>0, <2>1 DEF AnswersWereBought
    <2>2. ASSUME NEW r \in Request, StoreAnswer(r), cache'[t][i] = r PROVE cache'[t][i] \in Bought'
      <3>1. r \in sold'
        BY <2>2, SoldGrows DEF StoreAnswer, CallInv
      <3>2. result'[r] = "ok"
        BY <2>2 DEF StoreAnswer, TypeOK
      <3> QED
        BY <2>2, <3>1, <3>2
    <2> QED
      BY <2>1, <2>2, EntryOrigin
  <1> QED
    BY <1>1, <1>2 DEF AnswersWereBought

\* No request is ever given an answer, and no cache holds one, but that of a call
\* the provider was paid for and that came back, however calls fail, are
\* cancelled and are shared.
THEOREM AnswersBought == Spec => []AnswersWereBought
  <1>1. Init => Stored /\ AnswersWereBought
    BY DEF Init, Stored, AnswersWereBought
  <1> QED
    BY <1>1, TypeCorrect, CallCorrect, StoredStep, BoughtStep, PTL DEF Spec

-----------------------------------------------------------------------------
\* Answers that are out, or will be, and are not on the bill.
Unpaid == {r \in Request : billed[r] = 0 /\ (result[r] = "ok" \/ pc[r] = "store")}

OwedToRedis ==
  /\ IsFiniteSet(gone) /\ IsFiniteSet(Unpaid)
  /\ Cardinality(gone) + Cardinality(Unpaid) <= upsets

\* No step leaves one more unpaid or gone without an upset, nor two with one.
LEMMA UnpaidChanges ==
  ASSUME TypeOK, CallInv, [Next]_vars
  PROVE  \/ Unpaid' \subseteq Unpaid /\ gone' = gone /\ upsets' >= upsets
         \/ \E r \in Request :
              /\ upsets' = upsets + 1
              /\ \/ Unpaid' \subseteq Unpaid \cup {r} /\ gone' = gone
                 \/ Unpaid' \subseteq Unpaid /\ gone' = gone \cup {r}
  <1> USE DEF TypeOK, CallInv, Unpaid, Goto, Finish
  <1>0. upsets \in Nat /\ month \in Nat \ {0}
    BY NumbersAssumption
  <1>1. ASSUME NEW r \in Request, Record(r) PROVE Unpaid' \subseteq Unpaid /\ gone' = gone /\ upsets' >= upsets
    BY <1>0, <1>1 DEF Record, envVars
  <1>2. ASSUME NEW r \in Request, RecordFails(r)
        PROVE  upsets' = upsets + 1 /\ Unpaid' \subseteq Unpaid \cup {r} /\ gone' = gone
    BY <1>2 DEF RecordFails, WriteError, Upset, historyVars
  <1>3. ASSUME NEW r \in Request, StoreAnswer(r)
        PROVE  Unpaid' \subseteq Unpaid /\ gone' = gone /\ upsets' >= upsets
    BY <1>0, <1>3 DEF StoreAnswer, WriteError, Upset, historyVars
  <1>4. ASSUME NEW r \in Request, Disconnect(r)
        PROVE  upsets' = upsets + 1 /\ Unpaid' \subseteq Unpaid /\ gone' = gone \cup {r}
    BY <1>4 DEF Disconnect, Upset, historyVars
  <1>5. ASSUME NEW p \in Pod, PodCrash(p)
        PROVE  Unpaid' \subseteq Unpaid /\ gone' = gone /\ upsets' >= upsets
    BY <1>0, <1>5 DEF PodCrash, Upset, historyVars
  <1>6. ASSUME NEW r \in Request,
               \/ Admit(r) \/ Reject(r) \/ FailOpen(r) \/ LookupHit(r) \/ LookupMiss(r)
               \/ Join(r) \/ Lead(r) \/ Generate(r) \/ Receive(r) \/ CallFails(r)
               \/ Land(r) \/ Return(r)
        PROVE  Unpaid' \subseteq Unpaid /\ gone' = gone /\ upsets' >= upsets
    <2>1. gone' = gone /\ billed' = billed
      BY <1>6 DEF Admit, Reject, FailOpen, LookupHit, LookupMiss, Join, Lead, Generate, Receive,
           CallFails, Land, Return, historyVars
    <2>2. upsets' >= upsets
      BY <1>0, <1>6 DEF Admit, Reject, FailOpen, LookupHit, LookupMiss, Join, Lead, Generate, Receive,
           CallFails, Land, Return, RedisError, Upset, envVars
    <2>3. \A x \in Request : result'[x] = "ok" => result[x] = "ok"
      BY <1>6 DEF Admit, Reject, FailOpen, LookupHit, LookupMiss, Join, Lead, Generate, Receive,
           CallFails, Land, Return
    <2>4. \A x \in Request : pc'[x] = "store" => pc[x] = "store"
      BY <1>6 DEF Admit, Reject, FailOpen, LookupHit, LookupMiss, Join, Lead, Generate, Receive,
           CallFails, Land, Return
    <2> QED
      BY <2>1, <2>2, <2>3, <2>4
  <1>7. ASSUME (\E t \in Tenant : CacheExpires(t)) \/ NextMonth \/ UNCHANGED vars
        PROVE  Unpaid' \subseteq Unpaid /\ gone' = gone /\ upsets' >= upsets
    <2>1. UNCHANGED <<gone, billed, result, pc>>
      BY <1>7 DEF CacheExpires, NextMonth, vars, goVars, historyVars
    <2>2. upsets' >= upsets
      BY <1>0, <1>7 DEF CacheExpires, NextMonth, vars, envVars, Upset
    <2> QED
      BY <2>1, <2>2
  <1> QED
    BY <1>1, <1>2, <1>3, <1>4, <1>5, <1>6, <1>7 DEF Next, Ask, Done

LEMMA OwedStep == TypeOK /\ CallInv /\ OwedToRedis /\ [Next]_vars => OwedToRedis'
  <1> SUFFICES ASSUME TypeOK, CallInv, OwedToRedis, [Next]_vars PROVE OwedToRedis'
    OBVIOUS
  <1> USE DEF OwedToRedis
  <1>0. upsets \in Nat /\ Cardinality(gone) \in Nat /\ Cardinality(Unpaid) \in Nat
    BY FS_CardinalityType DEF TypeOK
  <1>1. ASSUME NEW S, Unpaid' \subseteq S, IsFiniteSet(S)
        PROVE  /\ IsFiniteSet(Unpaid') /\ Cardinality(Unpaid') \in Nat
               /\ Cardinality(Unpaid') <= Cardinality(S)
    BY <1>1, FS_Subset, FS_CardinalityType
  <1>2. ASSUME NEW S, IsFiniteSet(S), NEW r
        PROVE  IsFiniteSet(S \cup {r}) /\ Cardinality(S \cup {r}) \in {Cardinality(S), Cardinality(S) + 1}
    BY <1>2, FS_AddElement
  <1>3. CASE Unpaid' \subseteq Unpaid /\ gone' = gone /\ upsets' >= upsets
    BY <1>0, <1>1, <1>3, TypeStep DEF TypeOK
  <1>4. ASSUME NEW r \in Request, upsets' = upsets + 1, Unpaid' \subseteq Unpaid \cup {r}, gone' = gone
        PROVE  OwedToRedis'
    <2>1. /\ IsFiniteSet(Unpaid \cup {r})
          /\ Cardinality(Unpaid \cup {r}) \in {Cardinality(Unpaid), Cardinality(Unpaid) + 1}
      BY <1>2
    <2> QED
      BY <1>0, <1>1, <1>4, <2>1
  <1>5. ASSUME NEW r \in Request, upsets' = upsets + 1, Unpaid' \subseteq Unpaid, gone' = gone \cup {r}
        PROVE  OwedToRedis'
    <2>1. /\ IsFiniteSet(gone \cup {r})
          /\ Cardinality(gone \cup {r}) \in {Cardinality(gone), Cardinality(gone) + 1}
      BY <1>2
    <2> QED
      BY <1>0, <1>1, <1>5, <2>1
  <1> QED
    BY <1>3, <1>4, <1>5, UnpaidChanges

\* Of the answers that are given out or kept, each one missing from the bill is
\* owed to a failed write of Redis of its own: however many clients leave while
\* their answers are generated, recorded and stored, none escapes its bill so.
THEOREM UnbilledAreRedisErrors == Spec => []UnbilledOnlyByRedis
  <1>1. Init => OwedToRedis
    <2>1. ASSUME Init PROVE gone = {} /\ Unpaid = {} /\ upsets = 0
      BY <2>1 DEF Init, Unpaid
    <2> QED
      BY <2>1, FS_EmptySet DEF OwedToRedis
  <1>2. TypeOK /\ OwedToRedis => UnbilledOnlyByRedis
    <2> SUFFICES ASSUME TypeOK, OwedToRedis PROVE UnbilledOnlyByRedis
      OBVIOUS
    <2> DEFINE S == {r \in Succeeded : billed[r] = 0}
    <2>1. S \subseteq Unpaid
      BY DEF Succeeded, Unpaid
    <2> HIDE DEF S
    <2>2. Cardinality(S) \in Nat /\ Cardinality(S) <= Cardinality(Unpaid)
      BY <2>1, FS_Subset, FS_CardinalityType DEF OwedToRedis
    <2>3. Cardinality(Unpaid) \in Nat /\ Cardinality(gone) \in Nat /\ upsets \in Nat
      BY FS_CardinalityType DEF OwedToRedis, TypeOK
    <2> QED
      BY <2>2, <2>3 DEF OwedToRedis, UnbilledOnlyByRedis, S
  <1> QED
    BY <1>1, <1>2, TypeCorrect, CallCorrect, OwedStep, PTL DEF Spec

-----------------------------------------------------------------------------
LEMMA MatchStep ==
  TypeOK /\ CallInv /\ AnswerMatchesQuestion /\ [Next]_vars => AnswerMatchesQuestion'
  <1> SUFFICES ASSUME TypeOK, CallInv, AnswerMatchesQuestion, [Next]_vars
               PROVE  AnswerMatchesQuestion'
    OBVIOUS
  <1>0. req' = req
    BY ReqFixed
  <1> USE DEF TypeOK, Q, Key
  <1>1. ASSUME NEW r \in Request, LookupHit(r) PROVE AnswerMatchesQuestion'
    <2>1. PICK i \in DOMAIN cache[T(r)] :
             IsBest(r, i) /\ source' = [source EXCEPT ![r] = cache[T(r)][i]]
      BY <1>1 DEF LookupHit
    <2>2. hits' = hits \cup {r}
      BY <1>1 DEF LookupHit
    <2>3. Score[Q(r), Q(cache[T(r)][i])] >= Threshold
      BY <2>1 DEF IsBest, ScoreOf
    <2> QED
      BY <1>0, <2>1, <2>2, <2>3 DEF AnswerMatchesQuestion
  <1>2. ASSUME NEW r \in Request, Join(r) PROVE AnswerMatchesQuestion'
    <2>1. PICK l \in flights : Key(l) = Key(r) /\ source' = [source EXCEPT ![r] = l]
      BY <1>2 DEF Join
    <2>2. hits' = hits /\ r \notin hits
      BY <1>2 DEF Join, CallInv
    <2> QED
      BY <1>0, <2>1, <2>2 DEF AnswerMatchesQuestion
  <1>3. ASSUME NEW r \in Request, Lead(r) PROVE AnswerMatchesQuestion'
    <2>1. hits' = hits /\ r \notin hits /\ source' = [source EXCEPT ![r] = r]
      BY <1>3 DEF Lead, CallInv
    <2> QED
      BY <1>0, <2>1 DEF AnswerMatchesQuestion
  <1>4. CASE ~ \E r \in Request : LookupHit(r) \/ Join(r) \/ Lead(r)
    <2>1. UNCHANGED <<source, hits>>
      BY <1>4 DEF Next, vars, Ask, Done, Admit, Reject, FailOpen, LookupMiss, Generate, Receive,
           CallFails, Record, RecordFails, StoreAnswer, Land, Return, Disconnect, PodCrash,
           CacheExpires, NextMonth, goVars
    <2> QED
      BY <1>0, <2>1 DEF AnswerMatchesQuestion
  <1> QED
    BY <1>1, <1>2, <1>3, <1>4

\* A shared answer is to the same prompt on the same pod, a cached one to a
\* question at least as similar as the threshold asks, for any embedding.
THEOREM AnswersMatch == Spec => []AnswerMatchesQuestion
  <1>1. Init => AnswerMatchesQuestion
    BY SetsAssumption DEF Init, AnswerMatchesQuestion
  <1> QED
    BY <1>1, TypeCorrect, CallCorrect, MatchStep, PTL DEF Spec

-----------------------------------------------------------------------------
\* What is pushed is new, so a list without duplicates stays without.
LEMMA PushDistinct ==
  ASSUME NEW S, NEW e \in S, NEW s \in Seq(S),
         \A i \in DOMAIN s : s[i] # e,
         \A i, j \in DOMAIN s : s[i] = s[j] => i = j,
         NEW i \in DOMAIN Trim(<<e>> \o s), NEW j \in DOMAIN Trim(<<e>> \o s),
         Trim(<<e>> \o s)[i] = Trim(<<e>> \o s)[j]
  PROVE  i = j
  <1>1. Trim(<<e>> \o s) \in Seq(S)
    BY PushTrim
  <1>2. i \in Nat /\ j \in Nat
    BY <1>1
  <1>3. \A k \in DOMAIN Trim(<<e>> \o s) :
           \/ k = 1 /\ Trim(<<e>> \o s)[k] = e
           \/ k - 1 \in DOMAIN s /\ Trim(<<e>> \o s)[k] = s[k - 1]
    BY PushTrim
  <1> QED
    BY <1>2, <1>3

LEMMA TrimCapped ==
  ASSUME NEW S, NEW s \in Seq(S), CacheCap > 0
  PROVE  Len(Trim(s)) <= CacheCap
  BY NumbersAssumption DEF Trim

LEMMA BoundedStep == TypeOK /\ CallInv /\ Stored /\ CacheBounded /\ [Next]_vars => CacheBounded'
  <1> SUFFICES ASSUME TypeOK, CallInv, Stored, CacheBounded, [Next]_vars PROVE CacheBounded'
    OBVIOUS
  <1>1. CASE cache' = cache
    BY <1>1 DEF CacheBounded
  <1>2. ASSUME NEW r \in Request, StoreAnswer(r),
               cache' = [cache EXCEPT ![T(r)] = Trim(<<r>> \o @)]
        PROVE  CacheBounded'
    <2> DEFINE s == cache[T(r)]
               l == Trim(<<r>> \o s)
    <2>1. T(r) \in Tenant /\ s \in Seq(Request)
      BY SetsAssumption DEF TypeOK, T
    <2>2. \A i \in DOMAIN s : s[i] # r
      BY <1>2, <2>1 DEF Stored, CallInv, StoreAnswer
    <2>3. \A i, j \in DOMAIN s : s[i] = s[j] => i = j
      BY <2>1 DEF CacheBounded
    <2>4. \A i, j \in DOMAIN l : l[i] = l[j] => i = j
      BY <2>1, <2>2, <2>3, PushDistinct
    <2>5. CacheCap > 0 => Len(l) <= CacheCap
      <3>1. <<r>> \o s \in Seq(Request)
        BY <2>1
      <3> QED
        BY <3>1, TrimCapped
    <2>6. \A t \in Tenant : cache'[t] = IF t = T(r) THEN l ELSE cache[t]
      BY <1>2, <2>1 DEF TypeOK
    <2> HIDE DEF l
    <2> QED
      BY <2>4, <2>5, <2>6 DEF CacheBounded
  <1>3. ASSUME NEW u \in Tenant, CacheExpires(u) PROVE CacheBounded'
    <2>1. \A t \in Tenant : cache'[t] = IF t = u THEN << >> ELSE cache[t]
      BY <1>3 DEF CacheExpires, TypeOK
    <2>2. DOMAIN << >> = {} /\ Len(<< >>) = 0
      OBVIOUS
    <2> QED
      BY <2>1, <2>2, NumbersAssumption DEF CacheBounded
  <1> QED
    BY <1>1, <1>2, <1>3, CacheChanges DEF StoreAnswer

\* A tenant's list never outgrows its cap and never holds an answer twice,
\* however its stores interleave.
THEOREM CacheStaysBounded == Spec => []CacheBounded
  <1>1. Init => Stored /\ CacheBounded
    BY NumbersAssumption DEF Init, Stored, CacheBounded
  <1> QED
    BY <1>1, TypeCorrect, CallCorrect, StoredStep, BoundedStep, PTL DEF Spec

-----------------------------------------------------------------------------
\* Normalising keeps the words and their order.
LEMMA NormaliseKeepsWords ==
  ASSUME NEW s \in Texts, NEW t \in Texts, normalise(s) = normalise(t)
  PROVE  [i \in DOMAIN s |-> s[i].word] = [i \in DOMAIN t |-> t[i].word]
  <1>1. DOMAIN normalise(s) = DOMAIN s /\ DOMAIN normalise(t) = DOMAIN t
    BY DEF normalise
  <1>2. \A i \in DOMAIN s : normalise(s)[i].word = s[i].word
    BY DEF normalise
  <1>3. \A i \in DOMAIN t : normalise(t)[i].word = t[i].word
    BY DEF normalise
  <1> QED
    BY <1>1, <1>2, <1>3

\* Two spellings that differ in white space and case have the same vector,
\* whatever words are dropped and however the buckets are chosen.
THEOREM SpellingsEmbedAlike ==
  ASSUME NEW s \in Texts, NEW t \in Texts, normalise(s) = normalise(t)
  PROVE  Embed(s) = Embed(t)
  <1>1. tokenise(s) = tokenise(t)
    BY NormaliseKeepsWords DEF tokenise
  <1> QED
    BY <1>1 DEF Embed

\* So the coalescer never merges what the cache would keep apart: the tables
\* Norm and Score that Gateway is given satisfy EmbeddingAssumption.
THEOREM ScoresRespectSpelling ==
  \A p, q, x \in Question : Norm[p] = Norm[q] => Score[x, p] = Score[x, q]
  <1> SUFFICES ASSUME NEW p \in Question, NEW q \in Question, NEW x \in Question, Norm[p] = Norm[q]
               PROVE  Score[x, p] = Score[x, q]
    OBVIOUS
  <1>1. Text[p] \in Texts /\ Text[q] \in Texts /\ normalise(Text[p]) = normalise(Text[q])
    BY TextAssumption
  <1>2. Embed(Text[p]) = Embed(Text[q])
    BY <1>1, SpellingsEmbedAlike
  <1>3. \A y \in Question : Score[x, y] = Cosine(Embed(Text[x]), Embed(Text[y]))
    BY TextAssumption
  <1> QED
    BY <1>2, <1>3

-----------------------------------------------------------------------------
\* kept gives the words kept of each prefix of w.
Keeps(w, kept) ==
  kept = [n \in 0..Len(w) |->
            IF n = 0 THEN << >>
            ELSE IF Kept(w[n]) THEN Append(kept[n - 1], w[n]) ELSE kept[n - 1]]

LEMMA KeepsExists ==
  ASSUME NEW w \in Seq(Word)
  PROVE  \E kept : Keeps(w, kept)
  <1> DEFINE Grown(s, n) == IF Kept(w[n]) THEN Append(s, w[n]) ELSE s
             Value(g, n) == IF n = 0 THEN << >> ELSE Grown(g[n - 1], n)
             UpTo(k) == \E g : /\ g = [n \in 0..Len(w) |-> g[n]]
                               /\ \A n \in 0..Len(w) : n <= k => g[n] = Value(g, n)
             Bad == {k \in Nat : ~UpTo(k)}
  <1>0. Len(w) \in Nat
    OBVIOUS
  <1> HIDE DEF Grown
  <1>1. UpTo(0)
    <2> DEFINE g == [n \in 0..Len(w) |-> << >>]
    <2>1. g = [n \in 0..Len(w) |-> g[n]]
      OBVIOUS
    <2>2. \A n \in 0..Len(w) : n <= 0 => g[n] = Value(g, n)
      BY <1>0
    <2> HIDE DEF g, Value
    <2> QED
      BY <2>1, <2>2
  <1>2. ASSUME NEW k \in Nat, UpTo(k) PROVE UpTo(k + 1)
    <2>1. PICK g : \A n \in 0..Len(w) : n <= k => g[n] = Value(g, n)
      BY <1>2
    <2> DEFINE h == [n \in 0..Len(w) |-> Value(g, n)]
    <2>2. h = [n \in 0..Len(w) |-> h[n]]
      OBVIOUS
    <2>3. ASSUME NEW n \in 0..Len(w), n <= k + 1 PROVE h[n] = Value(h, n)
      <3>1. CASE n = 0
        BY <3>1
      <3>2. CASE n # 0
        <4>1. n - 1 \in 0..Len(w) /\ n - 1 <= k
          BY <1>0, <2>3, <3>2
        <4>2. h[n - 1] = g[n - 1]
          BY <2>1, <4>1
        <4> QED
          BY <3>2, <4>2
      <3> QED
        BY <3>1, <3>2
    <2> HIDE DEF h, Value
    <2> QED
      BY <2>2, <2>3
  <1> HIDE DEF UpTo
  <1>3. ASSUME NEW k \in Bad PROVE \E i \in Bad : i < k
    <2>1. k # 0 /\ k \in Nat
      BY <1>1, <1>3
    <2>2. k - 1 \in Nat /\ (k - 1) + 1 = k
      BY <2>1
    <2>3. k - 1 \in Bad
      BY <1>2, <1>3, <2>2
    <2> QED
      BY <2>1, <2>3
  <1>4. UpTo(Len(w))
    <2>1. Bad \in SUBSET Nat
      OBVIOUS
    <2>2. Bad = {}
      <3> HIDE DEF Bad
      <3> QED
        BY <1>3, <2>1, LeastNumber
    <2> QED
      BY <1>0, <2>2
  <1>5. PICK g : g = [n \in 0..Len(w) |-> g[n]] /\ \A n \in 0..Len(w) : g[n] = Value(g, n)
    BY <1>0, <1>4 DEF UpTo
  <1>6. Keeps(w, g)
    BY <1>5 DEF Keeps, Grown
  <1> QED
    BY <1>6

\* Of the words of a text exactly those that count are kept.
LEMMA WordsKept ==
  ASSUME NEW w \in Seq(Word)
  PROVE  /\ OnlyKept(w) \in Seq(Word)
         /\ \A x : (\E j \in DOMAIN OnlyKept(w) : OnlyKept(w)[j] = x)
                     <=> Kept(x) /\ \E i \in DOMAIN w : w[i] = x
  <1> DEFINE g == CHOOSE kept : Keeps(w, kept)
             Right(n) == /\ g[n] \in Seq(Word)
                         /\ \A x : (\E j \in DOMAIN g[n] : g[n][j] = x)
                                     <=> Kept(x) /\ \E i \in 1..n : w[i] = x
             Bad == {n \in 0..Len(w) : ~Right(n)}
  <1>0. Len(w) \in Nat /\ DOMAIN w = 1..Len(w)
    OBVIOUS
  <1>1. Keeps(w, g)
    BY KeepsExists
  <1>2. OnlyKept(w) = g[Len(w)]
    BY DEF OnlyKept, Keeps
  <1> HIDE DEF g
  <1>3. /\ g[0] = << >>
        /\ \A n \in 1..Len(w) : g[n] = IF Kept(w[n]) THEN Append(g[n - 1], w[n]) ELSE g[n - 1]
    <2>1. 0 \in 0..Len(w) /\ \A n \in 1..Len(w) : n \in 0..Len(w) /\ n # 0
      BY <1>0
    <2> HIDE DEF Kept
    <2> QED
      BY <1>1, <2>1 DEF Keeps
  <1>4. Right(0)
    BY <1>3
  <1>5. ASSUME NEW n \in 1..Len(w), Right(n - 1) PROVE Right(n)
    <2>1. w[n] \in Word /\ n - 1 \in Nat /\ 1..n = 1..(n - 1) \cup {n}
      BY <1>0
    <2>2. CASE ~Kept(w[n])
      <3>1. g[n] = g[n - 1]
        BY <1>3, <2>2
      <3> QED
        BY <1>5, <2>1, <2>2, <3>1
    <2>3. CASE Kept(w[n])
      <3> DEFINE s == g[n - 1]
      <3>1. g[n] = Append(s, w[n])
        BY <1>3, <2>3
      <3>2. s \in Seq(Word) /\ \A x : (\E j \in DOMAIN s : s[j] = x) <=> Kept(x) /\ \E i \in 1..(n - 1) : w[i] = x
        BY <1>5
      <3> HIDE DEF s
      <3>3. /\ Append(s, w[n]) \in Seq(Word)
            /\ \A x : (\E j \in DOMAIN Append(s, w[n]) : Append(s, w[n])[j] = x)
                        <=> x = w[n] \/ \E j \in DOMAIN s : s[j] = x
        <4>1. /\ Append(s, w[n]) \in Seq(Word) /\ Len(s) \in Nat /\ DOMAIN s = 1..Len(s)
              /\ DOMAIN Append(s, w[n]) = 1..(Len(s) + 1)
              /\ \A j \in 1..Len(s) : Append(s, w[n])[j] = s[j]
              /\ Append(s, w[n])[Len(s) + 1] = w[n]
          BY <2>1, <3>2
        <4> DEFINE a == Append(s, w[n])
        <4>2. \A j \in DOMAIN a : j = Len(s) + 1 \/ j \in DOMAIN s
          BY <4>1
        <4>3. Len(s) + 1 \in DOMAIN a /\ DOMAIN s \subseteq DOMAIN a
          BY <4>1
        <4> HIDE DEF a
        <4> QED
          BY <4>1, <4>2, <4>3 DEF a
      <3> QED
        BY <2>1, <2>3, <3>1, <3>2, <3>3
    <2> QED
      BY <2>2, <2>3
  <1> HIDE DEF Right
  <1>6. ASSUME NEW n \in Bad PROVE \E i \in Bad : i < n
    <2>1. n # 0 /\ n \in 0..Len(w) /\ ~Right(n)
      BY <1>4
    <2>2. n \in 1..Len(w) /\ n - 1 \in 0..Len(w) /\ n - 1 < n
      BY <1>0, <2>1
    <2> QED
      BY <1>5, <2>1, <2>2
  <1>7. Bad = {}
    <2>1. Bad \in SUBSET Nat
      BY <1>0
    <2> HIDE DEF Bad
    <2> QED
      BY <1>6, <2>1, LeastNumber
  <1>8. Right(Len(w))
    BY <1>0, <1>7
  <1> QED
    BY <1>0, <1>2, <1>8 DEF Right

\* A number is kept: it has more than one byte or is a digit.
LEMMA TokensOfText ==
  ASSUME NEW t \in Texts
  PROVE  /\ tokenise(t) \in Seq(Word)
         /\ Numbers(t) = {tokenise(t)[j] : j \in DOMAIN tokenise(t)} \cap Number
  <1> DEFINE w == [i \in DOMAIN t |-> t[i].word]
  <1>1. w \in Seq(Word) /\ DOMAIN w = DOMAIN t
    <2> DEFINE Words == [word : Word, shout : BOOLEAN, mark : Mark, space : Nat]
    <2>1. t \in Seq(Words)
      BY DEF Texts
    <2> HIDE DEF Words
    <2>2. DOMAIN t = 1..Len(t) /\ Len(t) \in Nat /\ \A i \in DOMAIN t : t[i] \in Words
      BY <2>1
    <2>3. \A x \in Words : x.word \in Word
      BY DEF Words
    <2>4. DOMAIN t = 1..Len(t) /\ Len(t) \in Nat /\ \A i \in DOMAIN t : t[i].word \in Word
      BY <2>2, <2>3
    <2> QED
      BY <2>4
  <1>2. Numbers(t) = {w[i] : i \in DOMAIN w} \cap Number
    BY DEF Numbers
  <1>3. tokenise(t) = OnlyKept(w)
    BY DEF tokenise
  <1> HIDE DEF w
  <1>4. \A x \in Number : Kept(x)
    BY DEF Kept
  <1> QED
    BY <1>1, <1>2, <1>3, <1>4, WordsKept

-----------------------------------------------------------------------------
Buckets(k) == {Bucket(f) : f \in Features(k)}

\* In a plain text that collides nowhere every word and every pair of neighbours
\* counts once, in a place of its own.
LEMMA EachFeatureOnce ==
  ASSUME NEW t, NEW k \in Seq(Word), k = tokenise(t), Plain(k), ~Collide(Features(k))
  PROVE  DOMAIN Embed(t) = Buckets(k) /\ \A b \in Buckets(k) : Embed(t)[b] = 1
  <1> DEFINE words == [i \in 1..Len(k) |-> Bucket(<<k[i]>>)]
             pairs == [i \in 1..(Len(k) - 1) |-> Bucket(<<k[i], k[i + 1]>>)]
             Hits(b) == Cardinality({i \in DOMAIN words : words[i] = b})
                          + Cardinality({i \in DOMAIN pairs : pairs[i] = b})
             Domain == {words[i] : i \in DOMAIN words} \cup {pairs[i] : i \in DOMAIN pairs}
  <1>0. DOMAIN k = 1..Len(k) /\ Len(k) \in Nat
    OBVIOUS
  <1>1. Embed(t) = [b \in Domain |-> Hits(b)]
    BY DEF Embed
  <1>2. /\ \A i \in 1..Len(k) : <<k[i]>> \in Features(k)
        /\ \A i \in 1..(Len(k) - 1) : <<k[i], k[i + 1]>> \in Features(k)
    BY <1>0 DEF Features
  <1>3. Domain = Buckets(k)
    <2>1. \A f : f \in Features(k) <=> \/ \E i \in 1..Len(k) : f = <<k[i]>>
                                      \/ \E i \in 1..(Len(k) - 1) : f = <<k[i], k[i + 1]>>
      BY <1>0 DEF Features
    <2>2. \A b : b \in Domain <=> \/ \E i \in 1..Len(k) : b = Bucket(<<k[i]>>)
                                 \/ \E i \in 1..(Len(k) - 1) : b = Bucket(<<k[i], k[i + 1]>>)
      OBVIOUS
    <2>3. \A b : b \in Buckets(k) <=> \E f \in Features(k) : b = Bucket(f)
      BY DEF Buckets
    <2> HIDE DEF Domain
    <2>4. ASSUME NEW b \in Domain PROVE b \in Buckets(k)
      <3>1. CASE \E i \in 1..Len(k) : b = Bucket(<<k[i]>>)
        <4>1. PICK i \in 1..Len(k) : b = Bucket(<<k[i]>>)
          BY <3>1
        <4> QED
          BY <1>2, <2>3, <4>1
      <3>2. CASE \E i \in 1..(Len(k) - 1) : b = Bucket(<<k[i], k[i + 1]>>)
        <4>1. PICK i \in 1..(Len(k) - 1) : b = Bucket(<<k[i], k[i + 1]>>)
          BY <3>2
        <4> QED
          BY <1>2, <2>3, <4>1
      <3> QED
        BY <2>2, <3>1, <3>2
    <2>5. ASSUME NEW b \in Buckets(k) PROVE b \in Domain
      <3>1. PICK f \in Features(k) : b = Bucket(f)
        BY <2>3
      <3> QED
        BY <2>1, <2>2, <3>1
    <2> QED
      BY <2>4, <2>5
  <1>4. \A f, g \in Features(k) : Bucket(f) = Bucket(g) => f = g
    BY DEF Collide
  <1>5. \A i, j \in DOMAIN words : words[i] = words[j] => i = j
    <2> SUFFICES ASSUME NEW i \in 1..Len(k), NEW j \in 1..Len(k), Bucket(<<k[i]>>) = Bucket(<<k[j]>>)
                 PROVE  i = j
      OBVIOUS
    <2>1. <<k[i]>> = <<k[j]>>
      BY <1>2, <1>4
    <2> QED
      BY <1>0, <2>1 DEF Plain
  <1>6. \A i, j \in DOMAIN pairs : pairs[i] = pairs[j] => i = j
    <2> SUFFICES ASSUME NEW i \in 1..(Len(k) - 1), NEW j \in 1..(Len(k) - 1),
                        Bucket(<<k[i], k[i + 1]>>) = Bucket(<<k[j], k[j + 1]>>)
                 PROVE  i = j
      OBVIOUS
    <2>1. <<k[i], k[i + 1]>> = <<k[j], k[j + 1]>>
      BY <1>2, <1>4
    <2>2. k[i] = k[j] /\ i \in DOMAIN k /\ j \in DOMAIN k
      BY <1>0, <2>1
    <2> QED
      BY <2>2 DEF Plain
  <1>7. \A i \in DOMAIN words, j \in DOMAIN pairs : words[i] # pairs[j]
    <2> SUFFICES ASSUME NEW i \in 1..Len(k), NEW j \in 1..(Len(k) - 1),
                        Bucket(<<k[i]>>) = Bucket(<<k[j], k[j + 1]>>)
                 PROVE  FALSE
      OBVIOUS
    <2>1. <<k[i]>> = <<k[j], k[j + 1]>>
      BY <1>2, <1>4
    <2>2. Len(<<k[i]>>) = 1 /\ Len(<<k[j], k[j + 1]>>) = 2
      OBVIOUS
    <2> QED
      BY <2>1, <2>2
  <1> HIDE DEF words, pairs
  <1>8. ASSUME NEW b \in Domain PROVE Hits(b) = 1
    <2>1. ASSUME NEW i \in DOMAIN words, b = words[i] PROVE Hits(b) = 1
      <3> DEFINE W == {x \in DOMAIN words : words[x] = b}
                 P == {x \in DOMAIN pairs : pairs[x] = b}
      <3>1. W = {i} /\ P = {}
        BY <1>5, <1>7, <2>1
      <3>2. Hits(b) = Cardinality(W) + Cardinality(P)
        OBVIOUS
      <3>3. Cardinality({i}) = 1 /\ Cardinality({}) = 0
        BY FS_Singleton, FS_EmptySet
      <3> HIDE DEF W, P, Hits
      <3> QED
        BY <3>1, <3>2, <3>3
    <2>2. ASSUME NEW i \in DOMAIN pairs, b = pairs[i] PROVE Hits(b) = 1
      <3> DEFINE W == {x \in DOMAIN words : words[x] = b}
                 P == {x \in DOMAIN pairs : pairs[x] = b}
      <3>1. W = {} /\ P = {i}
        BY <1>6, <1>7, <2>2
      <3>2. Hits(b) = Cardinality(W) + Cardinality(P)
        OBVIOUS
      <3>3. Cardinality({i}) = 1 /\ Cardinality({}) = 0
        BY FS_Singleton, FS_EmptySet
      <3> HIDE DEF W, P, Hits
      <3> QED
        BY <3>1, <3>2, <3>3
    <2> QED
      BY <2>1, <2>2
  <1> HIDE DEF Hits, Domain
  <1> QED
    BY <1>1, <1>3, <1>8

\* At most ten words and nine pairs.
LEMMA FewFeatures ==
  ASSUME NEW k \in Seq(Word), Plain(k)
  PROVE  IsFiniteSet(Buckets(k)) /\ Cardinality(Buckets(k)) <= 19
  <1> DEFINE n == Len(k)
             W == {Bucket(<<k[i]>>) : i \in 1..n}
             P == {Bucket(<<k[i], k[i + 1]>>) : i \in 1..(n - 1)}
             w == [i \in 1..n |-> Bucket(<<k[i]>>)]
             p == [i \in 1..(n - 1) |-> Bucket(<<k[i], k[i + 1]>>)]
  <1>0. DOMAIN k = 1..n /\ n \in Nat /\ n <= 10
    BY DEF Plain
  <1>1. Buckets(k) = W \cup P
    BY <1>0 DEF Buckets, Features
  <1>2. w \in Surjection(1..n, W) /\ p \in Surjection(1..(n - 1), P)
    BY DEF Surjection
  <1>3. /\ IsFiniteSet(1..n) /\ Cardinality(1..n) <= 10
        /\ IsFiniteSet(1..(n - 1)) /\ Cardinality(1..(n - 1)) <= 9
    <2>1. n \in Int /\ n - 1 \in Int
      BY <1>0
    <2> HIDE DEF n
    <2>2. /\ IsFiniteSet(1..n) /\ Cardinality(1..n) = IF 1 > n THEN 0 ELSE n - 1 + 1
          /\ IsFiniteSet(1..(n - 1)) /\ Cardinality(1..(n - 1)) = IF 1 > n - 1 THEN 0 ELSE (n - 1) - 1 + 1
      BY <2>1, FS_Interval
    <2> QED
      BY <1>0, <2>2
  <1> HIDE DEF W, P, w, p, n
  <1>4. /\ IsFiniteSet(W) /\ Cardinality(W) <= Cardinality(1..n)
        /\ IsFiniteSet(P) /\ Cardinality(P) <= Cardinality(1..(n - 1))
    BY <1>2, <1>3, FS_Surjection
  <1>5. /\ IsFiniteSet(W \cup P) /\ IsFiniteSet(W \cap P)
        /\ Cardinality(W \cup P) = Cardinality(W) + Cardinality(P) - Cardinality(W \cap P)
    BY <1>4, FS_Union, FS_Subset
  <1>6. /\ Cardinality(W) \in Nat /\ Cardinality(P) \in Nat /\ Cardinality(W \cap P) \in Nat
        /\ Cardinality(1..n) \in Nat /\ Cardinality(1..(n - 1)) \in Nat
    BY <1>3, <1>4, <1>5, FS_CardinalityType
  <1> QED
    BY <1>1, <1>3, <1>4, <1>5, <1>6

\* A word of p that q does not have is two features not shared: the word, and a
\* pair it is in; unless p has no other word, and then nothing is shared.
LEMMA UnsharedWord ==
  ASSUME NEW p \in Seq(Word), NEW q \in Seq(Word), Plain(p),
         ~Collide(Features(p) \cup Features(q)),
         NEW i \in DOMAIN p, \A m \in DOMAIN q : q[m] # p[i]
  PROVE  \/ Buckets(p) \cap Buckets(q) = {}
         \/ Cardinality(Buckets(p) \cap Buckets(q)) + 2 <= Cardinality(Buckets(p))
  <1> DEFINE word == <<p[i]>>
             j == IF i = 1 THEN 1 ELSE i - 1
             pair == <<p[j], p[j + 1]>>
             A == Buckets(p)
             B == Buckets(q)
  <1>0. /\ DOMAIN p = 1..Len(p) /\ Len(p) \in Nat /\ i \in 1..Len(p)
        /\ DOMAIN q = 1..Len(q) /\ Len(q) \in Nat
    OBVIOUS
  <1>1. \A f, g \in Features(p) \cup Features(q) : Bucket(f) = Bucket(g) => f = g
    BY DEF Collide
  <1>2. word \in Features(p) /\ Bucket(word) \in A
    BY DEF Features, Buckets
  <1>3. word \notin Features(q)
    <2>1. \A m \in DOMAIN q : word # <<q[m]>>
      OBVIOUS
    <2>2. \A m \in 1..(Len(q) - 1) : word # <<q[m], q[m + 1]>>
      <3>1. \A x, y, z : <<x>> # <<y, z>>
        <4>1. \A x, y, z : Len(<<x>>) = 1 /\ Len(<<y, z>>) = 2
          OBVIOUS
        <4> QED
          BY <4>1
      <3> QED
        BY <3>1
    <2> HIDE DEF word
    <2> QED
      BY <2>1, <2>2 DEF Features
  <1>4. Bucket(word) \notin B
    <2> HIDE DEF word
    <2> QED
      BY <1>1, <1>2, <1>3 DEF Buckets
  <1>5. IsFiniteSet(A) /\ Cardinality(A) \in Nat
    BY FewFeatures, FS_CardinalityType
  <1>6. CASE Len(p) = 1
    <2>1. Features(p) = {word}
      <3>1. i = 1 /\ 1..(Len(p) - 1) = {} /\ DOMAIN p = {1}
        BY <1>0, <1>6
      <3> QED
        BY <3>1 DEF Features
    <2>2. A = {Bucket(word)}
      BY <2>1 DEF Buckets
    <2> HIDE DEF A, B, word
    <2> QED
      BY <1>4, <2>2 DEF A, B
  <1>7. CASE Len(p) # 1
    <2>1. j \in 1..(Len(p) - 1) /\ (i = j \/ i = j + 1) /\ j \in DOMAIN p /\ j + 1 \in DOMAIN p
      BY <1>0, <1>7
    <2> HIDE DEF j
    <2>2. pair \in Features(p) /\ Bucket(pair) \in A
      BY <2>1 DEF Features, Buckets
    <2>3. word # pair
      <3>1. Len(word) = 1 /\ Len(pair) = 2
        OBVIOUS
      <3> QED
        BY <3>1
    <2>4. pair \notin Features(q)
      <3>1. ASSUME NEW m \in 1..(Len(q) - 1) PROVE pair # <<q[m], q[m + 1]>>
        <4>1. m \in DOMAIN q /\ m + 1 \in DOMAIN q
          BY <1>0
        <4> QED
          BY <2>1, <4>1
      <3>2. ASSUME NEW m \in DOMAIN q PROVE pair # <<q[m]>>
        <4>1. Len(<<q[m]>>) = 1 /\ Len(pair) = 2
          OBVIOUS
        <4> QED
          BY <4>1
      <3> HIDE DEF pair
      <3> QED
        BY <3>1, <3>2 DEF Features
    <2> HIDE DEF word, pair
    <2>5. Bucket(pair) \notin B /\ Bucket(pair) # Bucket(word)
      BY <1>1, <1>2, <2>2, <2>3, <2>4 DEF Buckets
    <2> DEFINE R == (A \ {Bucket(word)}) \ {Bucket(pair)}
    <2>6. A \cap B \subseteq R
      BY <1>4, <2>5
    <2> HIDE DEF A, B
    <2>7. IsFiniteSet(R) /\ Cardinality(R) = Cardinality(A) - 2
      <3>1. IsFiniteSet(A \ {Bucket(word)}) /\ Cardinality(A \ {Bucket(word)}) = Cardinality(A) - 1
        BY <1>2, <1>5, FS_RemoveElement
      <3>2. Bucket(pair) \in A \ {Bucket(word)}
        BY <2>2, <2>5
      <3>3. IsFiniteSet(R) /\ Cardinality(R) = Cardinality(A \ {Bucket(word)}) - 1
        BY <3>1, <3>2, FS_RemoveElement
      <3> QED
        BY <1>5, <3>1, <3>3
    <2>8. Cardinality(A \cap B) <= Cardinality(R) /\ Cardinality(A \cap B) \in Nat /\ Cardinality(R) \in Nat
      BY <2>6, <2>7, FS_Subset, FS_CardinalityType
    <2> QED
      BY <1>5, <2>7, <2>8 DEF A, B
  <1> QED
    BY <1>6, <1>7

\* Seventeen shared features of nineteen are less than nine in ten.
LEMMA NineInTen ==
  ASSUME NEW a \in 0..19, NEW b \in 0..19, NEW s \in Nat, NEW n \in Nat,
         n >= 90, a > 0, b > 0, s = 0 \/ (s + 2 <= a /\ s + 2 <= b)
  PROVE  n * n * a * b > 10000 * s * s
  <1>1. n * n >= 8100
    OBVIOUS
  <1>2. a * b >= 1 /\ a * b \in Nat
    OBVIOUS
  <1>3. n * n * a * b >= 8100 * (a * b)
    OBVIOUS
  <1>4. CASE s = 0
    BY <1>2, <1>3, <1>4
  <1>5. CASE s + 2 <= a /\ s + 2 <= b
    <2>1. a * b >= (s + 2) * (s + 2) /\ s \in 0..17
      BY <1>5
    <2>2. 8100 * ((s + 2) * (s + 2)) > 10000 * s * s
      BY <2>1
    <2> QED
      BY <1>2, <1>3, <2>1, <2>2
  <1> QED
    BY <1>4, <1>5

LEMMA DotOfOnes ==
  ASSUME NEW u, NEW v, IsFiniteSet(DOMAIN u), \A b \in DOMAIN u : u[b] = 1, \A b \in DOMAIN v : v[b] = 1
  PROVE  Dot(u, v) = Cardinality(DOMAIN u \cap DOMAIN v)
  <1> DEFINE S == DOMAIN u \cap DOMAIN v
             f == [b \in S |-> u[b] * v[b]]
  <1>1. f \in [S -> Nat] /\ \A b \in S : f[b] = 1
    OBVIOUS
  <1>2. IsFiniteSet(S)
    BY FS_Subset
  <1>3. Dot(u, v) = SumFunctionOnSet(f, S)
    BY DEF Dot, SumFunction
  <1> HIDE DEF S, f
  <1>4. SumFunctionOnSet(f, S) = Cardinality(S)
    BY <1>1, <1>2, SumOfOnes
  <1> QED
    BY <1>3, <1>4 DEF S

\* Cosine is one of the numbers it is the greatest of.
LEMMA GreatestIsOne ==
  ASSUME NEW S \in SUBSET (0..100), S # {}
  PROVE  Max(S) \in S
  <1> DEFINE R == {100 - n : n \in S}
  <1>1. R \in SUBSET Nat /\ R # {}
    <2>1. \A n \in S : n \in 0..100 /\ 100 - n \in Nat
      OBVIOUS
    <2> QED
      BY <2>1
  <1> HIDE DEF R
  <1>2. PICK k \in R : \A i \in R : k <= i
    BY <1>1, LeastNumber
  <1>3. PICK m \in S : k = 100 - m
    BY <1>2 DEF R
  <1>4. \A n \in S : 100 - n \in R /\ n \in 0..100
    BY DEF R
  <1>5. \A n \in S : m >= n
    BY <1>2, <1>3, <1>4
  <1> QED
    BY <1>5 DEF Max

\* p has a word that q has not.
HasAnother(p, q) == \E i \in DOMAIN p : \A m \in DOMAIN q : q[m] # p[i]

\* Of two short plain texts, each with a word that the other has not, the
\* vectors are less than 0.90 similar.
LEMMA UnsharedWordsCost ==
  ASSUME NEW s \in Texts, NEW t \in Texts, Plain(tokenise(s)), Plain(tokenise(t)),
         ~Collide(Features(tokenise(s)) \cup Features(tokenise(t))),
         HasAnother(tokenise(s), tokenise(t)), HasAnother(tokenise(t), tokenise(s))
  PROVE  Cosine(Embed(s), Embed(t)) < 90
  <1>p. PICK p \in Seq(Word) : p = tokenise(s)
    BY TokensOfText
  <1>q. PICK q \in Seq(Word) : q = tokenise(t)
    BY TokensOfText
  <1>w. PICK i \in DOMAIN p : \A m \in DOMAIN q : q[m] # p[i]
    BY <1>p, <1>q DEF HasAnother
  <1>x. PICK j \in DOMAIN q : \A m \in DOMAIN p : p[m] # q[j]
    BY <1>p, <1>q DEF HasAnother
  <1>0. Plain(p) /\ Plain(q) /\ ~Collide(Features(p) \cup Features(q))
    BY <1>p, <1>q
  <1> DEFINE A == Buckets(p)
             B == Buckets(q)
             u == Embed(s)
             v == Embed(t)
             a == Cardinality(A)
             b == Cardinality(B)
             c == Cardinality(A \cap B)
             Below(n) == n * n * Dot(u, u) * Dot(v, v) <= 10000 * Dot(u, v) * Dot(u, v)
             Near == {n \in 0..100 : Below(n)}
  <1>1. ~Collide(Features(p)) /\ ~Collide(Features(q)) /\ ~Collide(Features(q) \cup Features(p))
    BY <1>0 DEF Collide
  <1>2. DOMAIN u = A /\ (\A x \in A : u[x] = 1) /\ DOMAIN v = B /\ (\A x \in B : v[x] = 1)
    BY <1>p, <1>q, <1>0, <1>1, EachFeatureOnce
  <1>3. IsFiniteSet(A) /\ a <= 19 /\ IsFiniteSet(B) /\ b <= 19
    BY <1>0, FewFeatures
  <1>4. A # {} /\ B # {}
    BY DEF Features, Buckets
  <1>5. A \cap B = {} \/ (c + 2 <= a /\ c + 2 <= b)
    <2>1. A \cap B = {} \/ c + 2 <= a
      BY <1>0, <1>w, UnsharedWord
    <2>2. B \cap A = {} \/ Cardinality(B \cap A) + 2 <= b
      BY <1>0, <1>1, <1>x, UnsharedWord
    <2>3. A \cap B = B \cap A
      OBVIOUS
    <2> QED
      BY <2>1, <2>2, <2>3
  <1> HIDE DEF A, B, u, v
  <1>6. Dot(u, u) = a /\ Dot(v, v) = b /\ Dot(u, v) = c
    <2>1. A \cap A = A /\ B \cap B = B
      OBVIOUS
    <2> QED
      BY <1>2, <1>3, <2>1, DotOfOnes
  <1>7. a \in 0..19 /\ b \in 0..19 /\ a > 0 /\ b > 0 /\ c \in Nat /\ (A \cap B = {} => c = 0)
    <2>1. a \in Nat /\ b \in Nat /\ a # 0 /\ b # 0
      BY <1>3, <1>4, FS_CardinalityType, FS_EmptySet
    <2>2. IsFiniteSet(A \cap B)
      BY <1>3, FS_Subset
    <2>3. c \in Nat /\ (A \cap B = {} => c = 0)
      BY <2>2, FS_CardinalityType, FS_EmptySet
    <2> HIDE DEF a, b, c
    <2> QED
      BY <1>3, <2>1, <2>3
  <1> HIDE DEF a, b, c
  <1>8. \A n \in Near : n < 90
    <2> SUFFICES ASSUME NEW n \in 0..100, n * n * a * b <= 10000 * c * c, n >= 90 PROVE FALSE
      BY <1>6
    <2>1. n * n * a * b > 10000 * c * c
      BY <1>5, <1>7, NineInTen
    <2>2. n * n * a * b \in Nat /\ 10000 * c * c \in Nat
      BY <1>7
    <2> QED
      BY <2>1, <2>2
  <1>9. Near # {}
    <2>1. 0 * 0 * a * b <= 10000 * c * c
      BY <1>7
    <2>2. Below(0)
      BY <1>6, <2>1
    <2> HIDE DEF Below
    <2> QED
      BY <2>2
  <1>10. Cosine(u, v) = Max(Near)
    BY <1>2, <1>4 DEF Cosine
  <1>11. Near \in SUBSET (0..100)
    OBVIOUS
  <1> HIDE DEF Near
  <1> QED
    BY <1>8, <1>9, <1>10, <1>11, GreatestIsOne DEF u, v

\* Of two plain texts of one length with different numbers each has a word that
\* the other has not.
LEMMA OtherWordsBothWays ==
  ASSUME NEW p \in Seq(Word), NEW q \in Seq(Word), Plain(p), Plain(q), Len(p) = Len(q),
         HasAnother(p, q)
  PROVE  HasAnother(q, p)
  <1> SUFFICES ASSUME NEW i \in DOMAIN p, \A m \in DOMAIN q : q[m] # p[i],
                      \A j \in DOMAIN q : \E m \in DOMAIN p : p[m] = q[j]
               PROVE  FALSE
    BY DEF HasAnother
  <1> DEFINE n == Len(p)
             R == (1..n) \ {i}
             f == [j \in 1..n |-> CHOOSE m \in DOMAIN p : p[m] = q[j]]
  <1>0. DOMAIN p = 1..n /\ DOMAIN q = 1..n /\ n \in Nat
    OBVIOUS
  <1>1. \A j \in 1..n : f[j] \in DOMAIN p /\ p[f[j]] = q[j]
    BY <1>0
  <1>2. f \in [1..n -> R]
    BY <1>0, <1>1
  <1>3. ASSUME NEW j \in 1..n, NEW k \in 1..n, f[j] = f[k] PROVE j = k
    <2> HIDE DEF f
    <2>1. q[j] = q[k]
      BY <1>1, <1>3
    <2> QED
      BY <1>0, <2>1 DEF Plain
  <1>4. IsFiniteSet(1..n) /\ IsFiniteSet(R) /\ Cardinality(R) = Cardinality(1..n) - 1 /\ Cardinality(1..n) \in Nat
    <2>1. IsFiniteSet(1..n) /\ i \in 1..n
      BY <1>0, FS_Interval
    <2> QED
      BY <2>1, FS_RemoveElement, FS_CardinalityType
  <1> HIDE DEF R, f, n
  <1>5. Cardinality(R) < Cardinality(1..n)
    BY <1>4
  <1>6. f \in Injection(1..n, R)
    BY <1>2, <1>3 DEF Injection, IsInjective
  <1>7. Cardinality(1..n) <= Cardinality(R)
    BY <1>4, <1>6, FS_Injection
  <1>8. Cardinality(R) \in Nat
    BY <1>4, FS_CardinalityType
  <1> QED
    BY <1>4, <1>5, <1>7, <1>8

\* So two short texts of one length with different numbers are not similar.
LEMMA ShortTextsDiffer ==
  ASSUME NEW s \in Texts, NEW t \in Texts,
         Plain(tokenise(s)), Plain(tokenise(t)), Len(tokenise(s)) = Len(tokenise(t)),
         ~Collide(Features(tokenise(s)) \cup Features(tokenise(t))),
         Numbers(s) # Numbers(t)
  PROVE  Cosine(Embed(s), Embed(t)) < 90
  <1> DEFINE p == tokenise(s)
             q == tokenise(t)
  <1>1. /\ p \in Seq(Word) /\ q \in Seq(Word)
        /\ Numbers(s) = {p[j] : j \in DOMAIN p} \cap Number
        /\ Numbers(t) = {q[j] : j \in DOMAIN q} \cap Number
    BY TokensOfText
  <1>2. Plain(p) /\ Plain(q) /\ Len(p) = Len(q) /\ ~Collide(Features(p) \cup Features(q))
    OBVIOUS
  <1>3. p = tokenise(s) /\ q = tokenise(t)
    OBVIOUS
  <1> HIDE DEF p, q
  <1>4. HasAnother(p, q) \/ HasAnother(q, p)
    BY <1>1 DEF HasAnother
  <1>5. HasAnother(p, q) /\ HasAnother(q, p)
    BY <1>1, <1>2, <1>4, OtherWordsBothWays
  <1> QED
    BY <1>2, <1>3, <1>5, UnsharedWordsCost

-----------------------------------------------------------------------------
\* Who was answered from the cache was answered by somebody.
HitsHaveSources == \A r \in hits : source[r] \in Request

LEMMA HitsStep == TypeOK /\ HitsHaveSources /\ [Next]_vars => HitsHaveSources'
  <1> SUFFICES ASSUME TypeOK, HitsHaveSources, [Next]_vars PROVE HitsHaveSources'
    OBVIOUS
  <1> USE DEF TypeOK, HitsHaveSources
  <1>1. ASSUME NEW r \in Request, LookupHit(r) PROVE HitsHaveSources'
    <2>1. T(r) \in Tenant
      BY SetsAssumption DEF T
    <2>2. PICK i \in DOMAIN cache[T(r)] : source' = [source EXCEPT ![r] = cache[T(r)][i]]
      BY <1>1 DEF LookupHit
    <2>3. hits' = hits \cup {r} /\ cache[T(r)][i] \in Request
      BY <1>1, <2>1, <2>2 DEF LookupHit
    <2> QED
      BY <2>2, <2>3
  <1>2. ASSUME NEW r \in Request, Join(r) \/ Lead(r) PROVE HitsHaveSources'
    <2>1. hits' = hits /\ \E x \in Request : source' = [source EXCEPT ![r] = x]
      BY <1>2 DEF Join, Lead
    <2> QED
      BY <2>1
  <1>3. CASE ~ \E r \in Request : LookupHit(r) \/ Join(r) \/ Lead(r)
    <2>1. UNCHANGED <<source, hits>>
      BY <1>3 DEF Next, vars, Ask, Done, Admit, Reject, FailOpen, LookupMiss, Generate, Receive,
           CallFails, Record, RecordFails, StoreAnswer, Land, Return, Disconnect, PodCrash,
           CacheExpires, NextMonth, goVars
    <2> QED
      BY <2>1
  <1> QED
    BY <1>1, <1>2, <1>3

LEMMA HitsCorrect == Spec => []HitsHaveSources
  <1>1. Init => HitsHaveSources
    BY DEF Init, HitsHaveSources
  <1> QED
    BY <1>1, TypeCorrect, HitsStep, PTL DEF Spec

\* Whatever the hash, the questions and the interleaving: with a threshold of
\* 0.90 or more (CACHE_THRESHOLD is 0.90) the cache answers no short question
\* with the answer to one of the same length and another number.
THEOREM ShortNumbersAreToldApart ==
  ASSUME Threshold >= 90
  PROVE  Spec => []ShortNumbersTellApart
  <1>0. \A p, q \in Question : Score[p, q] >= Threshold => ~(Score[p, q] < 90)
    <2>1. \A n \in Nat : n >= Threshold => ~(n < 90)
      BY NumbersAssumption
    <2>2. \A p, q \in Question : Score[p, q] \in Nat
      BY NumbersAssumption
    <2> QED
      BY <2>1, <2>2
  <1>1. ASSUME TypeOK, AnswerMatchesQuestion, HitsHaveSources PROVE ShortNumbersTellApart
    <2>1. ASSUME NEW r \in hits
          PROVE  /\ r \in Request /\ source[r] \in Request /\ source[r] # None
                 /\ Q(r) \in Question /\ Q(source[r]) \in Question
      BY <1>1, SetsAssumption DEF TypeOK, HitsHaveSources, Q
    <2> SUFFICES ASSUME NEW p \in Question, NEW q \in Question, Score[p, q] >= Threshold,
                        Plain(tokenise(Text[p])), Plain(tokenise(Text[q])),
                        Len(tokenise(Text[p])) = Len(tokenise(Text[q])),
                        ~Collide(Features(tokenise(Text[p])) \cup Features(tokenise(Text[q])))
                 PROVE  Numbers(Text[p]) = Numbers(Text[q])
      BY <1>1, <2>1 DEF ShortNumbersTellApart, AnswerMatchesQuestion
    <2>2. /\ Text[p] \in Texts /\ Text[q] \in Texts
          /\ Score[p, q] = Cosine(Embed(Text[p]), Embed(Text[q]))
      BY TextAssumption
    <2> QED
      BY <1>0, <2>2, ShortTextsDiffer
  <1> QED
    BY <1>1, TypeCorrect, AnswersMatch, HitsCorrect, PTL

-----------------------------------------------------------------------------
(* The refinement. *)

\* What the provider sold was sold to the leader of a flight, and the leader
\* waits for itself ever after.
OwnPurchase == \A r \in sold : source[r] = r

LEMMA OwnStep == TypeOK /\ CallInv /\ MoneyInv /\ OwnPurchase /\ [Next]_vars => OwnPurchase'
  <1> SUFFICES ASSUME TypeOK, CallInv, MoneyInv, OwnPurchase, [Next]_vars PROVE OwnPurchase'
    OBVIOUS
  <1> USE DEF TypeOK, OwnPurchase
  <1>1. ASSUME NEW r \in Request, LookupHit(r) \/ Join(r) \/ Lead(r) PROVE OwnPurchase'
    <2>1. r \notin sold /\ sold' = sold
      BY <1>1 DEF MoneyInv, LookupHit, Join, Lead, providerVars
    <2>2. \A x \in Request \ {r} : source'[x] = source[x]
      BY <1>1 DEF LookupHit, Join, Lead
    <2> QED
      BY <2>1, <2>2
  <1>2. ASSUME NEW r \in Request, Generate(r) PROVE OwnPurchase'
    BY <1>2 DEF Generate, CallInv, InFlight, InCall
  <1>3. CASE ~ \E r \in Request : LookupHit(r) \/ Join(r) \/ Lead(r) \/ Generate(r)
    <2>1. UNCHANGED <<source, sold>>
      BY <1>3 DEF Next, vars, Ask, Done, Admit, Reject, FailOpen, LookupMiss, Receive,
           CallFails, Record, RecordFails, StoreAnswer, Land, Return, Disconnect, PodCrash,
           CacheExpires, NextMonth, goVars, providerVars
    <2> QED
      BY <2>1
  <1> QED
    BY <1>1, <1>2, <1>3

\* What the step of a metered service may depend on.
ServiceInv == TypeOK /\ CallInv /\ MoneyInv /\ OwnPurchase /\ TenantIsolation /\ Stored

\* A request is open as long as its goroutine is under way.
LEMMA OpenUnderWay ==
  ASSUME TypeOK, CallInv, NEW r \in Request, pc[r] # "done"
  PROVE  reply[r] = "none" /\ Metered!Open(r)
  BY DEF CallInv, Metered!Open, Outcome

\* A reply ends one request and tells it where its answer is from.
LEMMA OneEnds ==
  ASSUME TypeOK, NEW r \in Request, NEW a \in {"200", "429", "502", "silent"}, reply[r] = "none",
         reply' = [reply EXCEPT ![r] = a], req' = req,
         \A x \in Request \ {r} : source'[x] = source[x]
  PROVE  /\ TenantOf' = TenantOf
         /\ Outcome' = [Outcome EXCEPT ![r] = IF a = "200" THEN "answered"
                                   ELSE IF a = "429" THEN "refused" ELSE "closed"]
         /\ AnswerTo' = IF a = "200" THEN [AnswerTo EXCEPT ![r] = source'[r]] ELSE AnswerTo
  <1>1. /\ reply'[r] = a
        /\ \A x \in Request \ {r} : reply'[x] = reply[x] /\ source'[x] = source[x]
    BY DEF TypeOK
  <1>2. TenantOf' = TenantOf
    BY DEF TenantOf, T
  <1>3. \A x \in Request \ {r} : Outcome'[x] = Outcome[x] /\ AnswerTo'[x] = AnswerTo[x]
    BY <1>1 DEF Outcome, AnswerTo
  <1>4. /\ Outcome'[r] = IF a = "200" THEN "answered" ELSE IF a = "429" THEN "refused" ELSE "closed"
        /\ AnswerTo'[r] = IF a = "200" THEN source'[r] ELSE None
        /\ AnswerTo[r] = None
    BY <1>1 DEF Outcome, AnswerTo
  <1>5. /\ Outcome = [x \in Request |-> Outcome[x]] /\ Outcome' = [x \in Request |-> Outcome'[x]]
        /\ AnswerTo = [x \in Request |-> AnswerTo[x]]
        /\ AnswerTo' = [x \in Request |-> AnswerTo'[x]]
    BY DEF Outcome, AnswerTo
  <1> QED
    BY <1>2, <1>3, <1>4, <1>5

\* No outcome changes while no reply is sent.
LEMMA NoneEnds ==
  ASSUME TypeOK, CallInv, reply' = reply, req' = req,
         \A x \in Request : pc[x] = "done" => source'[x] = source[x]
  PROVE  UNCHANGED <<TenantOf, Outcome, AnswerTo>>
  <1>1. \A x \in Request : reply[x] = "200" => source'[x] = source[x]
    BY DEF CallInv
  <1>2. AnswerTo' = AnswerTo
    BY <1>1 DEF AnswerTo
  <1> QED
    BY <1>2 DEF TenantOf, T, Outcome

LEMMA ServiceInit == Init => Metered!Init
  <1> SUFFICES ASSUME Init PROVE Metered!Init
    OBVIOUS
  <1>1. TenantOf \in [Request -> Tenant]
    BY SetsAssumption DEF Init, TenantOf, T
  <1>2. /\ Outcome = [r \in Request |-> "open"] /\ AnswerTo = [r \in Request |-> None]
        /\ Succeeded = {} /\ OnBill = {}
    BY DEF Init, Outcome, AnswerTo, Succeeded, OnBill
  <1> QED
    BY <1>1, <1>2 DEF Init, Metered!Init

\* A refusal: the counter that Check read is the bill of this month.
LEMMA RejectRefuses ==
  ASSUME ServiceInv, NEW r \in Request, Reject(r)
  PROVE  Metered!Refuse(r)
  <1>1. pc[r] = "check" /\ Metered!Open(r) /\ reply[r] = "none"
    BY OpenUnderWay DEF ServiceInv, Reject
  <1>2. /\ Outcome' = [Outcome EXCEPT ![r] = "refused"]
        /\ TenantOf' = TenantOf /\ AnswerTo' = AnswerTo
    <2>1. reply' = [reply EXCEPT ![r] = "429"] /\ UNCHANGED <<req, source>>
      BY DEF Reject, Finish, envVars
    <2> QED
      BY <1>1, <2>1, OneEnds DEF ServiceInv
  <1>3. r \notin sold
    BY <1>1 DEF ServiceInv, MoneyInv
  <1>4. used[TenantOf[r]][month] >= Limit[TenantOf[r]]
    <2>1. /\ TenantOf[r] = T(r) /\ T(r) \in Tenant
      BY SetsAssumption DEF ServiceInv, TypeOK, TenantOf, T
    <2>2. used[T(r)][month] \in Nat /\ Limit[T(r)] \in Nat
      BY <2>1, NumbersAssumption DEF ServiceInv, TypeOK
    <2> QED
      BY <2>1, <2>2 DEF Reject, WithinBudget
  <1> QED
    BY <1>1, <1>2, <1>3, <1>4
    DEF Metered!Refuse, Metered!End, Reject, Succeeded, OnBill, providerVars, redisVars,
        historyVars, envVars

\* A sale: whoever calls has not bought yet.
LEMMA GenerateBuys ==
  ASSUME ServiceInv, NEW r \in Request, Generate(r)
  PROVE  Metered!Buy(r)
  <1>1. pc[r] = "call" /\ Metered!Open(r)
    BY OpenUnderWay DEF ServiceInv, Generate
  <1>2. UNCHANGED <<TenantOf, Outcome, AnswerTo>>
    BY NoneEnds DEF ServiceInv, Generate, envVars
  <1>3. r \notin sold
    BY <1>1 DEF ServiceInv, MoneyInv
  <1> QED
    BY <1>1, <1>2, <1>3
    DEF Metered!Buy, Generate, Succeeded, OnBill, redisVars, historyVars, envVars

\* Record charges a purchase, once, and before its answer can be given out.
LEMMA RecordCharges ==
  ASSUME ServiceInv, NEW r \in Request, Record(r)
  PROVE  Metered!Charge(r)
  <1>1. pc[r] = "record" /\ Metered!Open(r)
    BY OpenUnderWay DEF ServiceInv, Record
  <1>2. UNCHANGED <<TenantOf, Outcome, AnswerTo>>
    BY NoneEnds DEF ServiceInv, Record, envVars
  <1>3. r \in sold /\ result[r] = "none" /\ billed[r] = 0
    BY <1>1 DEF ServiceInv, MoneyInv, CallInv, Unbilled, InCall
  <1>4. OnBill' = OnBill \cup {r}
    BY DEF ServiceInv, TypeOK, Record, OnBill
  <1>5. used' = [used EXCEPT ![TenantOf[r]][month] = @ + cost[r]]
    BY DEF Record, Spend, TenantOf
  <1> QED
    BY <1>1, <1>2, <1>3, <1>4, <1>5
    DEF Metered!Charge, Record, Succeeded, OnBill, providerVars, envVars

\* Storing the answer makes a purchase one that may be handed out.
LEMMA StoreReleases ==
  ASSUME ServiceInv, NEW r \in Request, StoreAnswer(r)
  PROVE  Metered!Release(r)
  <1>1. pc[r] = "store" /\ Metered!Open(r)
    BY OpenUnderWay DEF ServiceInv, StoreAnswer
  <1>2. UNCHANGED <<TenantOf, Outcome, AnswerTo>>
    BY NoneEnds DEF ServiceInv, StoreAnswer
  <1>3. r \in sold /\ result[r] = "none"
    BY <1>1 DEF ServiceInv, CallInv
  <1>4. Succeeded' = Succeeded \cup {r}
    BY DEF ServiceInv, TypeOK, StoreAnswer, Succeeded
  <1> QED
    BY <1>1, <1>2, <1>3, <1>4
    DEF Metered!Release, StoreAnswer, Succeeded, OnBill, providerVars, historyVars

\* A hit answers with a purchase of the tenant's own that has succeeded.
LEMMA HitAnswers ==
  ASSUME ServiceInv, NEW r \in Request, LookupHit(r)
  PROVE  Metered!Answer(r)
  <1>1. pc[r] = "lookup" /\ Metered!Open(r) /\ reply[r] = "none"
    BY OpenUnderWay DEF ServiceInv, LookupHit
  <1>2. T(r) \in Tenant
    BY SetsAssumption DEF ServiceInv, TypeOK, T
  <1>3. PICK i \in DOMAIN cache[T(r)] : source' = [source EXCEPT ![r] = cache[T(r)][i]]
    BY DEF LookupHit
  <1> DEFINE x == cache[T(r)][i]
  <1>4. x \in Request /\ x \in Succeeded /\ TenantOf[x] = TenantOf[r]
    BY <1>2 DEF ServiceInv, TypeOK, Stored, Succeeded, TenantIsolation, TenantOf
  <1>5. r \notin sold
    BY <1>1 DEF ServiceInv, MoneyInv
  <1>6. /\ source'[r] = x /\ \A y \in Request \ {r} : source'[y] = source[y]
    BY <1>3 DEF ServiceInv, TypeOK
  <1>7. /\ Outcome' = [Outcome EXCEPT ![r] = "answered"]
        /\ AnswerTo' = [AnswerTo EXCEPT ![r] = x] /\ TenantOf' = TenantOf
    <2>1. reply' = [reply EXCEPT ![r] = "200"] /\ req' = req
      BY DEF LookupHit, Finish, envVars
    <2> QED
      BY <1>1, <1>6, <2>1, OneEnds DEF ServiceInv
  <1> QED
    BY <1>1, <1>4, <1>5, <1>7
    DEF Metered!Answer, Metered!End, LookupHit, Succeeded, OnBill, providerVars, redisVars,
        historyVars, envVars

\* A flight's end answers with the leader's purchase if it has succeeded, and
\* closes the request otherwise.
LEMMA ReturnEnds ==
  ASSUME ServiceInv, NEW r \in Request, Return(r)
  PROVE  Metered!Answer(r) \/ Metered!Close({r})
  <1>1. pc[r] = "return" /\ Metered!Open(r) /\ reply[r] = "none"
    BY OpenUnderWay DEF ServiceInv, Return
  <1>2. source[r] \in Request /\ source[r] # None
    BY <1>1, SetsAssumption DEF ServiceInv, CallInv
  <1>3. UNCHANGED <<req, source, sold, cost, Succeeded, OnBill, used, month>>
    BY DEF Return, Succeeded, OnBill, providerVars, redisVars, historyVars, envVars
  <1>4. CASE result[source[r]] = "ok"
    <2>1. reply' = [reply EXCEPT ![r] = "200"]
      BY <1>4 DEF Return, Finish, ReplyTo
    <2>2. /\ Outcome' = [Outcome EXCEPT ![r] = "answered"]
          /\ AnswerTo' = [AnswerTo EXCEPT ![r] = source[r]] /\ TenantOf' = TenantOf
      BY <1>1, <1>3, <2>1, OneEnds DEF ServiceInv
    <2>3. source[r] \in Succeeded /\ TenantOf[source[r]] = TenantOf[r]
      BY <1>2, <1>4 DEF ServiceInv, TenantIsolation, Succeeded, TenantOf
    <2>4. r \in sold => source[r] = r
      BY DEF ServiceInv, OwnPurchase
    <2> QED
      BY <1>1, <1>3, <2>2, <2>3, <2>4 DEF Metered!Answer, Metered!End
  <1>5. CASE result[source[r]] # "ok"
    <2>1. PICK a \in {"502", "silent"} : reply' = [reply EXCEPT ![r] = a]
      BY <1>5 DEF Return, Finish, ReplyTo
    <2>2. /\ Outcome' = [Outcome EXCEPT ![r] = "closed"]
          /\ AnswerTo' = AnswerTo /\ TenantOf' = TenantOf
      BY <1>1, <1>3, <2>1, OneEnds DEF ServiceInv
    <2>3. Outcome' = [x \in Request |-> IF x \in {r} THEN "closed" ELSE Outcome[x]]
      BY <2>2 DEF Outcome
    <2> QED
      BY <1>1, <1>3, <2>2, <2>3 DEF Metered!Close
  <1> QED
    BY <1>4, <1>5

\* A crash closes the open requests of its pod.
LEMMA CrashCloses ==
  ASSUME ServiceInv, NEW p \in Pod, PodCrash(p)
  PROVE  \E S \in SUBSET Request : Metered!Close(S)
  <1> DEFINE dying == {r \in Request : req[r].pod = p /\ pc[r] # "done"}
  <1>1. /\ dying # {} /\ reply' = [r \in Request |-> IF r \in dying THEN "dead" ELSE reply[r]]
        /\ UNCHANGED <<req, source, sold, cost, result, billed, used, month>>
    BY DEF PodCrash, providerVars, redisVars, historyVars
  <1>2. \A r \in dying : reply[r] = "none" /\ Metered!Open(r)
    BY OpenUnderWay DEF ServiceInv
  <1>3. Outcome' = [r \in Request |-> IF r \in dying THEN "closed" ELSE Outcome[r]]
    BY <1>1 DEF Outcome
  <1>4. AnswerTo' = AnswerTo
    BY <1>1, <1>2 DEF AnswerTo
  <1>5. Metered!Close(dying)
    BY <1>1, <1>2, <1>3, <1>4 DEF Metered!Close, TenantOf, T, Succeeded, OnBill
  <1> QED
    BY <1>5

LEMMA ServiceStep == ServiceInv /\ [Next]_vars => [Metered!Next]_(Metered!meteredVars)
  <1> SUFFICES ASSUME ServiceInv, [Next]_vars PROVE [Metered!Next]_(Metered!meteredVars)
    OBVIOUS
  <1>1. ASSUME NEW r \in Request,
               Reject(r) \/ Generate(r) \/ Record(r) \/ StoreAnswer(r) \/ LookupHit(r) \/ Return(r)
        PROVE  Metered!Next
    <2>1. CASE Reject(r) \/ Generate(r) \/ Record(r) \/ StoreAnswer(r) \/ LookupHit(r)
      BY <2>1, RejectRefuses, GenerateBuys, RecordCharges, StoreReleases, HitAnswers
      DEF Metered!Next
    <2>2. CASE Return(r)
      <3>1. {r} \in SUBSET Request
        OBVIOUS
      <3> QED
        BY <2>2, <3>1, ReturnEnds DEF Metered!Next
    <2> QED
      BY <1>1, <2>1, <2>2
  <1>2. ASSUME NEW p \in Pod, PodCrash(p) PROVE Metered!Next
    BY <1>2, CrashCloses DEF Metered!Next
  <1>3. CASE NextMonth
    <2>1. UNCHANGED <<TenantOf, Outcome, AnswerTo>>
      BY <1>3, NoneEnds DEF ServiceInv, NextMonth, goVars
    <2> QED
      BY <1>3, <2>1 DEF NextMonth, Metered!Next, Metered!NewMonth, Succeeded, OnBill, goVars,
                        providerVars, redisVars, historyVars
  <1>4. ASSUME UNCHANGED <<reply, req, sold, cost, billed, used, month>>,
               \A x \in Request : pc[x] = "done" => source'[x] = source[x],
               Succeeded' = Succeeded
        PROVE  UNCHANGED Metered!meteredVars
    <2>1. UNCHANGED <<TenantOf, Outcome, AnswerTo>>
      BY <1>4, NoneEnds DEF ServiceInv
    <2> QED
      BY <1>4, <2>1 DEF Metered!meteredVars, OnBill
  <1>5. ASSUME NEW r \in Request, Join(r) \/ Lead(r) PROVE UNCHANGED Metered!meteredVars
    <2>1. pc[r] = "do" /\ \A x \in Request \ {r} : source'[x] = source[x]
      BY <1>5 DEF Join, Lead, ServiceInv, TypeOK
    <2> QED
      BY <1>4, <1>5, <2>1 DEF Join, Lead, Succeeded, providerVars, redisVars, historyVars, envVars
  <1>6. ASSUME NEW r \in Request, CallFails(r) PROVE UNCHANGED Metered!meteredVars
    <2>1. result[r] = "none" /\ \E a \in {"failed", "canceled"} : result' = [result EXCEPT ![r] = a]
      BY <1>6 DEF CallFails, ServiceInv, CallInv, Unbilled
    <2>2. Succeeded' = Succeeded
      BY <2>1 DEF Succeeded, ServiceInv, TypeOK
    <2> QED
      BY <1>4, <1>6, <2>2 DEF CallFails, providerVars, redisVars, historyVars, envVars
  <1>7. ASSUME NEW r \in Request,
               Admit(r) \/ FailOpen(r) \/ LookupMiss(r) \/ Receive(r) \/ RecordFails(r) \/ Land(r)
                 \/ Disconnect(r)
        PROVE  UNCHANGED Metered!meteredVars
    <2>1. UNCHANGED <<reply, req, source, result, sold, cost, billed, used, month>>
      BY <1>7 DEF Admit, FailOpen, LookupMiss, Receive, RecordFails, Land, Disconnect,
                  providerVars, redisVars, historyVars, envVars
    <2> QED
      BY <1>4, <2>1 DEF Succeeded
  <1>8. CASE (\E t \in Tenant : CacheExpires(t)) \/ UNCHANGED vars
    <2>1. UNCHANGED <<reply, req, source, result, sold, cost, billed, used, month>>
      BY <1>8 DEF CacheExpires, vars, goVars, providerVars, redisVars, historyVars, envVars
    <2> QED
      BY <1>4, <2>1 DEF Succeeded
  <1> QED
    BY <1>1, <1>2, <1>3, <1>5, <1>6, <1>7, <1>8 DEF Next, Ask, Done, Metered!Next

\* For any number of requests, tenants and pods, and whatever is cached, shared,
\* lost or cut off between: the gateway is a metered service.
THEOREM GatewayIsMetered == Spec => ImplementsMetered
  <1>1. Init => OwnPurchase /\ Stored
    BY DEF Init, OwnPurchase, Stored
  <1>2. Spec => []ServiceInv
    BY <1>1, TypeCorrect, CallCorrect, MoneyCorrect, TenantsIsolated, OwnStep, StoredStep, PTL
    DEF Spec, ServiceInv
  <1> QED
    BY <1>2, ServiceInit, ServiceStep, PTL DEF Spec, ImplementsMetered, Metered!Spec
=============================================================================
