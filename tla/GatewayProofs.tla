---------------------------- MODULE GatewayProofs ----------------------------
(***************************************************************************)
(* Proofs about the gateway, for any sets of requests, tenants, pods and   *)
(* questions, any limits and any cap.                                      *)
(***************************************************************************)
EXTENDS GatewayProps, TLAPS

\* What LTRIM keeps is a prefix of the list.
LEMMA TrimPrefix ==
  ASSUME NEW S, NEW s \in Seq(S)
  PROVE  /\ Trim(s) \in Seq(S)
         /\ Len(Trim(s)) <= Len(s)
         /\ \A i \in 1..Len(Trim(s)) : Trim(s)[i] = s[i]
  BY NumbersAssumption DEF Trim

\* What LPUSH and LTRIM leave: the new answer first, then a prefix of the old
\* list, each entry one place further.
LEMMA PushTrim ==
  ASSUME NEW S, NEW e \in S, NEW s \in Seq(S)
  PROVE  /\ Trim(<<e>> \o s) \in Seq(S)
         /\ \A i \in DOMAIN Trim(<<e>> \o s) :
              \/ i = 1 /\ Trim(<<e>> \o s)[i] = e
              \/ i - 1 \in DOMAIN s /\ Trim(<<e>> \o s)[i] = s[i - 1]
  <1> DEFINE l == <<e>> \o s
  <1>1. l \in Seq(S) /\ Len(l) = Len(s) + 1
    OBVIOUS
  <1>2. \A i \in 1..Len(l) : IF i = 1 THEN l[i] = e ELSE i - 1 \in DOMAIN s /\ l[i] = s[i - 1]
    OBVIOUS
  <1>3. Trim(l) \in Seq(S) /\ Len(Trim(l)) <= Len(l) /\ \A i \in 1..Len(Trim(l)) : Trim(l)[i] = l[i]
    BY <1>1, TrimPrefix
  <1>4. \A i \in DOMAIN Trim(l) : i \in 1..Len(l) /\ Trim(l)[i] = l[i]
    BY <1>1, <1>3
  <1> QED
    BY <1>2, <1>3, <1>4

-----------------------------------------------------------------------------
LEMMA TypeInit == Init => TypeOK
  <1> SUFFICES ASSUME Init PROVE TypeOK
    OBVIOUS
  <1>1. cache \in [Tenant -> Seq(Request)] /\ used \in [Tenant -> [1..MaxMonth -> Nat]]
    BY NumbersAssumption DEF Init
  <1> QED
    BY <1>1, NumbersAssumption DEF Init, TypeOK, Steps, InFlight, InCall, Results, Replies

LEMMA TypeStep == TypeOK /\ [Next]_vars => TypeOK'
  <1> SUFFICES ASSUME TypeOK, [Next]_vars PROVE TypeOK'
    OBVIOUS
  <1>0. /\ Call \subseteq [tenant : Tenant, question : Question, pod : Pod]
        /\ MaxUpsets \in Nat /\ MaxMonth \in Nat \ {0} /\ Tokens \subseteq Nat
    BY SetsAssumption, NumbersAssumption
  <1> USE <1>0
      DEF TypeOK, Steps, InFlight, InCall, Results, Replies, Goto, Finish, Upset, RedisError, WriteError,
          goVars, providerVars, redisVars, historyVars, envVars
  <1>1. ASSUME NEW r \in Request, Admit(r) PROVE TypeOK'
    <2>1. peers' \in [Request -> SUBSET Request]
      BY <1>1 DEF Admit
    <2>2. checked' \in [Request -> 0..MaxMonth] /\ pc' \in [Request -> Steps]
      BY <1>1 DEF Admit
    <2> QED
      BY <1>1, <2>1, <2>2 DEF Admit
  <1>2. ASSUME NEW r \in Request, Reject(r) PROVE TypeOK'
    BY <1>2 DEF Reject
  <1>3. ASSUME NEW r \in Request, FailOpen(r) PROVE TypeOK'
    BY <1>3 DEF FailOpen
  <1>4. ASSUME NEW r \in Request, LookupHit(r) PROVE TypeOK'
    <2>1. T(r) \in Tenant
      BY DEF T
    <2>2. \A i \in DOMAIN cache[T(r)] : cache[T(r)][i] \in Request
      BY <2>1
    <2> QED
      BY <1>4, <2>2 DEF LookupHit
  <1>5. ASSUME NEW r \in Request, LookupMiss(r) PROVE TypeOK'
    BY <1>5 DEF LookupMiss
  <1>6. ASSUME NEW r \in Request, Join(r) PROVE TypeOK'
    BY <1>6 DEF Join
  <1>7. ASSUME NEW r \in Request, Lead(r) PROVE TypeOK'
    BY <1>7 DEF Lead
  <1>8. ASSUME NEW r \in Request, Generate(r) PROVE TypeOK'
    BY <1>8 DEF Generate
  <1>9. ASSUME NEW r \in Request, Receive(r) PROVE TypeOK'
    BY <1>9 DEF Receive
  <1>10. ASSUME NEW r \in Request, CallFails(r) PROVE TypeOK'
    BY <1>10 DEF CallFails
  <1>11. ASSUME NEW r \in Request, Record(r) PROVE TypeOK'
    <2>1. /\ T(r) \in Tenant /\ month \in 1..MaxMonth /\ cost[r] \in Nat
          /\ used \in [Tenant -> [1..MaxMonth -> Nat]]
      BY DEF T
    <2>2. used' \in [Tenant -> [1..MaxMonth -> Nat]]
      <3> DEFINE row == [used[T(r)] EXCEPT ![month] = @ + cost[r]]
      <3>1. used' = [used EXCEPT ![T(r)] = row]
        BY <1>11 DEF Record, Spend
      <3> HIDE DEF TypeOK
      <3>2. row \in [1..MaxMonth -> Nat]
        BY <2>1
      <3> HIDE DEF row
      <3> QED
        BY <2>1, <3>1, <3>2
    <2>3. billed' \in [Request -> 0..MaxMonth] /\ pc' \in [Request -> Steps]
      BY <1>11, <2>1 DEF Record
    <2> QED
      BY <1>11, <2>2, <2>3 DEF Record
  <1>12. ASSUME NEW r \in Request, RecordFails(r) PROVE TypeOK'
    BY <1>12 DEF RecordFails
  <1>13. ASSUME NEW r \in Request, StoreAnswer(r) PROVE TypeOK'
    <2>1. T(r) \in Tenant
      BY DEF T
    <2>2. Trim(<<r>> \o cache[T(r)]) \in Seq(Request)
      BY <2>1, PushTrim
    <2>3. cache' \in [Tenant -> Seq(Request)]
      BY <1>13, <2>2 DEF StoreAnswer
    <2>4. /\ pc' \in [Request -> Steps] /\ result' \in [Request -> Results]
          /\ upsets' \in 0..MaxUpsets
      BY <1>13 DEF StoreAnswer
    <2> QED
      BY <1>13, <2>3, <2>4 DEF StoreAnswer
  <1>14. ASSUME NEW r \in Request, Land(r) PROVE TypeOK'
    BY <1>14 DEF Land
  <1>15. ASSUME NEW r \in Request, Return(r) PROVE TypeOK'
    BY <1>15 DEF Return, ReplyTo
  <1>16. ASSUME NEW r \in Request, Disconnect(r) PROVE TypeOK'
    BY <1>16 DEF Disconnect
  <1>17. ASSUME NEW p \in Pod, PodCrash(p) PROVE TypeOK'
    <2>1. /\ pc' \in [Request -> Steps] /\ reply' \in [Request -> Replies]
          /\ flights' \subseteq Request /\ upsets' \in 0..MaxUpsets
      BY <1>17 DEF PodCrash
    <2> QED
      BY <1>17, <2>1 DEF PodCrash
  <1>18. ASSUME NEW t \in Tenant, CacheExpires(t) PROVE TypeOK'
    <2>1. << >> \in Seq(Request)
      OBVIOUS
    <2>2. cache' \in [Tenant -> Seq(Request)] /\ upsets' \in 0..MaxUpsets
      BY <1>18, <2>1 DEF CacheExpires
    <2> QED
      BY <1>18, <2>2 DEF CacheExpires
  <1>19. CASE NextMonth
    BY <1>19 DEF NextMonth
  <1>20. CASE UNCHANGED vars
    BY <1>20 DEF vars
  <1> QED
    BY <1>1, <1>2, <1>3, <1>4, <1>5, <1>6, <1>7, <1>8, <1>9, <1>10, <1>11, <1>12, <1>13,
       <1>14, <1>15, <1>16, <1>17, <1>18, <1>19, <1>20 DEF Next, Ask, Done

\* In every reachable state each variable has its type.
THEOREM TypeCorrect == Spec => []TypeOK
  BY TypeInit, TypeStep, PTL DEF Spec

-----------------------------------------------------------------------------
\* A step changes what the other requests ask for never, and the map of
\* flights only by Lead, which adds its request, or by removing entries.
LEMMA ReqFixed == [Next]_vars => req' = req
  BY DEF Next, vars, Ask, Done, Admit, Reject, FailOpen, LookupHit, LookupMiss, Join, Lead,
         Generate, Receive, CallFails, Record, RecordFails, StoreAnswer, Land, Return,
         Disconnect, PodCrash, CacheExpires, NextMonth, envVars

LEMMA FlightsGrowByLead ==
  ASSUME [Next]_vars, ~ \E r \in Request : Lead(r)
  PROVE  flights' \subseteq flights
  BY DEF Next, vars, Ask, Done, Admit, Reject, FailOpen, LookupHit, LookupMiss, Join,
         Generate, Receive, CallFails, Record, RecordFails, StoreAnswer, Land, Return,
         Disconnect, PodCrash, CacheExpires, NextMonth, goVars

LEMMA OneCallStep == TypeOK /\ OneCallPerPrompt /\ [Next]_vars => OneCallPerPrompt'
  <1> SUFFICES ASSUME TypeOK, OneCallPerPrompt, [Next]_vars PROVE OneCallPerPrompt'
    OBVIOUS
  <1>1. req' = req
    BY ReqFixed
  <1>2. CASE ~ \E r \in Request : Lead(r)
    <2>1. flights' \subseteq flights
      BY <1>2, FlightsGrowByLead
    <2> QED
      BY <1>1, <2>1 DEF OneCallPerPrompt, T, Q
  <1>3. ASSUME NEW r \in Request, Lead(r) PROVE OneCallPerPrompt'
    <2>1. flights' = flights \cup {r}
      BY <1>3 DEF Lead
    <2>2. \A l \in flights : ~ (/\ req[l].pod = req[r].pod /\ T(l) = T(r)
                                /\ Norm[Q(l)] = Norm[Q(r)])
      BY <1>3 DEF Lead, NoFlight, Key
    <2> QED
      BY <1>1, <2>1, <2>2 DEF OneCallPerPrompt, T, Q
  <1> QED
    BY <1>2, <1>3

\* A pod's singleflight never runs two upstream calls for the same prompt of
\* the same tenant at once, whatever the interleaving.
THEOREM OneCallAtATime == Spec => []OneCallPerPrompt
  <1>1. Init => OneCallPerPrompt
    BY DEF Init, OneCallPerPrompt
  <1> QED
    BY <1>1, TypeCorrect, OneCallStep, PTL DEF Spec

-----------------------------------------------------------------------------
LEMMA IsolationStep == TypeOK /\ TenantIsolation /\ [Next]_vars => TenantIsolation'
  <1> SUFFICES ASSUME TypeOK, TenantIsolation, [Next]_vars PROVE TenantIsolation'
    OBVIOUS
  <1>1. req' = req
    BY ReqFixed
  <1>2. \A r \in Request : T(r) \in Tenant /\ T(r)' = T(r)
    BY <1>1, SetsAssumption DEF T, TypeOK
  <1>3. ASSUME NEW r \in Request, LookupHit(r) PROVE TenantIsolation'
    <2>1. PICK i \in DOMAIN cache[T(r)] : source' = [source EXCEPT ![r] = cache[T(r)][i]]
      BY <1>3 DEF LookupHit
    <2>2. cache[T(r)][i] \in Request /\ T(cache[T(r)][i]) = T(r)
      BY <1>2, <2>1 DEF TenantIsolation, TypeOK
    <2>3. cache' = cache
      BY <1>3 DEF LookupHit, redisVars
    <2>4. \A x \in Request : source'[x] = IF x = r THEN cache[T(r)][i] ELSE source[x]
      BY <2>1 DEF TypeOK
    <2> QED
      BY <1>1, <2>2, <2>3, <2>4 DEF TenantIsolation, T
  <1>4. ASSUME NEW r \in Request, Join(r) PROVE TenantIsolation'
    <2>1. PICK l \in flights : Key(l) = Key(r) /\ source' = [source EXCEPT ![r] = l]
      BY <1>4 DEF Join
    <2>2. T(l) = T(r)
      BY <2>1 DEF Key
    <2>3. cache' = cache
      BY <1>4 DEF Join, redisVars
    <2>4. \A x \in Request : source'[x] = IF x = r THEN l ELSE source[x]
      BY <2>1 DEF TypeOK
    <2> QED
      BY <1>1, <2>2, <2>3, <2>4 DEF TenantIsolation, T
  <1>5. ASSUME NEW r \in Request, Lead(r) PROVE TenantIsolation'
    <2>1. cache' = cache /\ \A x \in Request : source'[x] = IF x = r THEN r ELSE source[x]
      BY <1>5 DEF Lead, redisVars, TypeOK
    <2> QED
      BY <1>1, <2>1 DEF TenantIsolation, T
  <1>6. ASSUME NEW r \in Request, StoreAnswer(r) PROVE TenantIsolation'
    <2>1. source' = source
      BY <1>6 DEF StoreAnswer
    <2>2. CASE cache' = cache
      BY <1>1, <2>1, <2>2 DEF TenantIsolation, T
    <2>3. CASE cache' = [cache EXCEPT ![T(r)] = Trim(<<r>> \o @)]
      <3> DEFINE l == Trim(<<r>> \o cache[T(r)])
      <3>0. cache[T(r)] \in Seq(Request)
        BY <1>2 DEF TypeOK
      <3>1. \A i \in DOMAIN l : l[i] = r \/ \E j \in DOMAIN cache[T(r)] : l[i] = cache[T(r)][j]
        BY <3>0, PushTrim
      <3>2. \A i \in DOMAIN l : T(l[i]) = T(r)
        BY <3>1, <1>2 DEF TenantIsolation
      <3>3. \A t \in Tenant : cache'[t] = IF t = T(r) THEN l ELSE cache[t]
        BY <2>3, <1>2 DEF TypeOK
      <3> HIDE DEF l
      <3>4. \A t \in Tenant : \A i \in DOMAIN cache'[t] : T(cache'[t][i]) = t
        BY <3>2, <3>3 DEF TenantIsolation
      <3> QED
        BY <1>1, <2>1, <3>4 DEF TenantIsolation, T
    <2> QED
      BY <1>6, <2>2, <2>3 DEF StoreAnswer
  <1>7. ASSUME NEW t \in Tenant, CacheExpires(t) PROVE TenantIsolation'
    <2>1. source' = source /\ \A x \in Tenant : cache'[x] = IF x = t THEN << >> ELSE cache[x]
      BY <1>7 DEF CacheExpires, goVars, TypeOK
    <2> QED
      BY <1>1, <2>1 DEF TenantIsolation, T
  <1>8. CASE /\ ~ \E r \in Request : LookupHit(r) \/ Join(r) \/ Lead(r) \/ StoreAnswer(r)
             /\ ~ \E t \in Tenant : CacheExpires(t)
    <2>1. source' = source /\ cache' = cache
      BY <1>8 DEF Next, vars, Ask, Done, Admit, Reject, FailOpen, LookupMiss, Generate, Receive,
           CallFails, Record, RecordFails, Land, Return, Disconnect, PodCrash, NextMonth,
           goVars, redisVars
    <2> QED
      BY <1>1, <2>1 DEF TenantIsolation, T
  <1> QED
    BY <1>3, <1>4, <1>5, <1>6, <1>7, <1>8

\* No tenant is ever answered from another tenant's call or cache, for any
\* number of tenants, requests and pods, with every failure the model has.
THEOREM TenantsIsolated == Spec => []TenantIsolation
  <1>1. Init => TenantIsolation
    BY DEF Init, TenantIsolation
  <1> QED
    BY <1>1, TypeCorrect, IsolationStep, PTL DEF Spec

-----------------------------------------------------------------------------
LEMMA StrandedStep == TypeOK /\ NoStrandedFollower /\ [Next]_vars => NoStrandedFollower'
  <1> SUFFICES ASSUME TypeOK, NoStrandedFollower, [Next]_vars PROVE NoStrandedFollower'
    OBVIOUS
  <1>1. req' = req
    BY ReqFixed
  <1>2. \A x \in Request : Key(x)' = Key(x)
    BY <1>1 DEF Key, T, Q
  <1> USE DEF NoStrandedFollower, TypeOK, InFlight, InCall, Goto, Finish
  <1>3. ASSUME NEW r \in Request, Join(r) PROVE NoStrandedFollower'
    <2>1. PICK l \in flights : Key(l) = Key(r) /\ source' = [source EXCEPT ![r] = l]
      BY <1>3 DEF Join
    <2>2. flights' = flights /\ pc' = [pc EXCEPT ![r] = "wait"] /\ pc[r] = "do"
      BY <1>3 DEF Join
    <2> HIDE DEF Key
    <2> QED
      BY <1>2, <2>1, <2>2
  <1>4. ASSUME NEW r \in Request, Lead(r) PROVE NoStrandedFollower'
    <2>1. /\ flights' = flights \cup {r} /\ source' = [source EXCEPT ![r] = r]
          /\ pc' = [pc EXCEPT ![r] = "call"] /\ pc[r] = "do"
      BY <1>4 DEF Lead
    <2> HIDE DEF Key
    <2> QED
      BY <1>2, <2>1
  <1>5. ASSUME NEW r \in Request, Land(r) PROVE NoStrandedFollower'
    <2>1. /\ flights' = flights \ {r} /\ source' = source /\ pc[r] = "land"
          /\ pc' = [x \in Request |-> IF Releases(r, x) THEN "return" ELSE pc[x]]
      BY <1>5 DEF Land
    <2> HIDE DEF Key
    <2> QED
      BY <1>2, <2>1 DEF Releases
  <1>6. ASSUME NEW p \in Pod, PodCrash(p) PROVE NoStrandedFollower'
    <2> DEFINE dying == {r \in Request : req[r].pod = p /\ pc[r] # "done"}
    <2>1. /\ flights' = flights \ dying /\ source' = source
          /\ pc' = [r \in Request |-> IF r \in dying THEN "done" ELSE pc[r]]
      BY <1>6 DEF PodCrash
    <2>2. \A r \in Request : pc[r] = "wait" => req[source[r]].pod = req[r].pod
      BY DEF Key
    <2> HIDE DEF Key
    <2> QED
      BY <1>2, <2>1, <2>2
  <1>7. ASSUME NEW r \in Request,
               LookupHit(r) \/ Admit(r) \/ Reject(r) \/ FailOpen(r) \/ LookupMiss(r)
                 \/ Generate(r) \/ Receive(r) \/ CallFails(r) \/ Record(r)
                 \/ RecordFails(r) \/ StoreAnswer(r) \/ Return(r)
        PROVE  NoStrandedFollower'
    <2>1. /\ flights' = flights
          /\ \A x \in Request : pc[x] = "wait" \/ pc'[x] = "wait" =>
                pc'[x] = pc[x] /\ source'[x] = source[x]
          /\ \A x \in Request : pc'[x] \in InFlight <=> pc[x] \in InFlight
      BY <1>7 DEF LookupHit, Admit, Reject, FailOpen, LookupMiss, Generate, Receive, CallFails,
                  Record, RecordFails, StoreAnswer, Return
    <2> HIDE DEF Key
    <2> QED
      BY <1>2, <2>1
  <1>8. CASE UNCHANGED <<pc, flights, source>>
    BY <1>2, <1>8
  <1>9. (\E r \in Request : Disconnect(r)) \/ (\E t \in Tenant : CacheExpires(t))
          \/ NextMonth \/ UNCHANGED vars => UNCHANGED <<pc, flights, source>>
    BY DEF Disconnect, CacheExpires, NextMonth, vars, goVars
  <1> QED
    BY <1>3, <1>4, <1>5, <1>6, <1>7, <1>8, <1>9 DEF Next, Ask, Done

\* No follower is ever left behind by a flight: whoever waits, waits for a call
\* in the map whose leader has yet to land it.  Failed calls, departed clients
\* and pod crashes are steps like any other.
THEOREM FollowersNotStranded == Spec => []NoStrandedFollower
  <1>1. Init => NoStrandedFollower
    BY DEF Init, NoStrandedFollower, InFlight, InCall
  <1> QED
    BY <1>1, TypeCorrect, StrandedStep, PTL DEF Spec

-----------------------------------------------------------------------------
\* Where a request stands, what its flight has returned and whether its answer
\* was sold go together.
CallInv ==
  \A r \in Request :
    /\ reply[r] # "none" \/ r \in hits => pc[r] = "done"
    /\ pc[r] \in InFlight => source[r] = r
    /\ pc[r] \in {"wait", "return"} => source[r] \in Request
    /\ pc[r] \in {"sent", "record", "store"} \/ result[r] = "ok" => r \in sold
    /\ pc[r] \in Unbilled \cup {"check", "store"} => result[r] = "none"
    /\ pc[r] = "land" => result[r] # "none"
    /\ pc[r] = "return" => result[source[r]] # "none"

LEMMA CallStep == TypeOK /\ CallInv /\ [Next]_vars => CallInv'
  <1> SUFFICES ASSUME TypeOK, CallInv, [Next]_vars PROVE CallInv'
    OBVIOUS
  <1> USE DEF CallInv, TypeOK, InFlight, InCall, Unbilled, Steps, Results, Goto, Finish
  <1>1. ASSUME NEW r \in Request,
               Admit(r) \/ Reject(r) \/ FailOpen(r) \/ LookupMiss(r)
                 \/ Receive(r) \/ Record(r) \/ RecordFails(r)
        PROVE  CallInv'
    <2>1. UNCHANGED <<source, hits, sold, result>>
      BY <1>1 DEF Admit, Reject, FailOpen, LookupMiss, Receive, Record, RecordFails, providerVars
    <2>2. CASE Admit(r) \/ FailOpen(r) \/ LookupMiss(r)
      <3>1. /\ reply' = reply /\ pc[r] \in {"check", "lookup"}
            /\ pc' = [pc EXCEPT ![r] = "lookup"] \/ pc' = [pc EXCEPT ![r] = "do"]
        BY <2>2 DEF Admit, FailOpen, LookupMiss
      <3> QED
        BY <2>1, <3>1
    <2>3. CASE Receive(r) \/ Record(r) \/ RecordFails(r)
      BY <2>1, <2>3 DEF Receive, Record, RecordFails
    <2>4. CASE Reject(r)
      BY <2>1, <2>4 DEF Reject
    <2> QED
      BY <1>1, <2>2, <2>3, <2>4
  <1>2. ASSUME NEW r \in Request, LookupHit(r) PROVE CallInv'
    <2>1. /\ pc[r] = "lookup" /\ pc' = [pc EXCEPT ![r] = "done"]
          /\ hits' = hits \cup {r} /\ reply' = [reply EXCEPT ![r] = "200"]
          /\ \A x \in Request : x # r => source'[x] = source[x]
          /\ UNCHANGED <<result, sold>>
      BY <1>2 DEF LookupHit, providerVars
    <2> QED
      BY <2>1
  <1>3. ASSUME NEW r \in Request, Join(r) PROVE CallInv'
    <2>1. PICK l \in flights : source' = [source EXCEPT ![r] = l]
      BY <1>3 DEF Join
    <2>2. /\ pc[r] = "do" /\ pc' = [pc EXCEPT ![r] = "wait"]
          /\ UNCHANGED <<hits, result, reply, sold>>
      BY <1>3 DEF Join, providerVars
    <2> QED
      BY <2>1, <2>2
  <1>4. ASSUME NEW r \in Request, Lead(r) PROVE CallInv'
    BY <1>4 DEF Lead, providerVars
  <1>5. ASSUME NEW r \in Request, Generate(r) PROVE CallInv'
    BY <1>5 DEF Generate
  <1>6. ASSUME NEW r \in Request, CallFails(r) PROVE CallInv'
    BY <1>6 DEF CallFails, providerVars
  <1>7. ASSUME NEW r \in Request, StoreAnswer(r) PROVE CallInv'
    BY <1>7 DEF StoreAnswer, providerVars
  <1>8. ASSUME NEW r \in Request, Land(r) PROVE CallInv'
    <2>1. /\ pc[r] = "land" /\ UNCHANGED <<source, hits, result, reply, sold>>
          /\ pc' = [x \in Request |-> IF Releases(r, x) THEN "return" ELSE pc[x]]
      BY <1>8 DEF Land, providerVars
    <2> QED
      BY <2>1 DEF Releases
  <1>9. ASSUME NEW r \in Request, Return(r) PROVE CallInv'
    BY <1>9 DEF Return, providerVars
  <1>10. ASSUME NEW p \in Pod, PodCrash(p) PROVE CallInv'
    <2> DEFINE dying == {r \in Request : req[r].pod = p /\ pc[r] # "done"}
    <2>1. /\ pc' = [r \in Request |-> IF r \in dying THEN "done" ELSE pc[r]]
          /\ reply' = [r \in Request |-> IF r \in dying THEN "dead" ELSE reply[r]]
          /\ UNCHANGED <<source, hits, result, sold>>
      BY <1>10 DEF PodCrash, providerVars
    <2> QED
      BY <2>1
  <1>11. CASE UNCHANGED <<pc, source, hits, sold, result, reply>>
    BY <1>11
  <1>12. (\E r \in Request : Disconnect(r)) \/ (\E t \in Tenant : CacheExpires(t))
           \/ NextMonth \/ UNCHANGED vars
           => UNCHANGED <<pc, source, hits, sold, result, reply>>
    BY DEF Disconnect, CacheExpires, NextMonth, vars, goVars, providerVars
  <1> QED
    BY <1>1, <1>2, <1>3, <1>4, <1>5, <1>6, <1>7, <1>8, <1>9, <1>10, <1>11, <1>12 DEF Next, Ask, Done

\* Where every request stands, in every state.
THEOREM CallCorrect == Spec => []CallInv
  <1>1. Init => CallInv
    BY DEF Init, CallInv, InFlight, InCall, Unbilled
  <1> QED
    BY <1>1, TypeCorrect, CallStep, PTL DEF Spec

\* What is sold stays sold.
LEMMA SoldGrows == [Next]_vars => sold \subseteq sold'
  BY DEF Next, vars, Ask, Done, Admit, Reject, FailOpen, LookupHit, LookupMiss, Join, Lead,
         Generate, Receive, CallFails, Record, RecordFails, StoreAnswer, Land, Return,
         Disconnect, PodCrash, CacheExpires, NextMonth, providerVars
=============================================================================
