------------------------------ MODULE Gateway ------------------------------
(***************************************************************************)
(* The model gateway (controlplane/gateway): the only route from the API   *)
(* to the model.  A request passes a budget check, a per-tenant answer     *)
(* cache and a coalescer (one singleflight group per API pod) before it    *)
(* buys tokens upstream; the leader of a flight then records the spend,    *)
(* stores the answer and releases its followers.                           *)
(*                                                                         *)
(* Every Redis command, every entry to or exit from the singleflight lock  *)
(* and every crossing of the network to the provider is a step of its own, *)
(* since goroutines of any number of requests and pods run between them.   *)
(***************************************************************************)
EXTENDS Naturals, Sequences, FiniteSets, FiniteSetsExt

CONSTANTS
  Request,     \* the POST /ask requests, each a goroutine of some API pod
  Tenant, Pod, Question,
  Call,        \* the calls that may be made: [tenant, question, pod] records
  Norm,        \* Norm[q]: the text of q with case and white space normalised
  Score,       \* Score[p, q]: cosine similarity of the embeddings of p and q
  Threshold,   \* CACHE_THRESHOLD
  Limit,       \* Limit[t]: tokens tenant t may spend in a month
  CacheCap,    \* CACHE_MAX_ENTRIES
  Tokens,      \* token counts an upstream answer may have
  MaxMonth,    \* bound: calendar months considered
  MaxUpsets,   \* bound: disconnects, Redis errors, cache expiries and pod
               \* crashes considered, in all
  None         \* no request

ASSUME SetsAssumption ==
  /\ Call \subseteq [tenant : Tenant, question : Question, pod : Pod]
  /\ None \notin Request

ASSUME NumbersAssumption ==
  /\ Limit \in [Tenant -> Nat] /\ Tokens \subseteq Nat
  /\ CacheCap \in Nat /\ MaxMonth \in Nat \ {0} /\ MaxUpsets \in Nat
  /\ Threshold \in Nat
  /\ Score \in [Question \X Question -> Nat]

\* Embed lower-cases and splits on white space, as normalise does: questions
\* that normalise alike have the same vector.
ASSUME EmbeddingAssumption ==
  \A p, q, x \in Question : Norm[p] = Norm[q] => Score[x, p] = Score[x, q]

VARIABLES
  req,     \* req[r]: the call request r makes
  pc,      \* pc[r]: the next step of r's goroutine
  gone,    \* requests whose client has disconnected: their ctx is cancelled
  flights, \* leaders whose call is in the singleflight map of their pod
  source,  \* source[r]: the request whose upstream call answers r, or None
  hits,    \* requests answered from the cache
  sold,    \* requests for which the provider generated (and charges) tokens
  cost,    \* cost[r]: tokens of the answer bought for r
  result,  \* result[r]: what the flight that r leads returned
  reply,   \* reply[r]: what handleAsk sent to the client
  used,    \* used[t][m]: the Redis counter budget:t:m
  cache,   \* cache[t]: the Redis list cache:t, as the buyers of its entries
  month,   \* the current calendar month
  upsets,  \* upsets so far
  billed,  \* history: billed[r] is the month r's tokens were recorded in, or 0
  checked, \* history: checked[r] is the month whose counter admitted r, or 0
  peers    \* history: r and the requests of its tenant already past their
           \* check and not recorded when r was admitted

goVars      == <<pc, gone, flights, source, hits, result, reply>>
providerVars == <<sold, cost>>
redisVars   == <<used, cache>>
historyVars == <<billed, checked, peers>>
envVars     == <<req, month, upsets>>
vars == <<goVars, providerVars, redisVars, historyVars, envVars>>

InCall   == {"call", "sent"}
InFlight == InCall \cup {"record", "store", "land"}
Unbilled == {"lookup", "do"} \cup InCall \cup {"record"}
Steps    == {"check", "lookup", "do", "wait", "return", "done"} \cup InFlight
Results  == {"none", "ok", "failed", "canceled"}
Replies  == {"none", "200", "429", "502", "silent", "dead"}

T(r) == req[r].tenant
Q(r) == req[r].question
Goto(r, step) == pc' = [pc EXCEPT ![r] = step]
Finish(r, answer) == Goto(r, "done") /\ reply' = [reply EXCEPT ![r] = answer]

Upset == upsets < MaxUpsets /\ upsets' = upsets + 1

\* A command on the request's own context fails if Redis does, or if the
\* client has gone.
RedisError(r) == Upset \/ (r \in gone /\ UNCHANGED upsets)

\* Variant: the writes run on the request's own context as well.
WriteErrorOfClient(r) == RedisError(r)

\* Record and Store run on context.WithoutCancel: only Redis makes them fail.
WriteError(r) == Upset

Init ==
  /\ req \in [Request -> Call]
  /\ pc = [r \in Request |-> "check"]
  /\ gone = {} /\ flights = {} /\ hits = {} /\ sold = {}
  /\ source = [r \in Request |-> None]
  /\ cost = [r \in Request |-> 0]
  /\ result = [r \in Request |-> "none"]
  /\ reply = [r \in Request |-> "none"]
  /\ used = [t \in Tenant |-> [m \in 1..MaxMonth |-> 0]]
  /\ cache = [t \in Tenant |-> << >>]
  /\ month = 1 /\ upsets = 0
  /\ billed = [r \in Request |-> 0]
  /\ checked = [r \in Request |-> 0]
  /\ peers = [r \in Request |-> {}]

-----------------------------------------------------------------------------
(* Budget.Check: reads the counter of the current month; fails open.       *)

\* Variants: the boundary of the comparison is off by one; the counter is not
\* of the current month alone.
WithinBudgetInclusive(t) == used[t][month] <= Limit[t]
WithinBudgetEver(t) == \A m \in 1..MaxMonth : used[t][m] < Limit[t]

WithinBudget(t) == used[t][month] < Limit[t]

Admit(r) ==
  /\ pc[r] = "check" /\ WithinBudget(T(r))
  /\ Goto(r, "lookup")
  /\ checked' = [checked EXCEPT ![r] = month]
  /\ peers' = [peers EXCEPT ![r] =
                 {r} \cup {x \in Request : T(x) = T(r) /\ pc[x] \in Unbilled}]
  /\ UNCHANGED <<gone, flights, source, hits, result, reply, billed>>
  /\ UNCHANGED <<providerVars, redisVars, envVars>>

Reject(r) ==
  /\ pc[r] = "check" /\ ~WithinBudget(T(r))
  /\ Finish(r, "429")
  /\ UNCHANGED <<gone, flights, source, hits, result>>
  /\ UNCHANGED <<providerVars, redisVars, historyVars, envVars>>

FailOpen(r) ==
  /\ pc[r] = "check" /\ RedisError(r)
  /\ Goto(r, "lookup")
  /\ UNCHANGED <<gone, flights, source, hits, result, reply, req, month>>
  /\ UNCHANGED <<providerVars, redisVars, historyVars>>

-----------------------------------------------------------------------------
(* Cache.Lookup: the best entry of the tenant's list, the newest of equals *)
(* since the scan only replaces its best by a strictly better one.         *)

ScoreOf(r, i) == Score[Q(r), Q(cache[T(r)][i])]

\* Variant: the similarity threshold is not applied.
IsBestOfAny(r, i) == \A j \in DOMAIN cache[T(r)] : ScoreOf(r, j) <= ScoreOf(r, i)

IsBest(r, i) ==
  /\ \A j \in DOMAIN cache[T(r)] :
       /\ ScoreOf(r, j) <= ScoreOf(r, i)
       /\ j < i => ScoreOf(r, j) < ScoreOf(r, i)
  /\ ScoreOf(r, i) > 0 /\ ScoreOf(r, i) >= Threshold

LookupHit(r) ==
  /\ pc[r] = "lookup"
  /\ \E i \in DOMAIN cache[T(r)] :
       /\ IsBest(r, i)
       /\ source' = [source EXCEPT ![r] = cache[T(r)][i]]
  /\ hits' = hits \cup {r}
  /\ Finish(r, "200")
  /\ UNCHANGED <<gone, flights, result>>
  /\ UNCHANGED <<providerVars, redisVars, historyVars, envVars>>

LookupMiss(r) ==
  /\ pc[r] = "lookup"
  /\ \/ RedisError(r)
     \/ (\A i \in DOMAIN cache[T(r)] : ~IsBest(r, i)) /\ UNCHANGED upsets
  /\ Goto(r, "do")
  /\ UNCHANGED <<gone, flights, source, hits, result, reply, req, month>>
  /\ UNCHANGED <<providerVars, redisVars, historyVars>>

-----------------------------------------------------------------------------
(* group.Do: join the flight under the request's key, or lead a new one.   *)

\* Variant: flights keyed by the prompt alone.
KeyOfPrompt(r) == <<req[r].pod, Norm[Q(r)]>>

Key(r) == <<req[r].pod, T(r), Norm[Q(r)]>>

\* Variant: a call that has come back no longer counts as in flight.
NoCallOut(r) == \A l \in flights : pc[l] \in InCall => Key(l) # Key(r)

NoFlight(r) == \A l \in flights : Key(l) # Key(r)

Join(r) ==
  /\ pc[r] = "do"
  /\ \E l \in flights : Key(l) = Key(r) /\ source' = [source EXCEPT ![r] = l]
  /\ Goto(r, "wait")
  /\ UNCHANGED <<gone, flights, hits, result, reply>>
  /\ UNCHANGED <<providerVars, redisVars, historyVars, envVars>>

Lead(r) ==
  /\ pc[r] = "do" /\ NoFlight(r)
  /\ flights' = flights \cup {r}
  /\ source' = [source EXCEPT ![r] = r]
  /\ Goto(r, "call")
  /\ UNCHANGED <<gone, hits, result, reply>>
  /\ UNCHANGED <<providerVars, redisVars, historyVars, envVars>>

-----------------------------------------------------------------------------
(* inner.Ask, on the leader's own context.                                 *)

\* The provider generates the answer: from here on its tokens are charged.
Generate(r) ==
  /\ pc[r] = "call"
  /\ \E n \in Tokens : cost' = [cost EXCEPT ![r] = n]
  /\ sold' = sold \cup {r}
  /\ Goto(r, "sent")
  /\ UNCHANGED <<gone, flights, source, hits, result, reply>>
  /\ UNCHANGED <<redisVars, historyVars, envVars>>

Receive(r) ==
  /\ pc[r] = "sent"
  /\ Goto(r, "record")
  /\ UNCHANGED <<gone, flights, source, hits, result, reply>>
  /\ UNCHANGED <<providerVars, redisVars, historyVars, envVars>>

\* The call fails: the provider or the network (a timeout included), or the
\* leader's client has gone and the call returns context.Canceled.
CallFails(r) ==
  /\ pc[r] \in InCall
  /\ \/ result' = [result EXCEPT ![r] = "failed"]
     \/ (r \in gone /\ result' = [result EXCEPT ![r] = "canceled"])
  /\ Goto(r, "land")
  /\ UNCHANGED <<gone, flights, source, hits, reply>>
  /\ UNCHANGED <<providerVars, redisVars, historyVars, envVars>>

-----------------------------------------------------------------------------
(* The leader's accounting, errors of which are discarded.                 *)

\* Variants: the counter is overwritten; the counter is not per tenant.
SpendOverwrites(t, n) == used' = [used EXCEPT ![t][month] = n]
SpendForAll(t, n) == used' = [x \in Tenant |-> [used[x] EXCEPT ![month] = @ + n]]

Spend(t, n) == used' = [used EXCEPT ![t][month] = @ + n]

Record(r) ==
  /\ pc[r] = "record"
  /\ Spend(T(r), cost[r])
  /\ billed' = [billed EXCEPT ![r] = month]
  /\ Goto(r, "store")
  /\ UNCHANGED <<gone, flights, source, hits, result, reply, cache, checked, peers>>
  /\ UNCHANGED <<providerVars, envVars>>

RecordFails(r) ==
  /\ pc[r] = "record" /\ WriteError(r)
  /\ Goto(r, "store")
  /\ UNCHANGED <<gone, flights, source, hits, result, reply, req, month>>
  /\ UNCHANGED <<providerVars, redisVars, historyVars>>

\* LTRIM 0 CacheCap-1: with a cap of 0 the range 0 -1 keeps the whole list.
\* Variant: LTRIM 0 CacheCap, which keeps one entry too many.
TrimInclusive(s) == IF CacheCap + 1 < Len(s) THEN SubSeq(s, 1, CacheCap + 1) ELSE s

Trim(s) == IF 0 < CacheCap /\ CacheCap < Len(s) THEN SubSeq(s, 1, CacheCap) ELSE s

StoreAnswer(r) ==
  /\ pc[r] = "store"
  /\ \/ cache' = [cache EXCEPT ![T(r)] = Trim(<<r>> \o @)] /\ UNCHANGED upsets
     \/ WriteError(r) /\ UNCHANGED cache
  /\ result' = [result EXCEPT ![r] = "ok"]
  /\ Goto(r, "land")
  /\ UNCHANGED <<gone, flights, source, hits, reply, used, req, month>>
  /\ UNCHANGED <<providerVars, historyVars>>

\* Variants: a follower whose client has gone is skipped; only the leader goes on.
ReleasesLive(r, x) == x = r \/ (pc[x] = "wait" /\ source[x] = r /\ x \notin gone)
ReleasesLeader(r, x) == x = r

Releases(r, x) == x = r \/ (pc[x] = "wait" /\ source[x] = r)

\* singleflight's doCall ends: the call leaves the map and everyone waiting
\* on it, the leader included, goes on with its result.
Land(r) ==
  /\ pc[r] = "land"
  /\ flights' = flights \ {r}
  /\ pc' = [x \in Request |-> IF Releases(r, x) THEN "return" ELSE pc[x]]
  /\ UNCHANGED <<gone, source, hits, result, reply>>
  /\ UNCHANGED <<providerVars, redisVars, historyVars, envVars>>

\* Variants: the result is passed on as it is; the error is not looked at.
ReplyRaw(res) == res
ReplyAlways(res) == "200"

\* The rest of Ask and of handleAsk: the answer, or nothing at all if the
\* error is context.Canceled, or 502.
ReplyTo(res) == CASE res = "ok" -> "200" [] res = "canceled" -> "silent" [] OTHER -> "502"

Return(r) ==
  /\ pc[r] = "return"
  /\ Finish(r, ReplyTo(result[source[r]]))
  /\ UNCHANGED <<gone, flights, source, hits, result>>
  /\ UNCHANGED <<providerVars, redisVars, historyVars, envVars>>

-----------------------------------------------------------------------------
(* The environment.                                                        *)

Disconnect(r) ==
  /\ r \notin gone /\ pc[r] # "done" /\ Upset
  /\ gone' = gone \cup {r}
  /\ UNCHANGED <<pc, flights, source, hits, result, reply, req, month>>
  /\ UNCHANGED <<providerVars, redisVars, historyVars>>

PodCrash(p) ==
  LET dying == {r \in Request : req[r].pod = p /\ pc[r] # "done"} IN
  /\ dying # {} /\ Upset
  /\ pc' = [r \in Request |-> IF r \in dying THEN "done" ELSE pc[r]]
  /\ reply' = [r \in Request |-> IF r \in dying THEN "dead" ELSE reply[r]]
  /\ flights' = flights \ dying
  /\ UNCHANGED <<gone, source, hits, result, req, month>>
  /\ UNCHANGED <<providerVars, redisVars, historyVars>>

\* Every Store renews the time to live of the whole list.
CacheExpires(t) ==
  /\ cache[t] # << >> /\ Upset
  /\ cache' = [cache EXCEPT ![t] = << >>]
  /\ UNCHANGED <<used, goVars, providerVars, historyVars, req, month>>

NextMonth ==
  /\ month < MaxMonth /\ month' = month + 1
  /\ UNCHANGED <<req, upsets, goVars, providerVars, redisVars, historyVars>>

-----------------------------------------------------------------------------
Ask(r) ==
  \/ Admit(r) \/ Reject(r) \/ FailOpen(r)
  \/ LookupHit(r) \/ LookupMiss(r)
  \/ Join(r) \/ Lead(r)
  \/ Generate(r) \/ Receive(r) \/ CallFails(r)
  \/ Record(r) \/ RecordFails(r) \/ StoreAnswer(r)
  \/ Land(r) \/ Return(r)

Done == (\A r \in Request : pc[r] = "done") /\ UNCHANGED vars

Next ==
  \/ \E r \in Request : Ask(r) \/ Disconnect(r)
  \/ \E p \in Pod : PodCrash(p)
  \/ \E t \in Tenant : CacheExpires(t)
  \/ NextMonth
  \/ Done

Spec == Init /\ [][Next]_vars

\* Goroutines are scheduled, Redis commands return, and the HTTP client of the
\* model call has a timeout (MODEL_TIMEOUT): no step of a request waits forever.
FairSpec == Spec /\ \A r \in Request : WF_vars(Ask(r))
=============================================================================
