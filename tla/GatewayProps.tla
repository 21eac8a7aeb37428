---------------------------- MODULE GatewayProps ----------------------------
(***************************************************************************)
(* What the model gateway promises, kept apart from how it works.          *)
(***************************************************************************)
EXTENDS Gateway, Functions

TypeOK ==
  /\ req \in [Request -> Call]
  /\ pc \in [Request -> Steps]
  /\ gone \subseteq Request /\ flights \subseteq Request
  /\ hits \subseteq Request /\ sold \subseteq Request
  /\ source \in [Request -> Request \cup {None}]
  /\ cost \in [Request -> Nat]
  /\ result \in [Request -> Results]
  /\ reply \in [Request -> Replies]
  /\ used \in [Tenant -> [1..MaxMonth -> Nat]]
  /\ cache \in [Tenant -> Seq(Request)]
  /\ month \in 1..MaxMonth
  /\ upsets \in 0..MaxUpsets
  /\ billed \in [Request -> 0..MaxMonth]
  /\ checked \in [Request -> 0..MaxMonth]
  /\ peers \in [Request -> SUBSET Request]

-----------------------------------------------------------------------------
(* Answers. *)

\* At any moment one pod has at most one upstream call in flight for a tenant's
\* normalised prompt, however many requests ask it (gateway.go, "collapses
\* identical prompts"): the map of singleflight never holds two.
OneCallPerPrompt ==
  \A k, l \in flights :
    (/\ req[k].pod = req[l].pod /\ T(k) = T(l)
     /\ Norm[Q(k)] = Norm[Q(l)]) => k = l

\* No request takes its answer from a call another tenant paid for, whether it
\* joins that call or finds its answer in the cache; nor does a tenant's cache
\* ever hold such an answer.
TenantIsolation ==
  /\ \A r \in Request : source[r] # None => T(source[r]) = T(r)
  /\ \A t \in Tenant : \A i \in DOMAIN cache[t] : T(cache[t][i]) = t

\* A coalesced request shares the answer to its own prompt, up to white space
\* and case, and that of its own pod; a cached answer is to a question at
\* least Threshold similar.
AnswerMatchesQuestion ==
  \A r \in Request : source[r] # None =>
    IF r \in hits
      THEN Score[Q(r), Q(source[r])] >= Threshold
      ELSE Norm[Q(r)] = Norm[Q(source[r])] /\ req[r].pod = req[source[r]].pod

\* Everyone waiting waits for a call that is still in its pod's map and whose
\* leader is still on its way to land it; nothing stays in the map otherwise.
NoStrandedFollower ==
  /\ flights = {r \in Request : pc[r] \in InFlight}
  /\ \A r \in Request : pc[r] = "wait" => source[r] \in flights /\ Key(source[r]) = Key(r)

\* The tenant's list never holds more than the cap ("a fixed cap bounds both
\* memory and the cost of the linear scan"), and no answer twice.
CacheBounded ==
  \A t \in Tenant :
    /\ CacheCap > 0 => Len(cache[t]) <= CacheCap
    /\ \A i, j \in DOMAIN cache[t] : cache[t][i] = cache[t][j] => i = j

\* Every answer a request is given, and every answer a cache holds, was bought by
\* a call that succeeded: nobody gets that of a call which failed or was
\* cancelled, though the provider may have generated it, nor one not yet received.
AnswersWereBought ==
  LET Bought == {x \in sold : result[x] = "ok"} IN
  /\ \A r \in Request : reply[r] = "200" => source[r] \in Bought
  /\ \A t \in Tenant : \A i \in DOMAIN cache[t] : cache[t][i] \in Bought

-----------------------------------------------------------------------------
(* Money. *)

Succeeded == {r \in Request : result[r] = "ok"}
CostOf(S) == SumFunctionOnSet(cost, S)
BilledIn(t, m) == {r \in Request : T(r) = t /\ billed[r] = m}

\* The month's counter is the cost of the tenant's calls recorded in it: each
\* was sold to a leader and is counted once; followers and hits count nothing.
LedgerExact ==
  /\ \A t \in Tenant, m \in 1..MaxMonth : used[t][m] = CostOf(BilledIn(t, m))
  /\ \A r \in Request : billed[r] # 0 => r \in sold /\ source[r] = r /\ r \notin hits

\* Each received answer that stays off the bill is owed to a failed write of
\* Redis of its own, never to a client's departure, which is an upset itself: as
\* far as received answers go, no tenant can "escape its budget by cancelling"
\* (gateway.go, of the context that Record and Store run on).
UnbilledOnlyByRedis ==
  Cardinality(gone) + Cardinality({r \in Succeeded : billed[r] = 0}) <= upsets

\* The counter passes the limit only by calls under way at the same time: take
\* away the calls that had passed their check, and were not yet recorded, when
\* some billed call passed its own, and what is left is below the limit.  The
\* exceptions are a call admitted by a failed read of Redis and one admitted
\* against the counter of an earlier month.
OvershootIsConcurrent ==
  \A t \in Tenant, m \in 1..MaxMonth :
    used[t][m] >= Limit[t] /\ Limit[t] > 0 =>
      \E a \in BilledIn(t, m) :
        \/ checked[a] # m
        \/ CostOf(BilledIn(t, m) \ peers[a]) < Limit[t]

\* A tenant is turned away only for what it bought itself: the provider has
\* sold it at least its limit.  No other tenant's spending exhausts it.
RejectionIsEarned ==
  \A r \in Request : reply[r] = "429" =>
    CostOf({x \in sold : T(x) = T(r)}) >= Limit[T(r)]

-----------------------------------------------------------------------------
(* The gateway as its tenants see it. *)

Outcome == [r \in Request |->
  CASE reply[r] = "none" -> "open" [] reply[r] = "200" -> "answered"
    [] reply[r] = "429" -> "refused" [] OTHER -> "closed"]
TenantOf == [r \in Request |-> T(r)]
AnswerTo == [r \in Request |-> IF reply[r] = "200" THEN source[r] ELSE None]
OnBill == {r \in Request : billed[r] # 0}

Metered == INSTANCE MeteredService WITH
  tenant <- TenantOf, outcome <- Outcome, answer <- AnswerTo, bought <- sold,
  price <- cost, ready <- Succeeded, charged <- OnBill, bill <- used,
  Price <- Tokens, Nobody <- None

\* Whatever checks, caches, flights, failures and crashes lie between, tenants
\* see a metered service: each request ends once, an answer was bought by the
\* same tenant and is the buyer's own if it bought one, a purchase is charged at
\* most once, at its price and before its answer is out, and 429 is given only
\* while the bill stands at the limit.
ImplementsMetered == Metered!Spec

-----------------------------------------------------------------------------
(* Liveness. *)

\* Every request is answered, refused or closed: no client's departure, pod
\* crash, upstream failure or Redis error leaves a follower waiting.
EveryRequestEnds == \A r \in Request : <>(pc[r] = "done")

-----------------------------------------------------------------------------
(* Statements of the repository's comments that the code does not meet.    *)

\* budget.go: "Overshooting by at most one response".  Stated for a month none
\* of whose calls was admitted by a failed read or in an earlier month.
OvershootAtMostOneResponse ==
  \A t \in Tenant, m \in 1..MaxMonth :
    (\A r \in BilledIn(t, m) : checked[r] = m) =>
      \E r \in Request : used[t][m] <= Limit[t] + cost[r]

\* gateway.go: "If the original request is cancelled mid-flight, the tokens
\* were still bought and must still be billed".
CancelledCallIsBilled ==
  \A r \in Request :
    r \in sold /\ result[r] = "canceled" /\ pc[r] = "done" => billed[r] # 0

\* api/main.go, handleAsk: "A cancelled request is the client's decision": a
\* request is dropped without an answer only if its own client left.
SilentOnlyIfOwnClientLeft == \A r \in Request : reply[r] = "silent" => r \in gone
=============================================================================
