--------------------------- MODULE MeteredService ---------------------------
(***************************************************************************)
(* What a metered answering service promises its tenants, whatever stands  *)
(* between them and the provider: a request ends once and for good; an     *)
(* answer was bought by a request of the same tenant, and whoever bought   *)
(* gets what it bought; a purchase is charged to its buyer's tenant in one *)
(* month, at the price of the sale, at most once and before anybody has    *)
(* the answer, or never; nothing else moves a bill; and a tenant is only   *)
(* refused while its bill of the month stands at its limit.                *)
(*                                                                         *)
(* It says nothing of how often the same question is bought, of how far a  *)
(* bill passes its limit, or of why a request is closed without an answer. *)
(***************************************************************************)
EXTENDS Naturals

CONSTANTS
  Request, Tenant,
  Price,     \* the prices an answer may have
  Limit,     \* Limit[t]: what tenant t may spend in a month
  MaxMonth,  \* bound: months considered
  Nobody     \* no request

VARIABLES
  tenant,   \* tenant[r]: whose request r is
  outcome,  \* outcome[r]: "open", "answered", "refused" or "closed"
  answer,   \* answer[r]: the request whose purchase answers r, or Nobody
  bought,   \* requests for which an answer was bought
  price,    \* price[r]: the price of what was bought for r
  ready,    \* purchases that may be handed out
  charged,  \* purchases that are on a bill
  bill,     \* bill[t][m]: the bill of tenant t for month m
  month

meteredVars == <<tenant, outcome, answer, bought, price, ready, charged, bill, month>>

Open(r) == outcome[r] = "open"
End(r, how) == outcome' = [outcome EXCEPT ![r] = how]

Init ==
  /\ tenant \in [Request -> Tenant]
  /\ outcome = [r \in Request |-> "open"]
  /\ answer = [r \in Request |-> Nobody]
  /\ bought = {} /\ ready = {} /\ charged = {}
  /\ price = [r \in Request |-> 0]
  /\ bill = [t \in Tenant |-> [m \in 1..MaxMonth |-> 0]]
  /\ month = 1

Refuse(r) ==
  /\ Open(r) /\ r \notin bought
  /\ bill[tenant[r]][month] >= Limit[tenant[r]]
  /\ End(r, "refused")
  /\ UNCHANGED <<tenant, answer, bought, price, ready, charged, bill, month>>

Buy(r) ==
  /\ Open(r) /\ r \notin bought
  /\ bought' = bought \cup {r}
  /\ \E p \in Price : price' = [price EXCEPT ![r] = p]
  /\ UNCHANGED <<tenant, outcome, answer, ready, charged, bill, month>>

Charge(r) ==
  /\ Open(r) /\ r \in bought \ (charged \cup ready)
  /\ charged' = charged \cup {r}
  /\ bill' = [bill EXCEPT ![tenant[r]][month] = @ + price[r]]
  /\ UNCHANGED <<tenant, outcome, answer, bought, price, ready, month>>

Release(r) ==
  /\ Open(r) /\ r \in bought \ ready
  /\ ready' = ready \cup {r}
  /\ UNCHANGED <<tenant, outcome, answer, bought, price, charged, bill, month>>

Answer(r) ==
  /\ Open(r) /\ End(r, "answered")
  /\ \E x \in ready :
       /\ tenant[x] = tenant[r]
       /\ r \in bought => x = r
       /\ answer' = [answer EXCEPT ![r] = x]
  /\ UNCHANGED <<tenant, bought, price, ready, charged, bill, month>>

\* Requests may be given up at any moment, several at once.
Close(S) ==
  /\ S # {} /\ \A r \in S : Open(r)
  /\ outcome' = [r \in Request |-> IF r \in S THEN "closed" ELSE outcome[r]]
  /\ UNCHANGED <<tenant, answer, bought, price, ready, charged, bill, month>>

NewMonth ==
  /\ month < MaxMonth /\ month' = month + 1
  /\ UNCHANGED <<tenant, outcome, answer, bought, price, ready, charged, bill>>

Next ==
  \/ NewMonth
  \/ \E r \in Request : Refuse(r) \/ Buy(r) \/ Charge(r) \/ Release(r) \/ Answer(r)
  \/ \E S \in SUBSET Request : Close(S)

Spec == Init /\ [][Next]_meteredVars
=============================================================================
