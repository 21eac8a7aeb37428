----------------------------- MODULE Answering -----------------------------
(***************************************************************************)
(* What happens inside the upstream call of Gateway: grounding searches    *)
(* the catalogue and builds the prompt, the fallback asks the hosted       *)
(* provider and, if that fails, the stub.  The gateway's actions are taken *)
(* over as they are, except that the one step "call" becomes several; the  *)
(* whole is shown to implement Gateway, which knows none of this.          *)
(***************************************************************************)
EXTENDS GatewayProps

CONSTANTS
  PromptTokens,   \* EstimateTokens of a grounded and of an ungrounded prompt
  AnswerTokens,   \* EstimateTokens of an answer, 0 if the answer is empty
  Reported        \* a token count in the provider's usage field, 0 if missing

Prompts == {"none", "grounded", "bare", "cut"}
Asked   == Prompts \ {"none"}
Errors  == {"none", "failed", "canceled"}
Phases  == {"idle", "search", "send", "out", "failed", "stub"}

\* No prompt is empty: BuildPrompt begins with the instructions.
ASSUME TokensAssumption ==
  /\ PromptTokens \in [Asked -> Nat \ {0}]
  /\ AnswerTokens \subseteq Nat /\ Reported \subseteq Nat
  /\ \A p \in Asked, a \in AnswerTokens, m, n \in Reported \cup {0} :
       (IF m = 0 THEN PromptTokens[p] ELSE m) + (IF n = 0 THEN a ELSE n) \in Tokens

VARIABLES
  phase,     \* phase[r]: how far the call that r leads has come
  prompt,    \* prompt[r]: the prompt sent for r; bare and cut have no products,
             \* because the catalogue gave none or r's own context was cancelled
  err,       \* err[r]: the provider's error, or none
  degraded   \* pods whose Fallback has latched an outage

callVars == <<phase, prompt, err, degraded>>
allVars  == <<vars, callVars>>

Enter(r, step) == phase' = [phase EXCEPT ![r] = step]

InitAnswering ==
  /\ Init
  /\ phase = [r \in Request |-> "idle"]
  /\ prompt = [r \in Request |-> "none"]
  /\ err = [r \in Request |-> "none"]
  /\ degraded = {}

-----------------------------------------------------------------------------
(* Grounding.                                                              *)

LeadCall(r) ==
  /\ Lead(r)
  /\ Enter(r, "search")
  /\ UNCHANGED <<prompt, err, degraded>>

\* A search that fails, or finds nothing because the catalogue is not seeded
\* yet, is answered without products rather than refused.
Ground(r) ==
  /\ phase[r] = "search"
  /\ \/ \E p \in {"grounded", "bare"} : prompt' = [prompt EXCEPT ![r] = p]
     \/ r \in gone /\ prompt' = [prompt EXCEPT ![r] = "cut"]
  /\ Enter(r, "send")
  /\ UNCHANGED <<vars, err, degraded>>

-----------------------------------------------------------------------------
(* The provider's client.                                                  *)

\* Variant: the call is made on a context without cancellation.
MaySendAlways(r) == TRUE

MaySend(r) == r \notin gone

Send(r) ==
  /\ phase[r] = "send" /\ MaySend(r)
  /\ Enter(r, "out")
  /\ UNCHANGED <<vars, prompt, err, degraded>>

\* No request leaves on a dead context; any call may fail to arrive, time out,
\* be refused by the provider or come back without an answer ("failed", however
\* it failed), or be abandoned by its client.
ProviderFails(r) ==
  /\ \/ /\ phase[r] = "send" /\ ~MaySend(r)
        /\ err' = [err EXCEPT ![r] = "canceled"]
     \/ /\ phase[r] = "out"
        /\ \/ err' = [err EXCEPT ![r] = "failed"]
           \/ r \in gone /\ err' = [err EXCEPT ![r] = "canceled"]
  /\ Enter(r, "failed")
  /\ UNCHANGED <<vars, prompt, degraded>>

\* Variant: a count the provider leaves out stays 0.
AsReported(reported, estimate) == reported

Counted(reported, estimate) == IF reported = 0 THEN estimate ELSE reported

\* inner.Ask returns an answer of n tokens to the gateway.
Answered(r, n) ==
  /\ cost' = [cost EXCEPT ![r] = n]
  /\ sold' = sold \cup {r}
  /\ Goto(r, "sent") /\ Enter(r, "idle")
  /\ UNCHANGED <<gone, flights, source, hits, result, reply>>
  /\ UNCHANGED <<redisVars, historyVars, envVars>>

ProviderAnswers(r) ==
  /\ phase[r] = "out"
  /\ \E m, n \in Reported \cup {0}, a \in AnswerTokens :
       Answered(r, Counted(m, PromptTokens[prompt[r]]) + Counted(n, a))
  /\ degraded' = degraded \ {req[r].pod}
  /\ UNCHANGED <<prompt, err>>

-----------------------------------------------------------------------------
(* Fallback.                                                               *)

\* Variant: a swallowed error.
NoError(r) == "ok"

ErrorOf(r) == err[r]

Failed(r) ==
  /\ result' = [result EXCEPT ![r] = ErrorOf(r)]
  /\ Goto(r, "land") /\ Enter(r, "idle")
  /\ UNCHANGED <<gone, flights, source, hits, reply>>
  /\ UNCHANGED <<providerVars, redisVars, historyVars, envVars>>
  /\ UNCHANGED <<prompt, err, degraded>>

\* Variant: only the request that latches the outage falls back.
LivesAndLatches(r) == r \notin gone /\ req[r].pod \notin degraded

FallsBack(r) == r \notin gone

GiveUp(r) == phase[r] = "failed" /\ ~FallsBack(r) /\ Failed(r)

FallBack(r) ==
  /\ phase[r] = "failed" /\ FallsBack(r)
  /\ degraded' = degraded \cup {req[r].pod}
  /\ Enter(r, "stub")
  /\ UNCHANGED <<vars, prompt, err>>

\* The stub's answer is never empty.
StubAnswers(r) ==
  /\ phase[r] = "stub"
  /\ \E a \in AnswerTokens \ {0} : Answered(r, PromptTokens[prompt[r]] + a)
  /\ UNCHANGED <<prompt, err, degraded>>

\* The stub fails only if the client leaves, and the provider's error is returned.
StubCanceled(r) == phase[r] = "stub" /\ r \in gone /\ Failed(r)

-----------------------------------------------------------------------------
\* The pod starts again with nothing latched.
PodDies(p) ==
  /\ PodCrash(p)
  /\ phase' = [r \in Request |-> IF req[r].pod = p THEN "idle" ELSE phase[r]]
  /\ degraded' = degraded \ {p}
  /\ UNCHANGED <<prompt, err>>

\* The steps of the gateway before and after the call.
AroundCall(r) ==
  \/ Admit(r) \/ Reject(r) \/ FailOpen(r)
  \/ LookupHit(r) \/ LookupMiss(r) \/ Join(r)
  \/ Receive(r) \/ Record(r) \/ RecordFails(r) \/ StoreAnswer(r)
  \/ Land(r) \/ Return(r)

InCallStep(r) ==
  \/ Ground(r) \/ Send(r) \/ ProviderFails(r) \/ ProviderAnswers(r)
  \/ GiveUp(r) \/ FallBack(r) \/ StubAnswers(r) \/ StubCanceled(r)

AskGrounded(r) ==
  \/ AroundCall(r) /\ UNCHANGED callVars
  \/ LeadCall(r)
  \/ InCallStep(r)

NextAnswering ==
  \/ \E r \in Request : AskGrounded(r) \/ (Disconnect(r) /\ UNCHANGED callVars)
  \/ \E p \in Pod : PodDies(p)
  \/ \E t \in Tenant : CacheExpires(t) /\ UNCHANGED callVars
  \/ NextMonth /\ UNCHANGED callVars
  \/ Done /\ UNCHANGED callVars

AnsweringSpec == InitAnswering /\ [][NextAnswering]_allVars

\* As in Gateway; the search returns, and the stub answers after its delay.
FairAnswering == AnsweringSpec /\ \A r \in Request : WF_allVars(AskGrounded(r))

-----------------------------------------------------------------------------
(* Properties. *)

AnsweringTypeOK ==
  /\ phase \in [Request -> Phases]
  /\ prompt \in [Request -> Prompts]
  /\ err \in [Request -> Errors]
  /\ degraded \subseteq Pod

\* Whatever grounding, the provider's client and the fallback do, the gateway
\* around them behaves as specified on its own, its fairness included.
ImplementsGateway == FairSpec

\* README.md, "degrades to a local answer rather than returning 502": nobody
\* gets a 502 as long as the client that leads the call stays.
NoBadGateway == \A r \in Request : reply[r] = "502" => source[r] \in gone

\* No answer is bought for nothing, even if the provider reports no usage or the
\* answer is empty: an answer without tokens would not be recorded at all.
NoFreeAnswer == \A r \in sold : cost[r] > 0

\* A client that leaves during the search makes its own prompt ungrounded; no
\* answer to such a prompt is served, nor kept for the tenant's other shoppers.
NoAnswerFromACutSearch ==
  /\ \A r \in Request : reply[r] = "200" => prompt[source[r]] # "cut"
  /\ \A t \in Tenant : \A i \in DOMAIN cache[t] : prompt[cache[t][i]] # "cut"
=============================================================================
