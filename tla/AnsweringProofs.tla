-------------------------- MODULE AnsweringProofs --------------------------
(***************************************************************************)
(* Every behaviour of Answering is one of Gateway, so the theorems about   *)
(* the gateway hold with grounding, the provider and the fallback below    *)
(* it; and what these add.                                                 *)
(***************************************************************************)
EXTENDS Answering, GatewayAnswerProofs

\* A call is in a phase only while the gateway waits for it; it has a prompt
\* once the catalogue was searched and an error once the provider has failed;
\* a prompt cut short is never sent nor answered.
PhaseInv ==
  \A r \in Request :
    /\ phase[r] # "idle" => pc[r] = "call"
    /\ phase[r] \in {"send", "out", "failed", "stub"} => prompt[r] \in Asked
    /\ phase[r] \in {"failed", "stub"} => err[r] # "none"
    /\ prompt[r] = "cut" => r \in gone /\ phase[r] \notin {"out", "stub"}
    /\ r \in sold => prompt[r] # "cut" /\ pc[r] \notin {"check", "lookup", "do", "call"}

LEMMA TypeOfAnswering ==
  TypeOK /\ AnsweringTypeOK /\ [NextAnswering]_allVars => AnsweringTypeOK'
  <1> SUFFICES ASSUME TypeOK, AnsweringTypeOK, [NextAnswering]_allVars PROVE AnsweringTypeOK'
    OBVIOUS
  <1>0. \A r \in Request : req[r].pod \in Pod
    BY SetsAssumption DEF TypeOK
  <1> USE DEF AnsweringTypeOK, Phases, Prompts, Errors, Enter
  <1>1. ASSUME NEW r \in Request, InCallStep(r) \/ LeadCall(r) PROVE AnsweringTypeOK'
    BY <1>0, <1>1 DEF InCallStep, LeadCall, Ground, Send, ProviderFails, ProviderAnswers, GiveUp,
       FallBack, StubAnswers, StubCanceled, Answered, Failed
  <1>2. ASSUME NEW p \in Pod, PodDies(p) PROVE AnsweringTypeOK'
    BY <1>2 DEF PodDies
  <1>3. CASE UNCHANGED callVars
    BY <1>3 DEF callVars
  <1> QED
    BY <1>1, <1>2, <1>3 DEF NextAnswering, AskGrounded, allVars

\* A step inside the call is one the gateway knows as Generate or CallFails, or
\* one it does not see.
LEMMA CallRefines ==
  ASSUME TypeOK, AnsweringTypeOK, PhaseInv, NEW r \in Request, InCallStep(r)
  PROVE  Generate(r) \/ CallFails(r) \/ UNCHANGED vars
  <1>1. CASE Ground(r) \/ Send(r) \/ ProviderFails(r) \/ FallBack(r)
    BY <1>1 DEF Ground, Send, ProviderFails, FallBack
  <1>2. ASSUME NEW n \in Tokens, Answered(r, n), pc[r] = "call" PROVE Generate(r)
    BY <1>2 DEF Answered, Generate
  <1>3. CASE ProviderAnswers(r)
    <2>1. PICK m, n \in Reported \cup {0}, a \in AnswerTokens :
             Answered(r, Counted(m, PromptTokens[prompt[r]]) + Counted(n, a))
      BY <1>3 DEF ProviderAnswers
    <2>2. pc[r] = "call" /\ prompt[r] \in Asked
      BY <1>3 DEF ProviderAnswers, PhaseInv
    <2>3. Counted(m, PromptTokens[prompt[r]]) + Counted(n, a) \in Tokens
      BY <2>2, TokensAssumption DEF Counted
    <2> QED
      BY <1>2, <2>1, <2>2, <2>3
  <1>4. CASE StubAnswers(r)
    <2>1. PICK a \in AnswerTokens \ {0} : Answered(r, PromptTokens[prompt[r]] + a)
      BY <1>4 DEF StubAnswers
    <2>2. pc[r] = "call" /\ prompt[r] \in Asked
      BY <1>4 DEF StubAnswers, PhaseInv
    <2>3. PromptTokens[prompt[r]] + a \in Tokens
      BY <2>2, TokensAssumption
    <2> QED
      BY <1>2, <2>1, <2>2, <2>3
  <1>5. CASE GiveUp(r) \/ StubCanceled(r)
    <2>1. pc[r] = "call" /\ err[r] \in {"failed", "canceled"} /\ r \in gone /\ Failed(r)
      BY <1>5 DEF GiveUp, StubCanceled, FallsBack, PhaseInv, AnsweringTypeOK, Errors
    <2> QED
      BY <2>1 DEF Failed, ErrorOf, CallFails, InCall
  <1> QED
    BY <1>1, <1>3, <1>4, <1>5 DEF InCallStep

LEMMA StepRefines ==
  ASSUME TypeOK, AnsweringTypeOK, PhaseInv, [NextAnswering]_allVars
  PROVE  [Next]_vars
  <1>1. ASSUME NEW r \in Request, InCallStep(r) PROVE [Next]_vars
    BY <1>1, CallRefines DEF Next, Ask
  <1>2. ASSUME NEW r \in Request, AroundCall(r) \/ LeadCall(r) PROVE [Next]_vars
    BY <1>2 DEF AroundCall, LeadCall, Next, Ask
  <1>3. ASSUME NEW p \in Pod, PodDies(p) PROVE [Next]_vars
    BY <1>3 DEF PodDies, Next
  <1> QED
    BY <1>1, <1>2, <1>3 DEF NextAnswering, AskGrounded, allVars, Next

LEMMA PhaseStep ==
  TypeOK /\ AnsweringTypeOK /\ PhaseInv /\ [NextAnswering]_allVars => PhaseInv'
  <1> SUFFICES ASSUME TypeOK, AnsweringTypeOK, PhaseInv, [NextAnswering]_allVars PROVE PhaseInv'
    OBVIOUS
  <1> USE DEF PhaseInv, TypeOK, AnsweringTypeOK, Enter, Goto, Finish
  <1>1. ASSUME NEW r \in Request, Ground(r) \/ Send(r) \/ ProviderFails(r) \/ FallBack(r)
        PROVE  PhaseInv'
    <2>1. UNCHANGED <<pc, gone, sold>>
      BY <1>1 DEF Ground, Send, ProviderFails, FallBack, vars, goVars, providerVars
    <2>2. CASE Ground(r)
      BY <2>1, <2>2 DEF Ground, Asked, Prompts
    <2>3. CASE Send(r)
      BY <2>1, <2>3 DEF Send, MaySend
    <2>4. CASE ProviderFails(r)
      BY <2>1, <2>4 DEF ProviderFails
    <2>5. CASE FallBack(r)
      BY <2>1, <2>5 DEF FallBack, FallsBack
    <2> QED
      BY <1>1, <2>2, <2>3, <2>4, <2>5
  <1>2. ASSUME NEW r \in Request, ProviderAnswers(r) \/ StubAnswers(r) PROVE PhaseInv'
    <2>1. /\ phase[r] \in {"out", "stub"} /\ phase' = [phase EXCEPT ![r] = "idle"]
          /\ pc' = [pc EXCEPT ![r] = "sent"] /\ sold' = sold \cup {r}
          /\ UNCHANGED <<gone, prompt, err>>
      BY <1>2 DEF ProviderAnswers, StubAnswers, Answered
    <2> QED
      BY <2>1
  <1>3. ASSUME NEW r \in Request, GiveUp(r) \/ StubCanceled(r) PROVE PhaseInv'
    <2>1. /\ phase' = [phase EXCEPT ![r] = "idle"] /\ pc' = [pc EXCEPT ![r] = "land"]
          /\ UNCHANGED <<gone, sold, prompt, err>>
      BY <1>3 DEF GiveUp, StubCanceled, Failed, providerVars
    <2> QED
      BY <2>1
  <1>4. ASSUME NEW r \in Request, LeadCall(r) PROVE PhaseInv'
    BY <1>4 DEF LeadCall, Lead, providerVars
  <1>5. ASSUME NEW r \in Request, AroundCall(r), UNCHANGED callVars PROVE PhaseInv'
    <2>1. UNCHANGED <<gone, sold, phase, prompt, err>>
      BY <1>5 DEF AroundCall, Admit, Reject, FailOpen, LookupHit, LookupMiss, Join, Receive,
         Record, RecordFails, StoreAnswer, Land, Return, providerVars, callVars
    <2>2. \A x \in Request :
             \/ pc'[x] = pc[x]
             \/ pc[x] # "call" /\ pc'[x] \in Steps \ {"check", "lookup", "do", "call"}
             \/ pc[x] \in {"check", "lookup", "do"} /\ pc'[x] # "call"
      BY <1>5 DEF AroundCall, Admit, Reject, FailOpen, LookupHit, LookupMiss, Join, Receive,
         Record, RecordFails, StoreAnswer, Land, Releases, Return, Steps, InFlight, InCall
    <2> QED
      BY <2>1, <2>2
  <1>6. ASSUME NEW p \in Pod, PodDies(p) PROVE PhaseInv'
    <2>1. /\ pc' = [x \in Request |-> IF req[x].pod = p /\ pc[x] # "done" THEN "done" ELSE pc[x]]
          /\ UNCHANGED <<gone, sold>>
      BY <1>6 DEF PodDies, PodCrash, providerVars
    <2>2. /\ phase' = [x \in Request |-> IF req[x].pod = p THEN "idle" ELSE phase[x]]
          /\ UNCHANGED <<prompt, err>>
      BY <1>6 DEF PodDies
    <2> QED
      BY <2>1, <2>2
  <1>7. ASSUME NEW r \in Request, Disconnect(r), UNCHANGED callVars PROVE PhaseInv'
    BY <1>7 DEF Disconnect, callVars, providerVars
  <1>8. CASE UNCHANGED <<pc, gone, sold, phase, prompt, err>>
    BY <1>8
  <1>9. UNCHANGED vars \/ (\E t \in Tenant : CacheExpires(t)) \/ NextMonth
          => UNCHANGED <<pc, gone, sold>>
    BY DEF vars, CacheExpires, NextMonth, goVars, providerVars
  <1> QED
    BY <1>1, <1>2, <1>3, <1>4, <1>5, <1>6, <1>7, <1>8, <1>9
       DEF NextAnswering, AskGrounded, InCallStep, Done, allVars, callVars

AnsweringInv == TypeOK /\ AnsweringTypeOK /\ PhaseInv

LEMMA AnsweringInit == InitAnswering => AnsweringInv
  BY TypeInit DEF InitAnswering, Init, AnsweringInv, AnsweringTypeOK, PhaseInv, Phases, Prompts, Errors

LEMMA AnsweringStep == AnsweringInv /\ [NextAnswering]_allVars => AnsweringInv' /\ [Next]_vars
  BY TypeStep, TypeOfAnswering, PhaseStep, StepRefines DEF AnsweringInv

\* Grounding, provider and fallback together are a correct upstream of the
\* gateway: its specification, and so every safety theorem about it, holds.
THEOREM AnsweringImplementsGateway == AnsweringSpec => Spec /\ []AnsweringInv
  <1>1. InitAnswering => Init
    BY DEF InitAnswering
  <1> QED
    BY <1>1, AnsweringInit, AnsweringStep, PTL DEF AnsweringSpec, Spec

-----------------------------------------------------------------------------
\* A client that leaves during the search of its own question poisons nobody's
\* cache and nobody's answer.
THEOREM CutSearchesNotServed == AnsweringSpec => []NoAnswerFromACutSearch
  <1>1. TypeOK /\ CallInv /\ AnsweringInv /\ AnswersWereBought => NoAnswerFromACutSearch
    <2> SUFFICES ASSUME TypeOK, CallInv, AnsweringInv, AnswersWereBought
                 PROVE  NoAnswerFromACutSearch
      OBVIOUS
    <2>1. \A r \in sold : prompt[r] # "cut"
      BY DEF AnsweringInv, PhaseInv, TypeOK
    <2> QED
      BY <2>1 DEF AnswersWereBought, NoAnswerFromACutSearch
  <1> QED
    BY <1>1, AnsweringImplementsGateway, TypeCorrect, CallCorrect, AnswersBought, PTL

-----------------------------------------------------------------------------
LEMMA FreeStep == AnsweringInv /\ NoFreeAnswer /\ [NextAnswering]_allVars => NoFreeAnswer'
  <1> SUFFICES ASSUME AnsweringInv, NoFreeAnswer, [NextAnswering]_allVars PROVE NoFreeAnswer'
    OBVIOUS
  <1>1. ASSUME NEW r \in Request, NEW n \in Nat \ {0}, Answered(r, n) PROVE NoFreeAnswer'
    BY <1>1 DEF Answered, NoFreeAnswer, AnsweringInv, TypeOK
  <1>2. ASSUME NEW r \in Request, ProviderAnswers(r) PROVE NoFreeAnswer'
    <2>1. PICK m, n \in Reported \cup {0}, a \in AnswerTokens :
             Answered(r, Counted(m, PromptTokens[prompt[r]]) + Counted(n, a))
      BY <1>2 DEF ProviderAnswers
    <2>2. PromptTokens[prompt[r]] \in Nat \ {0}
      BY <1>2, TokensAssumption DEF ProviderAnswers, AnsweringInv, PhaseInv
    <2>3. Counted(m, PromptTokens[prompt[r]]) + Counted(n, a) \in Nat \ {0}
      BY <2>2, TokensAssumption DEF Counted
    <2> QED
      BY <1>1, <2>1, <2>3
  <1>3. ASSUME NEW r \in Request, StubAnswers(r) PROVE NoFreeAnswer'
    <2>1. PICK a \in AnswerTokens \ {0} : Answered(r, PromptTokens[prompt[r]] + a)
      BY <1>3 DEF StubAnswers
    <2>2. PromptTokens[prompt[r]] \in Nat \ {0} /\ a \in Nat
      BY <1>3, TokensAssumption DEF StubAnswers, AnsweringInv, PhaseInv
    <2>3. PromptTokens[prompt[r]] + a \in Nat \ {0}
      BY <2>2
    <2> QED
      BY <1>1, <2>1, <2>3
  <1>4. CASE UNCHANGED providerVars
    BY <1>4 DEF providerVars, NoFreeAnswer
  <1>5. ASSUME NEW r \in Request,
               Ground(r) \/ Send(r) \/ ProviderFails(r) \/ FallBack(r) \/ GiveUp(r)
                 \/ StubCanceled(r) \/ LeadCall(r) \/ AroundCall(r)
        PROVE  UNCHANGED providerVars
    BY <1>5 DEF Ground, Send, ProviderFails, FallBack, GiveUp, StubCanceled, Failed, LeadCall, Lead,
       AroundCall, Admit, Reject, FailOpen, LookupHit, LookupMiss, Join, Receive, Record,
       RecordFails, StoreAnswer, Land, Return, vars
  <1>6. (\E r \in Request : Disconnect(r)) \/ (\E p \in Pod : PodDies(p))
          \/ (\E t \in Tenant : CacheExpires(t)) \/ NextMonth \/ UNCHANGED vars
          => UNCHANGED providerVars
    BY DEF Disconnect, PodDies, PodCrash, CacheExpires, NextMonth, vars
  <1> QED
    BY <1>2, <1>3, <1>4, <1>5, <1>6 DEF NextAnswering, AskGrounded, InCallStep, Done, allVars

\* Every answer bought costs something, whatever the provider reports.
THEOREM NothingIsFree == AnsweringSpec => []NoFreeAnswer
  <1>1. InitAnswering => NoFreeAnswer
    BY DEF InitAnswering, Init, NoFreeAnswer
  <1> QED
    BY <1>1, AnsweringImplementsGateway, FreeStep, PTL DEF AnsweringSpec

-----------------------------------------------------------------------------
\* A flight fails only if the client that leads it has gone.
FailedMeansGone == \A r \in Request : result[r] = "failed" => r \in gone

LEMMA FailedStep ==
  AnsweringInv /\ FailedMeansGone /\ [NextAnswering]_allVars => FailedMeansGone'
  <1> SUFFICES ASSUME AnsweringInv, FailedMeansGone, [NextAnswering]_allVars PROVE FailedMeansGone'
    OBVIOUS
  <1>0. gone \subseteq gone'
    <2>1. [Next]_vars
      BY AnsweringStep
    <2> QED
      BY <2>1 DEF Next, vars, Ask, Done, Admit, Reject, FailOpen, LookupHit, LookupMiss, Join,
         Lead, Generate, Receive, CallFails, Record, RecordFails, StoreAnswer, Land, Return,
         Disconnect, PodCrash, CacheExpires, NextMonth, goVars
  <1>1. ASSUME NEW r \in Request, GiveUp(r) \/ StubCanceled(r) PROVE FailedMeansGone'
    BY <1>0, <1>1 DEF GiveUp, FallsBack, StubCanceled, Failed, FailedMeansGone, AnsweringInv, TypeOK
  <1>2. ASSUME NEW r \in Request, StoreAnswer(r) PROVE FailedMeansGone'
    BY <1>0, <1>2 DEF StoreAnswer, FailedMeansGone, AnsweringInv, TypeOK
  <1>3. CASE result' = result
    BY <1>0, <1>3 DEF FailedMeansGone
  <1>4. ASSUME NEW r \in Request,
               Ground(r) \/ Send(r) \/ ProviderFails(r) \/ ProviderAnswers(r) \/ FallBack(r)
                 \/ StubAnswers(r) \/ LeadCall(r) \/ (AroundCall(r) /\ ~StoreAnswer(r))
        PROVE  result' = result
    BY <1>4 DEF Ground, Send, ProviderFails, ProviderAnswers, FallBack, StubAnswers, Answered,
       LeadCall, Lead, AroundCall, Admit, Reject, FailOpen, LookupHit, LookupMiss, Join, Receive,
       Record, RecordFails, Land, Return, vars, goVars
  <1>5. (\E r \in Request : Disconnect(r)) \/ (\E p \in Pod : PodDies(p))
          \/ (\E t \in Tenant : CacheExpires(t)) \/ NextMonth \/ UNCHANGED vars
          => result' = result
    BY DEF Disconnect, PodDies, PodCrash, CacheExpires, NextMonth, vars, goVars
  <1> QED
    BY <1>1, <1>2, <1>3, <1>4, <1>5 DEF NextAnswering, AskGrounded, InCallStep, Done, allVars

LEMMA BadGatewayStep ==
  /\ AnsweringInv /\ CallInv /\ FailedMeansGone /\ NoBadGateway /\ [NextAnswering]_allVars
  => NoBadGateway'
  <1> SUFFICES ASSUME AnsweringInv, CallInv, FailedMeansGone, NoBadGateway, [NextAnswering]_allVars,
                      NEW r \in Request, reply'[r] = "502"
               PROVE  source'[r] \in gone'
    BY DEF NoBadGateway
  <1> USE DEF AnsweringInv
  <1>1. [Next]_vars
    BY AnsweringStep
  <1>2. gone \subseteq gone'
    BY <1>1 DEF Next, vars, Ask, Done, Admit, Reject, FailOpen, LookupHit, LookupMiss, Join,
       Lead, Generate, Receive, CallFails, Record, RecordFails, StoreAnswer, Land, Return,
       Disconnect, PodCrash, CacheExpires, NextMonth, goVars
  <1>3. CASE reply[r] = "502"
    <2>1. pc[r] = "done"
      BY <1>3 DEF CallInv
    <2>2. source'[r] = source[r]
      BY <1>1, <2>1 DEF TypeOK, Next, vars, Ask, Done, Admit, Reject, FailOpen, LookupHit, LookupMiss,
         Join, Lead, Generate, Receive, CallFails, Record, RecordFails, StoreAnswer, Land,
         Return, Disconnect, PodCrash, CacheExpires, NextMonth, goVars
    <2> QED
      BY <1>2, <1>3, <2>2 DEF NoBadGateway
  <1>4. CASE reply[r] # "502"
    <2>1. \/ reply' = reply
          \/ \E x \in Request : Reject(x) \/ LookupHit(x) \/ Return(x)
          \/ \E p \in Pod : PodCrash(p)
      BY <1>1 DEF Next, vars, Ask, Done, Admit, FailOpen, LookupMiss, Join, Lead, Generate, Receive,
         CallFails, Record, RecordFails, StoreAnswer, Land, Disconnect, CacheExpires,
         NextMonth, goVars
    <2>2. Return(r)
      BY <1>4, <2>1 DEF TypeOK, Reject, LookupHit, Return, PodCrash, Finish
    <2>3. source' = source /\ reply'[r] = ReplyTo(result[source[r]])
      BY <2>2 DEF Return, Finish, TypeOK
    <2>4. source[r] \in Request /\ result[source[r]] \in {"ok", "failed", "canceled"}
      BY <2>2 DEF Return, CallInv, TypeOK, Results
    <2> QED
      BY <1>2, <2>3, <2>4 DEF ReplyTo, FailedMeansGone
  <1> QED
    BY <1>3, <1>4

\* However the provider fails, a client gets a 502 only from a flight whose
\* leader's client has left.
THEOREM NoBadGatewayWhileLed == AnsweringSpec => []NoBadGateway
  <1>1. InitAnswering => FailedMeansGone /\ NoBadGateway
    BY DEF InitAnswering, Init, FailedMeansGone, NoBadGateway
  <1> QED
    BY <1>1, AnsweringImplementsGateway, CallCorrect, FailedStep, BadGatewayStep, PTL
       DEF AnsweringSpec
=============================================================================
