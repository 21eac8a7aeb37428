----------------------------- MODULE MCGateway -----------------------------
(* Instances of the gateway for TLC.                                       *)
EXTENDS GatewayQuestions, TLC

CONSTANTS acme, globex, podA, podB

\* A text typed with one space between the words and a mark at the end.
Typed(words, shout, end) ==
  [i \in DOMAIN words |->
    [word |-> words[i], shout |-> shout, space |-> 1,
     mark |-> IF i = Len(words) THEN end ELSE ""]]

Jacket(price) ==
  <<"what", "is", "the", "cheapest", "waterproof", "jacket", "you", "have", "for", "under", price>>

\* Two spellings of a question, a paraphrase the embedding cannot tell from
\* them, and one like it but for a number; and two long ones.
MCText ==
  [tent2  |-> Typed(<<"do", "you", "sell", "a", "tent", "for", "2">>, FALSE, "?"),
   TENT2  |-> Typed(<<"do", "you", "sell", "a", "tent", "for", "2">>, TRUE, "?"),
   anyfor2 |-> Typed(<<"do", "you", "sell", "tent", "for", "2">>, FALSE, ""),
   tent4  |-> Typed(<<"do", "you", "sell", "a", "tent", "for", "4">>, FALSE, "?"),
   under500 |-> Typed(Jacket("500"), FALSE, "?"),
   under900 |-> Typed(Jacket("900"), FALSE, "?")]

MCQuestion == DOMAIN MCText
MCWord == UNION {{MCText[q][i].word : i \in DOMAIN MCText[q]} : q \in MCQuestion}
\* No two words or pairs of these share a bucket that matters to a comparison.
MCBucket(f) == f
NormTable == [q \in MCQuestion |-> normalise(MCText[q])] @@ << >>
ScoreTable ==
  [p \in MCQuestion \X MCQuestion |-> Cosine(Embed(MCText[p[1]]), Embed(MCText[p[2]]))] @@ << >>
\* TLC evaluates the tables once, and a name put in the place of a constant each time.
MCNorm == NormTable
MCScore == ScoreTable

Of(t, q, p) == [tenant |-> t, question |-> q, pod |-> p]

\* A question, another one asked of another pod, and the first question, spelt
\* otherwise, of another tenant.
MixedCalls == {Of(acme, "tent2", podA), Of(acme, "tent4", podB),
               Of(globex, "TENT2", podA)}
\* Two spellings of a question, and a paraphrase asked of another pod.
NearCalls == {Of(acme, "tent2", podA), Of(acme, "TENT2", podA),
              Of(acme, "anyfor2", podB)}
TwinCalls == {Of(acme, "tent2", podA), Of(acme, "TENT2", podA)}
DistinctCalls == {Of(acme, "tent2", podA), Of(acme, "anyfor2", podA),
                  Of(acme, "tent4", podA)}
PriceCalls == {Of(acme, "under500", podA), Of(acme, "under900", podA)}

MCLimit == [t \in {acme, globex} |-> 2]
Symmetric == Permutations(Request)
=============================================================================
