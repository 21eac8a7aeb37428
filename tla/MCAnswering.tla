---------------------------- MODULE MCAnswering ----------------------------
(* Instances of the gateway with what is below it, for TLC.                *)
EXTENDS Answering

CONSTANTS acme, podA

Of(q) == [tenant |-> acme, question |-> q, pod |-> podA]
\* A question and a paraphrase with the same vector: MCGateway has their texts.
MCQuestion == {"tent2", "anyfor2"}
MCNorm == [q \in MCQuestion |-> q]
MCScore == [p \in MCQuestion \X MCQuestion |-> 100]
MCCall == {Of(q) : q \in MCQuestion}
MCLimit == [t \in {acme} |-> 2]
MCPromptTokens == [p \in Asked |-> 1]
=============================================================================
