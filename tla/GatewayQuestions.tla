------------------------- MODULE GatewayQuestions -------------------------
(***************************************************************************)
(* The gateway with its embedding: what may be answered from the cache by  *)
(* the answer to what.                                                     *)
(***************************************************************************)
EXTENDS GatewayProps, Embedding

CONSTANT Text   \* Text[q]: the text of question q

ASSUME TextAssumption ==
  /\ Text \in [Question -> Texts]
  /\ Norm = [q \in Question |-> normalise(Text[q])]
  /\ Score = [p \in Question \X Question |-> Cosine(Embed(Text[p[1]]), Embed(Text[p[2]]))]

\* embed.go: "dropping digits would make the cache answer the wrong one": an
\* answer from the cache is to a question with the same numbers.
NumbersTellApart ==
  \A r \in hits : Numbers(Text[Q(r)]) = Numbers(Text[Q(source[r])])

\* What the code does guarantee of it: between two questions of the same number
\* of words that count, at most ten, none of them said twice, another number is
\* another question, unless the hash gives two of their words or pairs of words
\* one place.  (With n words, one not shared leaves (2n-3)/(2n-1).)
Plain(k) == Len(k) <= 10 /\ \A i, j \in DOMAIN k : k[i] = k[j] => i = j

Features(k) == {<<k[i]>> : i \in DOMAIN k} \cup {<<k[i], k[i + 1]>> : i \in 1..(Len(k) - 1)}

Collide(F) == \E f, g \in F : f # g /\ Bucket(f) = Bucket(g)

ShortNumbersTellApart ==
  \A r \in hits :
    LET p == tokenise(Text[Q(r)])
        q == tokenise(Text[Q(source[r])])
    IN  /\ Plain(p) /\ Plain(q) /\ Len(p) = Len(q)
        /\ ~Collide(Features(p) \cup Features(q))
        => Numbers(Text[Q(r)]) = Numbers(Text[Q(source[r])])
=============================================================================
