----------------------------- MODULE Embedding -----------------------------
(***************************************************************************)
(* How the gateway compares two questions (embed.go, and normalise in      *)
(* gateway.go).  A text is a sequence of words as typed, each with the     *)
(* mark that follows it and the white space after that.                    *)
(***************************************************************************)
EXTENDS Naturals, Sequences, FiniteSets, FiniteSetsExt, Functions

CONSTANTS
  Word,       \* words in lower case
  OneByte,    \* those of one byte
  Number,     \* those that are numbers
  Mark,       \* what may follow a word: signs, or nothing
  Bucket(_)   \* the place in the vector of a word or a pair of words

ASSUME WordsAssumption == OneByte \cup Number \subseteq Word

\* shout: typed in upper case; space: how much white space follows.
Texts == Seq([word : Word, shout : BOOLEAN, mark : Mark, space : Nat])

\* Fields and ToLower: how much white space there is, and case, do not count.
normalise(t) ==
  [i \in DOMAIN t |-> [word |-> t[i].word, mark |-> t[i].mark,
                       apart |-> i < Len(t) /\ t[i].space > 0]]

\* Variant: digits are letters like any other.
KeptIfLong(w) == w \notin OneByte

\* A number of one byte is a digit.
Kept(w) == w \notin OneByte \/ w \in Number

OnlyKept(w) ==
  LET kept[n \in 0..Len(w)] ==
        IF n = 0 THEN << >>
        ELSE IF Kept(w[n]) THEN Append(kept[n - 1], w[n]) ELSE kept[n - 1]
  IN  kept[Len(w)]

\* FieldsFunc splits at white space and at every mark.
tokenise(t) == OnlyKept([i \in DOMAIN t |-> t[i].word])

\* How often a bucket is hit by a word, and by a word and its successor.
Embed(t) ==
  LET k == tokenise(t)
      words == [i \in 1..Len(k) |-> Bucket(<<k[i]>>)]
      pairs == [i \in 1..(Len(k) - 1) |-> Bucket(<<k[i], k[i + 1]>>)]
  IN  [b \in {words[i] : i \in DOMAIN words} \cup {pairs[i] : i \in DOMAIN pairs} |->
         Cardinality({i \in DOMAIN words : words[i] = b})
           + Cardinality({i \in DOMAIN pairs : pairs[i] = b})]

Dot(u, v) == SumFunction([b \in DOMAIN u \cap DOMAIN v |-> u[b] * v[b]])

\* The cosine in hundredths, rounded down; 0 for a text without words.
Cosine(u, v) ==
  IF DOMAIN u = {} \/ DOMAIN v = {} THEN 0
  ELSE Max({n \in 0..100 : n * n * Dot(u, u) * Dot(v, v) <= 10000 * Dot(u, v) * Dot(u, v)})

Numbers(t) == {t[i].word : i \in DOMAIN t} \cap Number
=============================================================================
