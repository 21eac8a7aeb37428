----------------------------- MODULE Reindexing -----------------------------
(***************************************************************************)
(* The re-index algorithm (workload/catalogue): every product's words      *)
(* weighted by how distinctive they are, every product compared with every *)
(* other, the topK nearest kept.  Words are numbers in alphabetical order. *)
(* Two things are abstracted.  Idf stands for log(n/df), scaled to whole   *)
(* numbers, so no sum is rounded; what depends on rounding is the order of *)
(* the additions, which the model keeps.  Dividing a vector by the length  *)
(* of its text changes no cosine and is left out.                          *)
(***************************************************************************)
EXTENDS Naturals, SequencesExt

CONSTANTS
  Field,    \* the words of product texts, in lower case
  Dropped,  \* fields tokenise drops: stop words and words too short
  Within,   \* Within[f]: the words that occur within f, f among them
  Texts,    \* texts (name, description and category) a product may have
  MaxProducts, MaxTopK, \* bounds
  FirstId,  \* ids need not start at 1: a seeding rolled back leaves a gap
  Idf       \* Idf[n][df]: log(n/df)

ASSUME ReindexingAssumption ==
  /\ Field \subseteq Nat /\ Dropped \subseteq Field /\ Texts \subseteq Seq(Field)
  /\ \A f \in Field : f \in Within[f] /\ Within[f] \subseteq Field
  /\ MaxProducts \in Nat /\ MaxTopK \in Nat /\ FirstId \in Nat

\* The logarithm decreases strictly with df, to 0 when every text has the word.
ASSUME IdfAssumption ==
  \A n \in 1..MaxProducts : \A d \in 1..n :
    Idf[n][d] \in Nat /\ (Idf[n][d] = 0 <=> d = n)
                      /\ \A e \in 1..n : e > d => Idf[n][e] < Idf[n][d]

VARIABLES
  products, \* the catalogue as AllProducts loads it, by id
  topK,     \* the job's size
  vectors,  \* the vectors made so far, one for each product from the first
  row,      \* the product about to be compared with the others
  edges     \* the edges found so far

vars == <<products, topK, vectors, row, edges>>

n == Len(products)

\* The rows of AllProducts, ordered by id.
Rows(texts) == [i \in DOMAIN texts |-> [id |-> FirstId + i, text |-> texts[i]]]

Init ==
  /\ \E texts \in BoundedSeq(Texts, MaxProducts) : products = Rows(texts)
  /\ topK \in 1..MaxTopK
  /\ vectors = <<>> /\ row = 1 /\ edges = <<>>

-----------------------------------------------------------------------------
\* The words a text counts for; how often each occurs is for Weight.
tokenise(text) == ToSet(text) \ Dropped

Words(p) == tokenise(p.text)

\* Variant: documents are counted by their words, not by strings.Contains.
DocFreqByWord(word) == Cardinality({i \in 1..n : word \in Words(products[i])})

DocFreq(word) ==
  Cardinality({i \in 1..n : \E f \in ToSet(products[i].text) : word \in Within[f]})

Weight(p, word) ==
  Cardinality({i \in DOMAIN p.text : p.text[i] = word}) * Idf[n][DocFreq(word)]

\* sort.Slice by a total order, a set of pairs: the elements one after the other.
Sorted(S, order) ==
  CHOOSE s \in SetToSeqs(S) : \A x, y \in DOMAIN s : x < y => <<s[x], s[y]>> \in order

\* Variant: the terms stay in the order in which the map was iterated.
AsIterated(vec) == vec

ByWord(S) == {p \in S \X S : p[1].word < p[2].word}

SortByWord(vec) == Sorted(ToSet(vec), ByWord(ToSet(vec)))

\* Go iterates over the map tf in any order.
tfidfVector(p, iteration) ==
  SortByWord([i \in DOMAIN iteration |->
               [word |-> iteration[i], weight |-> Weight(p, iteration[i])]])

Vectorise ==
  /\ n >= 2 /\ Len(vectors) < n
  /\ LET p == products[Len(vectors) + 1]
     IN \E iteration \in SetToSeqs(Words(p)) :
          vectors' = Append(vectors, tfidfVector(p, iteration))
  /\ UNCHANGED <<products, topK, row, edges>>

-----------------------------------------------------------------------------
\* cosine: the terms of the dot product in the order in which the single pass
\* over both vectors adds them up.
Merge(a, b) ==
  LET from[at \in (1..Len(a) + 1) \X (1..Len(b) + 1)] ==
        LET i == at[1]
            j == at[2]
        IN IF i > Len(a) \/ j > Len(b) THEN <<>>
           ELSE IF a[i].word = b[j].word
                  THEN <<[word |-> a[i].word, weight |-> a[i].weight * b[j].weight]>>
                         \o from[<<i + 1, j + 1>>]
           ELSE IF a[i].word < b[j].word THEN from[<<i + 1, j>>] ELSE from[<<i, j + 1>>]
  IN from[<<1, 1>>]

Total(terms) == FoldLeft(LAMBDA sum, t : sum + t.weight, 0, terms)

Dot(i, j) == Total(Merge(vectors[i], vectors[j]))
NormSquared(i) == Dot(i, i)

\* cosine(i, j) > cosine(i, k), squared and without the division.
Nearer(i, j, k) ==
  Dot(i, j) * Dot(i, j) * NormSquared(k) > Dot(i, k) * Dot(i, k) * NormSquared(j)

\* Variant: the least similar first.
FarthestFirst(i, j, k) == Nearer(i, k, j) \/ (~Nearer(i, j, k) /\ j < k)

Before(i, j, k) == Nearer(i, j, k) \/ (~Nearer(i, k, j) /\ j < k)

Scored(i) == {j \in 1..n \ {i} : Dot(i, j) > 0}

AtLeastOne(k) == IF k < 1 THEN 1 ELSE k

Ranked(i) == Sorted(Scored(i), {p \in Scored(i) \X Scored(i) : Before(i, p[1], p[2])})

Kept(i) == SubSeq(Ranked(i), 1, Min({Len(Ranked(i)), AtLeastOne(topK)}))

\* Variant: the place in the list is taken for the product's id.
EdgeByPlace(i, j) == [ProductID |-> i, RelatedID |-> j]

Edge(i, j) == [ProductID |-> products[i].id, RelatedID |-> products[j].id]

Compare ==
  /\ n >= 2 /\ Len(vectors) = n /\ row <= n
  /\ edges' = edges \o [x \in DOMAIN Kept(row) |-> Edge(row, Kept(row)[x])]
  /\ row' = row + 1
  /\ UNCHANGED <<products, topK, vectors>>

\* Fewer than two products, or every row compared.
Finished == n < 2 \/ row > n

Return == Finished /\ UNCHANGED vars

Next == Vectorise \/ Compare \/ Return

Spec == Init /\ [][Next]_vars

-----------------------------------------------------------------------------
Ids == {products[i].id : i \in 1..n}
Indices(word) == {i \in 1..n : word \in Words(products[i])}

\* Every edge joins two products of the catalogue by their ids, and no two have
\* the same key, which is the primary key of related_products: the COPY of
\* ReplaceRelated cannot fail on a graph of Reindex's own (catalogue.go:71-77).
TypeOK ==
  /\ \A i \in DOMAIN vectors : ToSet([x \in DOMAIN vectors[i] |-> vectors[i][x].word]) = Words(products[i])
  /\ row \in 1..n + 1
  /\ \A x \in DOMAIN edges :
       /\ edges[x].ProductID \in Ids /\ edges[x].RelatedID \in Ids
       /\ \A y \in DOMAIN edges : edges[x] = edges[y] => x = y

\* In whatever order Go iterates over its maps, every dot product adds the
\* terms of all common words, each once, in one order: alphabetical.  That is
\* what makes floating-point sums the same in every run (catalogue.go:100-110,
\* 155).
SumsAreReproducible ==
  \A i, j \in DOMAIN vectors :
    LET terms == Merge(vectors[i], vectors[j])
    IN /\ {terms[x].word : x \in DOMAIN terms} = Words(products[i]) \cap Words(products[j])
       /\ \A x, y \in DOMAIN terms : x < y => terms[x].word < terms[y].word

\* Nobody left out is nearer than somebody kept, ties go to the smaller id, no
\* product has more than topK edges, and one is missing only if there is nobody
\* left to relate to (catalogue.go:86-94).  So a smaller topK gives a part of
\* the graph of a larger one.
KeepsTheNearest ==
  Finished /\ n >= 2 =>
    \A i \in 1..n :
      LET To    == {j \in 1..n : Edge(i, j) \in ToSet(edges)}
          Other == {j \in 1..n \ {i} : Dot(i, j) > 0} \ To
      IN /\ Cardinality(To) <= topK
         /\ Other # {} => Cardinality(To) = topK
         /\ \A j \in To, k \in Other :
              ~Nearer(i, k, j) /\ (Nearer(i, j, k) \/ j < k)

\* Two products are related only if they share a word that is not within every
\* text of the catalogue, and, topK permitting, always then: what everybody
\* sells relates nothing, not even two equal products (catalogue.go:139-151).
RelatedByARareWord ==
  Finished /\ n >= 2 =>
    \A i \in 1..n : \A j \in 1..n \ {i} :
      LET Rare == {w \in Words(products[i]) \cap Words(products[j]) :
                    \E k \in 1..n : \A f \in ToSet(products[k].text) : w \notin Within[f]}
      IN /\ Edge(i, j) \in ToSet(edges) => Rare # {}
         /\ Rare # {} /\ topK >= n - 1 => Edge(i, j) \in ToSet(edges)
=============================================================================
