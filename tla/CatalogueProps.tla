--------------------------- MODULE CatalogueProps ---------------------------
(***************************************************************************)
(* What the tenant's schema promises.                                      *)
(***************************************************************************)
EXTENDS Catalogue

TypeOK ==
  /\ provisioned \in BOOLEAN /\ tables \in BOOLEAN
  /\ products \in Nat
  /\ related \subseteq Edge \X Run
  /\ seedLock \in ApiPod \cup {None}
  /\ prep \in [ApiPod -> PrepSteps]
  /\ run \in [Run -> RunSteps]
  /\ edges \in [Run -> SUBSET Edge] /\ snap \in [Run -> SUBSET (Edge \X Run)]
  /\ del \in [Run -> SUBSET (Edge \X Run)] /\ ins \in [Run -> SUBSET (Edge \X Run)]
  /\ logged \subseteq Run /\ live \subseteq Run
  /\ upsets \in 0..MaxUpsets

\* The merchant's catalogue is inserted at most once, however many pods start
\* together, fail, or lose the answer to their commit (SeedIfEmpty: "Seeding
\* must happen once even when several pods start together").
SeededOnce == products <= 1

\* The advisory lock is held exactly while a pod's transaction is open: the end
\* of a pod never leaves it held (SeedIfEmpty: "a crash releases it rather than
\* wedging every future start").
LockIsTransactional ==
  \A p \in ApiPod : seedLock = p <=> prep[p] \in InSeedTx

\* A pod that reports "catalogue ready" has tables with the catalogue in them.
ReadyIsSeeded == \A p \in ApiPod : prep[p] = "ready" => tables /\ products > 0

\* From the first commit on the graph is the whole graph of one committed run:
\* never half deleted, never emptied for a rebuild, and never a mixture of two
\* runs that overlapped (ReplaceRelated: "either the old graph or the new one
\* and never a half-deleted one").
GraphIsWhole ==
  IF live = {} THEN related = {} ELSE \E w \in live : related = edges[w] \X {w}

\* Every pod gets the catalogue ready, for good: wherever the hook runs among
\* the pods' starts, and whatever fails on the way.
CatalogueGetsReady == \A p \in ApiPod : <>[](prep[p] = "ready")

\* No run waits for ever: the row locks of overlapping rewrites never form a
\* cycle.
RunsEnd == \A w \in Run : <>(run[w] \in {"ok", "error"})
=============================================================================
