----------------------------- MODULE Catalogue -----------------------------
(***************************************************************************)
(* One tenant's Postgres schema (workload/store), as the API pods prepare  *)
(* it and the workers' re-index runs rewrite its similarity graph.         *)
(*                                                                         *)
(* Postgres runs at READ COMMITTED: each statement sees what was committed *)
(* when it began.  A DELETE waits for another transaction that has deleted *)
(* the same rows and then skips them; a COPY waits for another transaction *)
(* that has inserted or deleted a row of the same key, and fails if one is *)
(* committed and alive.                                                    *)
(***************************************************************************)
EXTENDS Naturals, FiniteSets

CONSTANTS
  ApiPod,    \* API pods, each running prepare in the background
  Run,       \* runs of runReindex, each by some worker for some job
  Edge,      \* edges of the similarity graph: keys of related_products
  Graph,     \* Graph[w]: Reindex of the seeded catalogue with w's top_k
  MaxUpsets, \* bound: errors, time-outs and restarts considered, in all
  None       \* no pod

ASSUME CatalogueAssumption ==
  /\ Graph \in [Run -> SUBSET Edge]
  /\ MaxUpsets \in Nat /\ None \notin ApiPod

\* A smaller top_k keeps a prefix of each product's edges, and at least one:
\* of two graphs of one catalogue one is part of the other, none being empty.
ASSUME TopKAssumption ==
  \A v, w \in Run : Graph[v] # {} /\ (Graph[v] \subseteq Graph[w] \/ Graph[w] \subseteq Graph[v])

VARIABLES
  provisioned, \* the Helm hook has created the tenant's role and schema
  tables,      \* EnsureSchema has created the tables
  products,    \* how many times the catalogue is in the table products
  related,     \* the committed rows of related_products, each an edge and the
               \* run that inserted it: a re-inserted edge is another row
  seedLock,    \* the pod whose transaction holds the advisory lock, or None
  prep,        \* prep[p]: where pod p's prepare is
  run,         \* run[w]: where run w is
  edges,       \* edges[w]: the edges w computed
  snap,        \* snap[w]: the rows w's DELETE statement saw
  del, ins,    \* del[w], ins[w]: rows w's open transaction deleted, inserted
  logged,      \* the runs in reindex_runs
  upsets,      \* upsets so far
  live         \* history: runs whose transaction was committed

schemaVars == <<provisioned, tables, products, seedLock, prep>>
runVars    == <<run, edges, snap, del, ins, logged, live>>
vars == <<schemaVars, runVars, related, upsets>>

PrepSteps == {"schema", "lock", "count", "copy", "commit", "ready"}
InSeedTx  == {"count", "copy", "commit"}
RunSteps  == {"load", "begin", "delete", "copy", "commit", "log", "ok", "error"}

Upset == upsets < MaxUpsets /\ upsets' = upsets + 1

Init ==
  /\ provisioned = FALSE /\ tables = FALSE
  /\ products = 0 /\ related = {} /\ seedLock = None
  /\ prep = [p \in ApiPod |-> "schema"]
  /\ run = [w \in Run |-> "load"]
  /\ edges = [w \in Run |-> {}] /\ snap = [w \in Run |-> {}]
  /\ del = [w \in Run |-> {}] /\ ins = [w \in Run |-> {}]
  /\ logged = {} /\ upsets = 0 /\ live = {}

\* The post-install hook runs at some time, possibly after the pods started.
Provision ==
  /\ ~provisioned /\ provisioned' = TRUE
  /\ UNCHANGED <<tables, products, seedLock, prep, runVars, related, upsets>>

-----------------------------------------------------------------------------
(* prepare: EnsureSchema and SeedIfEmpty, retried until both succeed.      *)

GotoPrep(p, step) == prep' = [prep EXCEPT ![p] = step]

\* Variant: SeedIfEmpty without the advisory lock.
NoLock(p) == seedLock' = p

TakeLock(p) == seedLock = None /\ seedLock' = p

\* Variant: a session-level lock, which outlives the transaction.
KeepLock(p) == UNCHANGED seedLock

ReleaseLock(p) == seedLock' = IF seedLock = p THEN None ELSE seedLock

EnsureSchema(p) ==
  /\ prep[p] = "schema" /\ provisioned
  /\ tables' = TRUE
  /\ GotoPrep(p, "lock")
  /\ UNCHANGED <<provisioned, products, seedLock, runVars, related, upsets>>

AcquireLock(p) ==
  /\ prep[p] = "lock" /\ TakeLock(p)
  /\ GotoPrep(p, "count")
  /\ UNCHANGED <<provisioned, tables, products, runVars, related, upsets>>

\* Variant: an empty table is taken for a seeded one.
TakenForSeeded == products > 1

IsEmpty == products = 0

CountProducts(p) ==
  /\ prep[p] = "count"
  /\ IF IsEmpty
       THEN GotoPrep(p, "copy") /\ UNCHANGED seedLock
       ELSE GotoPrep(p, "ready") /\ ReleaseLock(p)
  /\ UNCHANGED <<provisioned, tables, products, runVars, related, upsets>>

CopySeed(p) ==
  /\ prep[p] = "copy"
  /\ GotoPrep(p, "commit")
  /\ UNCHANGED <<provisioned, tables, products, seedLock, runVars, related, upsets>>

\* The commit may be applied and its answer lost: the pod then tries again.
CommitSeed(p) ==
  /\ prep[p] = "commit"
  /\ products' = products + 1
  /\ ReleaseLock(p)
  /\ \/ GotoPrep(p, "ready") /\ UNCHANGED upsets
     \/ GotoPrep(p, "schema") /\ Upset
  /\ UNCHANGED <<provisioned, tables, runVars, related>>

\* An error, the 90 s time-out, or a restart of the pod: the transaction, and
\* with it the lock, is gone, and preparation starts over.
PrepareAgain(p) ==
  /\ prep[p] # "schema" /\ Upset
  /\ ReleaseLock(p)
  /\ GotoPrep(p, "schema")
  /\ UNCHANGED <<provisioned, tables, products, runVars, related>>

-----------------------------------------------------------------------------
(* runReindex: AllProducts, ReplaceRelated and RecordReindex.              *)

GotoRun(w, step) == run' = [run EXCEPT ![w] = step]
Others(w) == Run \ {w}

\* Reindex returns no edge for fewer than two products.
Load(w) ==
  /\ run[w] = "load" /\ tables
  /\ edges' = [edges EXCEPT ![w] = IF products = 0 THEN {} ELSE Graph[w]]
  /\ GotoRun(w, "begin")
  /\ UNCHANGED <<snap, del, ins, logged, live, schemaVars, related, upsets>>

\* Workers do not create the schema: without it the run fails.
LoadFails(w) ==
  /\ run[w] = "load" /\ ~tables
  /\ GotoRun(w, "error")
  /\ UNCHANGED <<edges, snap, del, ins, logged, live, schemaVars, related, upsets>>

BeginDelete(w) ==
  /\ run[w] = "begin"
  /\ snap' = [snap EXCEPT ![w] = related]
  /\ GotoRun(w, "delete")
  /\ UNCHANGED <<edges, del, ins, logged, live, schemaVars, related, upsets>>

\* Variant: DELETE outside the transaction takes effect at once.
DeleteNow(w) == related' = related \ snap[w] /\ UNCHANGED del

DeleteRows(w) == del' = [del EXCEPT ![w] = snap[w] \cap related] /\ UNCHANGED related

Delete(w) ==
  /\ run[w] = "delete"
  /\ \A v \in Others(w) : del[v] \cap snap[w] = {}
  /\ DeleteRows(w)
  /\ GotoRun(w, "copy")
  /\ UNCHANGED <<edges, snap, ins, logged, live, schemaVars, upsets>>

Keys(rows) == {row[1] : row \in rows}

CopyMayGo(w) == \A v \in Others(w) : Keys(ins[v] \cup del[v]) \cap edges[w] = {}

Conflict(w) == edges[w] \cap Keys(related \ del[w]) # {}

Copy(w) ==
  /\ run[w] = "copy" /\ CopyMayGo(w) /\ ~Conflict(w)
  /\ ins' = [ins EXCEPT ![w] = edges[w] \X {w}]
  /\ GotoRun(w, "commit")
  /\ UNCHANGED <<edges, snap, del, logged, live, schemaVars, related, upsets>>

\* Variant: the status of the job metric is misspelt.
FailedStatus == "failed"

ErrorStatus == "error"

\* Variant: a transaction is left open, and its row locks with it.
LeaveOpen(w) == UNCHANGED <<del, ins>>

EndTx(w) ==
  /\ del' = [del EXCEPT ![w] = {}] /\ ins' = [ins EXCEPT ![w] = {}]

\* The transaction ends without effect: a duplicate key, an error, a cancelled
\* context or the end of the worker.  The run counts as an error.
Rollback(w) ==
  /\ \/ run[w] = "copy" /\ CopyMayGo(w) /\ Conflict(w) /\ UNCHANGED upsets
     \/ run[w] \in {"load", "begin", "delete", "copy", "commit"} /\ Upset
  /\ EndTx(w)
  /\ GotoRun(w, ErrorStatus)
  /\ UNCHANGED <<edges, snap, logged, live, schemaVars, related>>

Commit(w) ==
  /\ run[w] = "commit"
  /\ related' = (related \ del[w]) \cup ins[w]
  /\ EndTx(w)
  /\ live' = live \cup {w}
  /\ \/ GotoRun(w, "log") /\ UNCHANGED upsets
     \/ GotoRun(w, ErrorStatus) /\ Upset
  /\ UNCHANGED <<edges, snap, logged, schemaVars>>

\* An error of RecordReindex is only a warning.
LogRun(w) ==
  /\ run[w] = "log"
  /\ \/ logged' = logged \cup {w} /\ UNCHANGED upsets
     \/ UNCHANGED logged /\ Upset
  /\ GotoRun(w, "ok")
  /\ UNCHANGED <<edges, snap, del, ins, live, schemaVars, related>>

-----------------------------------------------------------------------------
Prepare(p) ==
  \/ EnsureSchema(p) \/ AcquireLock(p) \/ CountProducts(p) \/ CopySeed(p) \/ CommitSeed(p)

Reindex(w) ==
  \/ Load(w) \/ LoadFails(w) \/ BeginDelete(w) \/ Delete(w) \/ Copy(w)
  \/ Rollback(w) \/ Commit(w) \/ LogRun(w)

Finished ==
  /\ \A p \in ApiPod : prep[p] = "ready"
  /\ \A w \in Run : run[w] \in {"ok", "error"}
  /\ UNCHANGED vars

Next ==
  \/ Provision
  \/ \E p \in ApiPod : Prepare(p) \/ PrepareAgain(p)
  \/ \E w \in Run : Reindex(w)
  \/ Finished

Spec == Init /\ [][Next]_vars

\* The hook succeeds in the end (its Job retries it), prepare retries for ever,
\* and Postgres serves every session.
FairSpec ==
  /\ Spec /\ WF_vars(Provision)
  /\ \A p \in ApiPod : WF_vars(Prepare(p))
  /\ \A w \in Run : WF_vars(Reindex(w))

=============================================================================
