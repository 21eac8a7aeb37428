--------------------------- MODULE CatalogueProofs ---------------------------
(***************************************************************************)
(* Proofs about the preparation of a tenant's schema and the rewrites of   *)
(* its graph, for any number of API pods and runs and any failures.        *)
(***************************************************************************)
EXTENDS CatalogueProps, TLAPS

PrepType ==
  /\ prep \in [ApiPod -> PrepSteps] /\ products \in Nat
  /\ seedLock \in ApiPod \cup {None} /\ tables \in BOOLEAN

\* A pod past its count, in a transaction that holds the lock, still knows that
\* the table is empty: nobody else can have seeded it.
StillEmpty == \A p \in ApiPod : prep[p] \in {"copy", "commit"} => products = 0

HasTables == \A p \in ApiPod : prep[p] # "schema" => tables = TRUE
ReadyHasProducts == \A p \in ApiPod : prep[p] = "ready" => products > 0

PrepInv ==
  /\ PrepType /\ LockIsTransactional /\ StillEmpty /\ SeededOnce
  /\ HasTables /\ ReadyHasProducts

LEMMA PrepInit == Init => PrepInv
  <1> SUFFICES ASSUME Init PROVE PrepInv
    OBVIOUS
  <1>1. \A p \in ApiPod : prep[p] = "schema"
    BY DEF Init
  <1>2. prep \in [ApiPod -> PrepSteps] /\ products \in Nat /\ seedLock \in ApiPod \cup {None}
    BY DEF Init, PrepSteps
  <1>3. tables \in BOOLEAN
    BY DEF Init
  <1>4. LockIsTransactional /\ SeededOnce
    BY <1>1, CatalogueAssumption DEF Init, LockIsTransactional, SeededOnce, InSeedTx
  <1> QED
    BY <1>1, <1>2, <1>3, <1>4 DEF PrepInv, PrepType, StillEmpty, HasTables, ReadyHasProducts

LEMMA RunsLeaveSchema == ASSUME NEW w \in Run, Reindex(w) PROVE UNCHANGED schemaVars
  BY DEF Reindex, Load, LoadFails, BeginDelete, Delete, Copy, Rollback, Commit, LogRun

LEMMA PrepStep == PrepInv /\ [Next]_vars => PrepInv'
  <1> SUFFICES ASSUME PrepInv, [Next]_vars PROVE PrepInv'
    OBVIOUS
  <1>0. None \notin ApiPod
    BY CatalogueAssumption
  <1> USE <1>0 DEF PrepInv, PrepType, LockIsTransactional, StillEmpty, SeededOnce, HasTables,
                   ReadyHasProducts, PrepSteps, InSeedTx, GotoPrep
  <1>1. ASSUME UNCHANGED schemaVars PROVE PrepInv'
    BY <1>1 DEF schemaVars
  <1>2. CASE Provision
    BY <1>2 DEF Provision
  <1>3. ASSUME NEW p \in ApiPod, EnsureSchema(p) PROVE PrepInv'
    BY <1>3 DEF EnsureSchema
  <1>4. ASSUME NEW p \in ApiPod, AcquireLock(p) PROVE PrepInv'
    BY <1>4 DEF AcquireLock, TakeLock
  <1>5. ASSUME NEW p \in ApiPod, CountProducts(p) PROVE PrepInv'
    BY <1>5 DEF CountProducts, IsEmpty, ReleaseLock
  <1>6. ASSUME NEW p \in ApiPod, CopySeed(p) PROVE PrepInv'
    BY <1>6 DEF CopySeed
  <1>7. ASSUME NEW p \in ApiPod, CommitSeed(p) PROVE PrepInv'
    <2>1. products = 0 /\ products' = 1
      BY <1>7 DEF CommitSeed
    <2>2. \A q \in ApiPod : q # p => prep[q] \notin InSeedTx
      BY <1>7 DEF CommitSeed
    <2> QED
      BY <1>7, <2>1, <2>2 DEF CommitSeed, ReleaseLock
  <1>8. ASSUME NEW p \in ApiPod, PrepareAgain(p) PROVE PrepInv'
    BY <1>8 DEF PrepareAgain, ReleaseLock
  <1> QED
    BY <1>1, <1>2, <1>3, <1>4, <1>5, <1>6, <1>7, <1>8, RunsLeaveSchema
    DEF Next, Prepare, Finished, vars

LEMMA PrepHolds == Spec => []PrepInv
  BY PrepInit, PrepStep, PTL DEF Spec

-----------------------------------------------------------------------------
\* The catalogue is seeded at most once, however many pods prepare it at once,
\* fail on the way, are restarted, or lose the answer to their commit.
THEOREM SeedsOnce == Spec => []SeededOnce
  <1>1. PrepInv => SeededOnce
    BY DEF PrepInv
  <1> QED
    BY <1>1, PrepHolds, PTL

\* The advisory lock is held exactly while a transaction is open: no pod's end
\* leaves it held.
THEOREM LockReleased == Spec => []LockIsTransactional
  <1>1. PrepInv => LockIsTransactional
    BY DEF PrepInv
  <1> QED
    BY <1>1, PrepHolds, PTL

\* A pod that reports its catalogue ready has the tables and the products.
THEOREM ReadyMeansSeeded == Spec => []ReadyIsSeeded
  <1>1. PrepInv => ReadyIsSeeded
    BY DEF PrepInv, HasTables, ReadyHasProducts, ReadyIsSeeded
  <1> QED
    BY <1>1, PrepHolds, PTL

-----------------------------------------------------------------------------
(* Type correctness. *)

LEMMA TypeInit == Init => TypeOK
  <1> SUFFICES ASSUME Init PROVE TypeOK
    OBVIOUS
  <1>1. upsets \in 0..MaxUpsets
    BY CatalogueAssumption DEF Init
  <1>2. prep \in [ApiPod -> PrepSteps] /\ run \in [Run -> RunSteps]
    BY DEF Init, PrepSteps, RunSteps
  <1> QED
    BY <1>1, <1>2 DEF Init, TypeOK

LEMMA TypeStep == TypeOK /\ [Next]_vars => TypeOK'
  <1> SUFFICES ASSUME TypeOK, [Next]_vars PROVE TypeOK'
    OBVIOUS
  <1> USE CatalogueAssumption DEF TypeOK, PrepSteps, RunSteps, GotoPrep, GotoRun
  <1>1. ASSUME Upset PROVE upsets' \in 0..MaxUpsets
    BY <1>1 DEF Upset
  <1>2. ASSUME NEW p \in ApiPod, Prepare(p) \/ PrepareAgain(p) PROVE TypeOK'
    <2>1. CASE EnsureSchema(p)
      BY <2>1 DEF EnsureSchema, runVars
    <2>2. CASE AcquireLock(p)
      BY <2>2 DEF AcquireLock, TakeLock, runVars
    <2>3. CASE CountProducts(p)
      BY <2>3 DEF CountProducts, ReleaseLock, runVars
    <2>4. CASE CopySeed(p)
      BY <2>4 DEF CopySeed, runVars
    <2>5. CASE CommitSeed(p)
      BY <2>5, <1>1 DEF CommitSeed, ReleaseLock, runVars
    <2>6. CASE PrepareAgain(p)
      BY <2>6, <1>1 DEF PrepareAgain, ReleaseLock, runVars
    <2> QED
      BY <1>2, <2>1, <2>2, <2>3, <2>4, <2>5, <2>6 DEF Prepare
  <1>3. ASSUME NEW w \in Run, Reindex(w) PROVE TypeOK'
    <2>1. CASE Load(w)
      BY <2>1 DEF Load, schemaVars
    <2>2. CASE LoadFails(w)
      BY <2>2 DEF LoadFails, schemaVars
    <2>3. CASE BeginDelete(w)
      BY <2>3 DEF BeginDelete, schemaVars
    <2>4. CASE Delete(w)
      BY <2>4 DEF Delete, DeleteRows, schemaVars
    <2>5. CASE Copy(w)
      BY <2>5 DEF Copy, schemaVars
    <2>6. CASE Rollback(w)
      BY <2>6, <1>1 DEF Rollback, EndTx, ErrorStatus, schemaVars
    <2>7. CASE Commit(w)
      BY <2>7, <1>1 DEF Commit, EndTx, ErrorStatus, schemaVars
    <2>8. CASE LogRun(w)
      BY <2>8, <1>1 DEF LogRun, schemaVars
    <2> QED
      BY <1>3, <2>1, <2>2, <2>3, <2>4, <2>5, <2>6, <2>7, <2>8 DEF Reindex
  <1>4. CASE Provision
    BY <1>4 DEF Provision, runVars
  <1>5. CASE UNCHANGED vars
    BY <1>5 DEF vars, schemaVars, runVars
  <1> QED
    BY <1>2, <1>3, <1>4, <1>5 DEF Next, Finished

\* Every variable of the schema keeps its type.
THEOREM CatalogueTypeCorrect == Spec => []TypeOK
  BY TypeInit, TypeStep, PTL DEF Spec

-----------------------------------------------------------------------------
(* Rewrites of the graph.                                                  *)

\* What a run found is its own graph, or nothing if the catalogue was empty.
EdgesKnown == \A w \in Run : edges[w] \in {{}, Graph[w]}

\* Only a committed run is live, and what it found no longer changes.
LiveAreOver == \A w \in live : run[w] \in {"log", "ok", "error"}

\* A transaction has deleted rows only between its DELETE and its end, and has
\* inserted all its rows from its COPY to its end.
TxOf ==
  /\ \A w \in Run : run[w] \notin {"copy", "commit"} => del[w] = {}
  /\ \A w \in Run : ins[w] = IF run[w] = "commit" THEN edges[w] \X {w} ELSE {}

\* Whoever takes a snapshot sees a whole graph, the live one or one before it.
SnapIsWhole == \A w \in Run : snap[w] = {} \/ \E v \in live : snap[w] = edges[v] \X {v}

\* An open transaction has deleted the whole live graph or nothing.
DeletesAll == \A w \in Run : del[w] = {} \/ del[w] = related

\* No committed row is in the way of the rows a transaction inserted.
NoneInTheWay ==
  \A w \in Run : run[w] = "commit" => edges[w] \cap Keys(related \ del[w]) = {}

\* Open transactions have inserted no key, and deleted no row, in common.
InsertsDisjoint ==
  \A v, w \in Run : v # w =>
    Keys(ins[v]) \cap Keys(ins[w]) = {} /\ del[v] \cap del[w] = {}

GraphInv ==
  /\ EdgesKnown /\ LiveAreOver /\ TxOf /\ SnapIsWhole /\ DeletesAll /\ NoneInTheWay
  /\ InsertsDisjoint /\ GraphIsWhole

\* Of two graphs of one catalogue one is part of the other.
LEMMA GraphsMeet ==
  ASSUME EdgesKnown, NEW v \in Run, NEW w \in Run, edges[v] \cap edges[w] = {}
  PROVE  edges[v] = {} \/ edges[w] = {}
  BY TopKAssumption DEF EdgesKnown

LEMMA GraphInit == Init => GraphInv
  BY DEF Init, GraphInv, EdgesKnown, LiveAreOver, TxOf, SnapIsWhole, DeletesAll, NoneInTheWay,
         InsertsDisjoint, GraphIsWhole, Keys

LEMMA KeysOfProduct == ASSUME NEW E, NEW x PROVE Keys(E \X {x}) = E
  <1>1. ASSUME NEW e \in E PROVE e \in Keys(E \X {x})
    <2>1. <<e, x>> \in E \X {x} /\ <<e, x>>[1] = e
      OBVIOUS
    <2> QED
      BY <2>1 DEF Keys
  <1>2. ASSUME NEW e \in Keys(E \X {x}) PROVE e \in E
    <2>1. PICK row \in E \X {x} : e = row[1]
      BY DEF Keys
    <2> QED
      BY <2>1
  <1> QED
    BY <1>1, <1>2

\* What w's commit makes of the live graph: w's own, unless w found nothing and
\* deleted nothing.
LEMMA CommitReplaces ==
  ASSUME TypeOK, GraphInv, NEW w \in Run, run[w] = "commit",
         NEW rows, rows = (related \ del[w]) \cup ins[w]
  PROVE  \/ rows = edges[w] \X {w} /\ \A v \in Run : v # w => del[v] = {}
         \/ rows = related /\ live # {}
  <1>0. ins[w] = edges[w] \X {w}
    BY DEF GraphInv, TxOf
  <1>1. CASE del[w] # {}
    <2>1. del[w] = related
      BY <1>1 DEF GraphInv, DeletesAll
    <2>2. \A v \in Run : v # w => del[v] = {}
      BY <1>1, <2>1 DEF GraphInv, DeletesAll, InsertsDisjoint
    <2> QED
      BY <1>0, <2>1, <2>2
  <1>2. CASE del[w] = {} /\ related = {}
    BY <1>0, <1>2 DEF GraphInv, DeletesAll
  <1>3. CASE del[w] = {} /\ related # {}
    <2>1. live # {}
      BY <1>3 DEF GraphInv, GraphIsWhole
    <2>2. PICK x \in live : related = edges[x] \X {x}
      BY <2>1 DEF GraphInv, GraphIsWhole
    <2>3. x \in Run /\ edges[x] # {}
      BY <1>3, <2>2 DEF TypeOK
    <2>4. Keys(related) = edges[x]
      BY <2>2, KeysOfProduct
    <2>5. edges[w] \cap edges[x] = {}
      <3>1. related \ del[w] = related
        BY <1>3
      <3> QED
        BY <2>4, <3>1 DEF GraphInv, NoneInTheWay
    <2>6. edges[w] = {}
      BY <2>3, <2>5, GraphsMeet DEF GraphInv
    <2>7. ins[w] = {}
      BY <1>0, <2>6
    <2> QED
      BY <1>3, <2>1, <2>7
  <1> QED
    BY <1>1, <1>2, <1>3

LEMMA CommitKeeps ==
  ASSUME TypeOK, GraphInv, NEW w \in Run, Commit(w)
  PROVE  GraphInv'
  <1> USE DEF TypeOK, RunSteps
  <1> DEFINE Whole(rows, x) == rows = edges[x] \X {x}
  <1>0. /\ run[w] = "commit" /\ run'[w] \in {"log", "error"}
        /\ \A v \in Run : v # w => run'[v] = run[v]
        /\ del' = [del EXCEPT ![w] = {}] /\ ins' = [ins EXCEPT ![w] = {}]
        /\ related' = (related \ del[w]) \cup ins[w]
        /\ live' = live \cup {w} /\ UNCHANGED <<edges, snap, logged>>
    BY DEF Commit, EndTx, GotoRun, ErrorStatus
  <1>1. \/ related' = edges[w] \X {w} /\ \A v \in Run : v # w => del[v] = {}
        \/ related' = related /\ live # {}
    <2> HIDE DEF TypeOK
    <2> QED
      BY <1>0, CommitReplaces
  <1>2. EdgesKnown'
    BY <1>0 DEF GraphInv, EdgesKnown
  <1>3. LiveAreOver'
    BY <1>0 DEF GraphInv, LiveAreOver
  <1>4. TxOf'
    BY <1>0 DEF GraphInv, TxOf
  <1>5. SnapIsWhole'
    BY <1>0 DEF GraphInv, SnapIsWhole
  <1>6. DeletesAll'
    <2>1. CASE related' = related
      BY <1>0, <2>1 DEF GraphInv, DeletesAll
    <2>2. CASE \A v \in Run : v # w => del[v] = {}
      BY <1>0, <2>2 DEF DeletesAll
    <2> QED
      BY <1>1, <2>1, <2>2
  <1>7. ASSUME NEW u \in Run, run'[u] = "commit" PROVE edges'[u] \cap Keys(related' \ del'[u]) = {}
    <2>1. u # w /\ run[u] = "commit" /\ del'[u] = del[u] /\ edges'[u] = edges[u]
      BY <1>0, <1>7
    <2>2. edges[u] \cap Keys(related \ del[u]) = {}
      BY <2>1 DEF GraphInv, NoneInTheWay
    <2>3. edges[u] \cap Keys(ins[w]) = {}
      <3>1. ins[u] = edges[u] \X {u}
        BY <2>1 DEF GraphInv, TxOf
      <3>2. Keys(ins[u]) = edges[u]
        BY <3>1, KeysOfProduct
      <3> QED
        BY <2>1, <3>2 DEF GraphInv, InsertsDisjoint
    <2>4. related' \ del'[u] \subseteq (related \ del[u]) \cup ins[w]
      BY <1>0, <2>1
    <2>5. Keys(related' \ del'[u]) \subseteq Keys(related \ del[u]) \cup Keys(ins[w])
      BY <2>4 DEF Keys
    <2> QED
      BY <2>1, <2>2, <2>3, <2>5
  <1>8. InsertsDisjoint'
    <2>1. Keys({}) = {}
      BY DEF Keys
    <2>2. ASSUME NEW u \in Run, NEW v \in Run, u # v
          PROVE  Keys(ins'[u]) \cap Keys(ins'[v]) = {} /\ del'[u] \cap del'[v] = {}
      BY <1>0, <2>1, <2>2 DEF GraphInv, InsertsDisjoint
    <2> QED
      BY <2>2 DEF InsertsDisjoint
  <1>9. GraphIsWhole'
    <2>1. CASE related' = edges[w] \X {w}
      BY <1>0, <2>1 DEF GraphIsWhole
    <2>2. CASE related' = related /\ live # {}
      BY <1>0, <2>2 DEF GraphInv, GraphIsWhole
    <2> QED
      BY <1>1, <2>1, <2>2
  <1> QED
    BY <1>2, <1>3, <1>4, <1>5, <1>6, <1>7, <1>8, <1>9 DEF GraphInv, NoneInTheWay

\* What a snapshot shares with the live graph is all of it or nothing.
LEMMA SnapsAreOld ==
  ASSUME TypeOK, GraphInv, NEW w \in Run
  PROVE  snap[w] \cap related = {} \/ snap[w] \cap related = related
  <1>1. CASE related = {} \/ snap[w] = {}
    BY <1>1
  <1>2. CASE related # {} /\ snap[w] # {}
    <2>1. PICK v \in live : snap[w] = edges[v] \X {v}
      BY <1>2 DEF GraphInv, SnapIsWhole
    <2>2. PICK x \in live : related = edges[x] \X {x}
      BY <1>2 DEF GraphInv, GraphIsWhole
    <2> QED
      BY <2>1, <2>2
  <1> QED
    BY <1>1, <1>2

LEMMA RewriteKeeps ==
  ASSUME TypeOK, GraphInv, NEW w \in Run, Reindex(w), ~Commit(w)
  PROVE  GraphInv'
  <1> USE DEF TypeOK, RunSteps, GotoRun
  <1>0. UNCHANGED <<related, live>>
    BY DEF Reindex, Load, LoadFails, BeginDelete, Delete, DeleteRows, Copy, Rollback, LogRun
  <1>1. CASE Load(w) \/ LoadFails(w)
    <2>1. /\ run[w] = "load" /\ run'[w] \notin {"load", "copy", "commit"}
          /\ \A v \in Run : v # w => run'[v] = run[v] /\ edges'[v] = edges[v]
          /\ edges'[w] \in {edges[w], {}, Graph[w]} /\ UNCHANGED <<snap, del, ins>>
      BY <1>1 DEF Load, LoadFails
    <2>2. w \notin live
      BY <2>1 DEF GraphInv, LiveAreOver
    <2> QED
      BY <1>0, <2>1, <2>2 DEF GraphInv, EdgesKnown, LiveAreOver, TxOf, SnapIsWhole, DeletesAll,
         NoneInTheWay, InsertsDisjoint, GraphIsWhole
  <1>2. CASE BeginDelete(w)
    <2>1. related = {} \/ \E v \in live : related = edges[v] \X {v}
      BY DEF GraphInv, GraphIsWhole
    <2>2. SnapIsWhole'
      BY <1>0, <1>2, <2>1 DEF BeginDelete, GraphInv, SnapIsWhole
    <2> QED
      BY <1>0, <1>2, <2>2 DEF BeginDelete, GraphInv, EdgesKnown, LiveAreOver, TxOf, DeletesAll,
         NoneInTheWay, InsertsDisjoint, GraphIsWhole
  <1>3. CASE Delete(w)
    <2>1. del'[w] = {} \/ del'[w] = related
      BY <1>3, SnapsAreOld DEF Delete, DeleteRows
    <2>2. DeletesAll'
      BY <1>0, <1>3, <2>1 DEF Delete, DeleteRows, GraphInv, DeletesAll
    <2>3. InsertsDisjoint'
      <3>1. \A v \in Run : v # w => del[v] \cap del'[w] = {}
        BY <1>3 DEF Delete, DeleteRows, Others
      <3> QED
        BY <1>3, <3>1 DEF Delete, DeleteRows, GraphInv, InsertsDisjoint
    <2> QED
      BY <1>0, <1>3, <2>2, <2>3 DEF Delete, DeleteRows, GraphInv, EdgesKnown, LiveAreOver, TxOf,
         SnapIsWhole, NoneInTheWay, GraphIsWhole
  <1>4. CASE Copy(w)
    <2>1. ins' = [ins EXCEPT ![w] = edges[w] \X {w}] /\ Keys(edges[w] \X {w}) = edges[w]
      BY <1>4, KeysOfProduct DEF Copy
    <2>2. ASSUME NEW v \in Run, v # w PROVE Keys(ins[v]) \cap edges[w] = {}
      <3>1. Keys(ins[v]) \subseteq Keys(ins[v] \cup del[v])
        BY DEF Keys
      <3> QED
        BY <1>4, <2>2, <3>1 DEF Copy, CopyMayGo, Others
    <2>3. InsertsDisjoint'
      BY <1>4, <2>1, <2>2 DEF Copy, GraphInv, InsertsDisjoint
    <2>4. NoneInTheWay'
      BY <1>0, <1>4 DEF Copy, Conflict, GraphInv, NoneInTheWay
    <2>5. TxOf'
      BY <1>4 DEF Copy, GraphInv, TxOf
    <2> QED
      BY <1>0, <1>4, <2>3, <2>4, <2>5 DEF Copy, GraphInv, EdgesKnown, LiveAreOver, SnapIsWhole,
         DeletesAll, GraphIsWhole
  <1>5. CASE Rollback(w)
    <2>1. /\ run[w] \in {"load", "begin", "delete", "copy", "commit"} /\ run' = [run EXCEPT ![w] = "error"]
          /\ del' = [del EXCEPT ![w] = {}] /\ ins' = [ins EXCEPT ![w] = {}]
          /\ UNCHANGED <<edges, snap>>
      BY <1>5 DEF Rollback, EndTx, ErrorStatus
    <2>2. Keys({}) = {}
      BY DEF Keys
    <2>3. InsertsDisjoint'
      BY <2>1, <2>2 DEF GraphInv, InsertsDisjoint
    <2>4. NoneInTheWay'
      BY <1>0, <2>1 DEF GraphInv, NoneInTheWay
    <2> QED
      BY <1>0, <2>1, <2>3, <2>4 DEF GraphInv, EdgesKnown, LiveAreOver, TxOf, SnapIsWhole, DeletesAll,
         GraphIsWhole
  <1>6. CASE LogRun(w)
    BY <1>0, <1>6 DEF LogRun, GraphInv, EdgesKnown, LiveAreOver, TxOf, SnapIsWhole, DeletesAll,
       NoneInTheWay, InsertsDisjoint, GraphIsWhole
  <1> QED
    BY <1>1, <1>2, <1>3, <1>4, <1>5, <1>6 DEF Reindex

LEMMA PreparationLeavesRuns ==
  ASSUME NEW p \in ApiPod, Prepare(p) \/ PrepareAgain(p)
  PROVE  UNCHANGED <<runVars, related>>
  BY DEF Prepare, EnsureSchema, AcquireLock, CountProducts, CopySeed, CommitSeed, PrepareAgain

LEMMA GraphStep == TypeOK /\ GraphInv /\ [Next]_vars => GraphInv'
  <1> SUFFICES ASSUME TypeOK, GraphInv, [Next]_vars PROVE GraphInv'
    OBVIOUS
  <1>1. ASSUME UNCHANGED <<runVars, related>> PROVE GraphInv'
    BY <1>1 DEF runVars, GraphInv, EdgesKnown, LiveAreOver, TxOf, SnapIsWhole, DeletesAll,
       NoneInTheWay, InsertsDisjoint, GraphIsWhole
  <1>2. ASSUME NEW w \in Run, Reindex(w) PROVE GraphInv'
    BY <1>2, CommitKeeps, RewriteKeeps
  <1> QED
    BY <1>1, <1>2, PreparationLeavesRuns DEF Next, Finished, vars, Provision

LEMMA GraphHolds == Spec => []GraphInv
  <1>1. Init => TypeOK /\ GraphInv
    BY TypeInit, GraphInit
  <1>2. TypeOK /\ GraphInv /\ [Next]_vars => TypeOK' /\ GraphInv'
    BY TypeStep, GraphStep
  <1> QED
    BY <1>1, <1>2, PTL DEF Spec

\* From the first commit on the graph is the whole graph of one committed run,
\* though overlapping rewrites take no lock on the table: what keeps them apart
\* is the primary key and that the graphs of one catalogue have edges in common.
THEOREM GraphStaysWhole == Spec => []GraphIsWhole
  <1>1. GraphInv => GraphIsWhole
    BY DEF GraphInv
  <1> QED
    BY <1>1, GraphHolds, PTL
=============================================================================
