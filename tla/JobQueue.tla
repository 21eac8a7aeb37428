------------------------------ MODULE JobQueue ------------------------------
(***************************************************************************)
(* The deferred path of one tenant: POST /reindex pushes a job on the Redis *)
(* list q:<tenant> and answers 202; worker pods pop jobs and rebuild the   *)
(* product graph; KEDA starts and stops the workers by the depth of the    *)
(* list.  Tenants have lists, workers and scalers of their own, so one     *)
(* tenant is the whole of it.                                              *)
(*                                                                         *)
(* BRPOP removes the job when it is popped: from then on only the worker   *)
(* has it.  The worker's context is the one SIGTERM cancels; the database  *)
(* calls use it, but a BRPOP already waiting does not notice it.           *)
(***************************************************************************)
EXTENDS Naturals, Sequences, FiniteSets, SequencesExt

CONSTANTS
  Job,         \* the jobs that POST /reindex requests make, by their ID
  Worker,      \* the worker pods that may exist at once, terminating included
  MaxReplicas, \* scaling.maxReplicas
  ListLength,  \* scaling.listLength
  MaxUpsets,   \* bound: connection errors, database errors and kills, in all
  None         \* no job

ASSUME JobAssumption == None \notin Job /\ IsFiniteSet(Worker)
ASSUME ScaleAssumption ==
  MaxReplicas \in Nat \ {0} /\ ListLength \in Nat \ {0} /\ MaxUpsets \in Nat

VARIABLES
  api,     \* api[j]: where the request that makes j is, or the reply it got
  queue,   \* the Redis list, its head first
  at,      \* at[w]: where worker w's drain loop is; "off" when there is no pod
  cur,     \* cur[w]: the job w has, or None
  term,    \* workers that got SIGTERM: their context is cancelled
  applied, \* jobs whose graph was committed by ReplaceRelated
  runs,    \* the IDs in reindex_runs
  seen,    \* the depth KEDA read last
  upsets,  \* upsets so far
  pushed,  \* history: pushed[j] is how often j was put on the list
  settled, \* history: settled[j] is how many copies of j left the system
  taken    \* history: the jobs popped, in order

apiVars    == <<api, pushed>>
workerVars == <<at, cur>>
dbVars     == <<applied, runs>>
vars == <<apiVars, workerVars, dbVars, queue, term, seen, upsets, settled, taken>>

Busy   == {"popped", "load", "replace", "log"}
Places == {"off", "loop", "pop"} \cup Busy

Upset == upsets < MaxUpsets /\ upsets' = upsets + 1

Running == {w \in Worker : at[w] # "off" /\ w \notin term}

Init ==
  /\ api = [j \in Job |-> "new"]
  /\ queue = << >>
  /\ \E w \in Worker : at = [x \in Worker |-> IF x = w THEN "loop" ELSE "off"]
  /\ cur = [w \in Worker |-> None]
  /\ term = {} /\ applied = {} /\ runs = {}
  /\ seen = 0 /\ upsets = 0
  /\ pushed = [j \in Job |-> 0]
  /\ settled = [j \in Job |-> 0]
  /\ taken = << >>

-----------------------------------------------------------------------------
(* handleReindex and Enqueue.                                              *)

\* Variant: pushed at the end BRPOP takes from.
PushTail(j) == queue' = Append(queue, j)

LPush(j) == queue' = <<j>> \o queue

Enqueue(j) ==
  /\ api[j] = "new"
  /\ LPush(j) /\ pushed' = [pushed EXCEPT ![j] = @ + 1]
  /\ api' = [api EXCEPT ![j] = "pushed"]
  /\ UNCHANGED <<workerVars, dbVars, term, seen, upsets, settled, taken>>

\* LPUSH is applied but its reply is lost: the client sends it again.
EnqueueUnsure(j) ==
  /\ api[j] = "new" /\ Upset
  /\ LPush(j) /\ pushed' = [pushed EXCEPT ![j] = @ + 1]
  /\ UNCHANGED <<api, workerVars, dbVars, term, seen, settled, taken>>

EnqueueFails(j) ==
  /\ api[j] = "new" /\ Upset
  /\ api' = [api EXCEPT ![j] = "503"]
  /\ UNCHANGED <<pushed, queue, workerVars, dbVars, term, seen, settled, taken>>

\* The depth in the reply is a convenience: failing to read it changes nothing.
Accept(j) ==
  /\ api[j] = "pushed"
  /\ api' = [api EXCEPT ![j] = "202"]
  /\ UNCHANGED <<pushed, queue, workerVars, dbVars, term, seen, upsets, settled, taken>>

-----------------------------------------------------------------------------
(* drain.                                                                  *)

Move(w, place) == at' = [at EXCEPT ![w] = place]

\* Variant: the job is counted, and processed once more.
SettleAgain(w) == settled' = [settled EXCEPT ![cur[w]] = @ + 1] /\ UNCHANGED cur

Settle(w) ==
  /\ settled' = [settled EXCEPT ![cur[w]] = @ + 1]
  /\ cur' = [cur EXCEPT ![w] = None]

\* Variants: the context is not looked at before the read; an unknown place.
KeepReading(w) == "pop"
StopAt(w) == IF w \in term THEN "stopped" ELSE "pop"

AfterCheck(w) == IF w \in term THEN "off" ELSE "pop"

\* The loop's head: return if the context is cancelled, else read the queue.
CheckContext(w) ==
  /\ at[w] = "loop"
  /\ Move(w, AfterCheck(w))
  /\ term' = term \ {w}
  /\ UNCHANGED <<apiVars, dbVars, queue, cur, seen, upsets, settled, taken>>

Pop(w) ==
  /\ at[w] = "pop" /\ queue # << >>
  /\ cur' = [cur EXCEPT ![w] = Last(queue)]
  /\ queue' = Front(queue)
  /\ taken' = Append(taken, Last(queue))
  /\ Move(w, "popped")
  /\ UNCHANGED <<apiVars, dbVars, term, seen, upsets, settled>>

\* ErrEmpty after blockFor, or an error and its back-off.
PopNothing(w) ==
  /\ at[w] = "pop"
  /\ (queue = << >> /\ UNCHANGED upsets) \/ Upset
  /\ Move(w, "loop")
  /\ UNCHANGED <<apiVars, dbVars, queue, term, cur, seen, settled, taken>>

\* Cancelled before the read was issued, which then returns context.Canceled,
\* or during the back-off: drain returns at once.
ReadCanceled(w) ==
  /\ at[w] = "pop" /\ w \in term
  /\ Move(w, "off")
  /\ term' = term \ {w}
  /\ UNCHANGED <<apiVars, dbVars, queue, cur, seen, upsets, settled, taken>>

Receive(w) ==
  /\ at[w] = "popped"
  /\ Move(w, "load")
  /\ UNCHANGED <<apiVars, dbVars, queue, cur, term, seen, upsets, settled, taken>>

\* The connection breaks with the job in BRPOP's reply: the job is gone.
ReplyLost(w) ==
  /\ at[w] = "popped" /\ Upset
  /\ Settle(w)
  /\ Move(w, "loop")
  /\ UNCHANGED <<apiVars, dbVars, queue, term, seen, taken>>

-----------------------------------------------------------------------------
(* runReindex.                                                             *)

\* AllProducts, and the computation of the edges.
Load(w) ==
  /\ at[w] = "load" /\ w \notin term
  /\ Move(w, "replace")
  /\ UNCHANGED <<apiVars, dbVars, queue, cur, term, seen, upsets, settled, taken>>

CommitGraph(w) == applied' = applied \cup {cur[w]}

Replace(w) ==
  /\ at[w] = "replace" /\ w \notin term
  /\ CommitGraph(w)
  /\ Move(w, "log")
  /\ UNCHANGED <<apiVars, runs, queue, cur, term, seen, upsets, settled, taken>>

\* A call on a cancelled context fails, and so may any call: the job counts as
\* an error and nothing puts it back.  A commit that fails may have happened.
StoreFails(w) ==
  /\ at[w] \in {"load", "replace"}
  /\ (w \in term /\ UNCHANGED upsets) \/ Upset
  /\ \/ UNCHANGED applied
     \/ at[w] = "replace" /\ CommitGraph(w)
  /\ Settle(w)
  /\ Move(w, "loop")
  /\ UNCHANGED <<apiVars, runs, queue, term, seen, taken>>

\* RecordReindex: ON CONFLICT DO NOTHING; an error is only logged.
RecordRun(w) ==
  /\ at[w] = "log"
  /\ \/ w \notin term /\ runs' = runs \cup {cur[w]} /\ UNCHANGED upsets
     \/ w \in term /\ UNCHANGED <<runs, upsets>>
     \/ Upset /\ UNCHANGED runs
  /\ Settle(w)
  /\ Move(w, "loop")
  /\ UNCHANGED <<apiVars, applied, queue, term, seen, taken>>

-----------------------------------------------------------------------------
(* The pods: KEDA, and what kills a pod without notice.                    *)

CeilDiv(a, b) == (a + b - 1) \div b

\* Variant: never below one replica, as a HorizontalPodAutoscaler.
TargetHPA(d) == IF CeilDiv(d, ListLength) > MaxReplicas THEN MaxReplicas
                ELSE IF d = 0 THEN 1 ELSE CeilDiv(d, ListLength)
\* Variant: activation needs more than a full replica's share of jobs.
TargetLazy(d) == IF d < ListLength THEN 0
                 ELSE IF CeilDiv(d, ListLength) > MaxReplicas THEN MaxReplicas
                 ELSE CeilDiv(d, ListLength)

\* Replicas for depth d: 0 only if it is 0 (activationListLength is 0).
Target(d) == IF CeilDiv(d, ListLength) > MaxReplicas THEN MaxReplicas
             ELSE CeilDiv(d, ListLength)

Poll ==
  /\ seen # Len(queue) /\ seen' = Len(queue)
  /\ UNCHANGED <<apiVars, workerVars, dbVars, queue, term, upsets, settled, taken>>

ScaleUp(w) ==
  /\ at[w] = "off" /\ Cardinality(Running) < Target(seen)
  /\ Move(w, "loop")
  /\ UNCHANGED <<apiVars, cur, dbVars, queue, term, seen, upsets, settled, taken>>

\* After the cooldown the surplus workers get SIGTERM, whatever they are doing:
\* the depth of the list says nothing of jobs already popped.
ScaleDown(w) ==
  /\ w \in Running /\ Cardinality(Running) > Target(seen)
  /\ term' = term \cup {w}
  /\ UNCHANGED <<apiVars, workerVars, dbVars, queue, seen, upsets, settled, taken>>

\* A crash, an eviction, or the end of the grace period.
Kill(w) ==
  /\ at[w] # "off" /\ Upset
  /\ IF cur[w] = None THEN UNCHANGED <<settled, cur>> ELSE Settle(w)
  /\ Move(w, "off")
  /\ term' = term \ {w}
  /\ UNCHANGED <<apiVars, dbVars, queue, seen, taken>>

-----------------------------------------------------------------------------
Handler(j) == Enqueue(j) \/ EnqueueUnsure(j) \/ EnqueueFails(j) \/ Accept(j)

Drain(w) ==
  \/ CheckContext(w) \/ Pop(w) \/ PopNothing(w) \/ ReadCanceled(w) \/ Receive(w)
  \/ ReplyLost(w)
  \/ Load(w) \/ Replace(w) \/ StoreFails(w) \/ RecordRun(w)

Scale(w) == ScaleUp(w) \/ ScaleDown(w)

Idle ==
  /\ \A j \in Job : api[j] \in {"202", "503"}
  /\ queue = << >> /\ \A w \in Worker : at[w] = "off"
  /\ UNCHANGED vars

Next ==
  \/ \E j \in Job : Handler(j)
  \/ \E w \in Worker : Drain(w) \/ Scale(w) \/ Kill(w)
  \/ Poll
  \/ Idle

Spec == Init /\ [][Next]_vars

\* Handlers and worker loops run, BRPOP returns after blockFor at the latest,
\* and KEDA polls and reconciles.
FairSpec ==
  /\ Spec
  /\ \A j \in Job : WF_vars(Handler(j))
  /\ \A w \in Worker : WF_vars(Drain(w)) /\ WF_vars(Scale(w))
  /\ WF_vars(Poll)
=============================================================================
